-------------------------- MODULE BufferPool_proof --------------------------
(***************************************************************************)
(* Proofs about BufferPool, for every range of the counts and any number   *)
(* of buffers.                                                             *)
(***************************************************************************)
EXTENDS BufferPool, SequenceTheorems, TLAPS

(***************************************************************************)
(* The inductive invariant: the counts of the pool are the uses not yet    *)
(* over, and only reserved buffers have any.                               *)
(***************************************************************************)
CountsAreUses ==
  /\ buffers = [pool |-> buffers.pool, reserved |-> buffers.reserved,
                total |-> buffers.total]
  /\ buffers.reserved = [b \in Reserved(buffers) |-> buffers.reserved[b]]
  /\ \A b \in Reserved(buffers) : b \in 1..buffers.total /\ buffers.reserved[b] = uses[b]
  /\ \A b \in Buffers : b \notin Reserved(buffers) => uses[b] = 0
  /\ \A j \in 1..Len(buffers.pool) : buffers.pool[j] \in 1..buffers.total

IInv == TypeOK /\ EachInOnePlace /\ CountsAreUses

LEMMA InitInvariant == Init => IInv
<1> SUFFICES ASSUME Init PROVE IInv
  OBVIOUS
<1>1. buffers = EmptyPool /\ uses = [b \in Buffers |-> 0]
  BY DEF Init
<1>2. /\ buffers.pool = << >> /\ buffers.reserved = << >> /\ buffers.total = 0
      /\ Reserved(buffers) = {}
  BY <1>1 DEF EmptyPool, Reserved
<1>3. TypeOK
  BY <1>1, <1>2, BufferPoolAssumption DEF TypeOK
<1>4. EachInOnePlace
  BY <1>2 DEF EachInOnePlace
<1>5. CountsAreUses
  <2>1. buffers.reserved = [b \in {} |-> buffers.reserved[b]]
    BY <1>2
  <2> QED  BY <1>1, <1>2, <2>1 DEF CountsAreUses, EmptyPool
<1> QED  BY <1>3, <1>4, <1>5 DEF IInv

(* The facts that every step starts from. *)
LEMMA Facts ==
  ASSUME IInv
  PROVE  /\ buffers.pool \in Seq(Buffers) /\ Len(buffers.pool) \in Nat
         /\ buffers.total \in Nat /\ MaxBuffers \in Nat /\ CountRange \in Nat
         /\ uses \in [Buffers -> 0..CountRange - 1]
         /\ \A b \in Buffers : uses[b] \in Nat
BY BufferPoolAssumption DEF IInv, TypeOK, Buffers

LEMMA PlaceFacts ==
  ASSUME IInv
  PROVE  /\ \A b \in 1..buffers.total : b \notin Reserved(buffers) =>
              \E j \in 1..Len(buffers.pool) : buffers.pool[j] = b
         /\ \A j \in 1..Len(buffers.pool) : buffers.pool[j] \notin Reserved(buffers)
         /\ \A j, k \in 1..Len(buffers.pool) : j # k => buffers.pool[j] # buffers.pool[k]
BY DEF IInv, EachInOnePlace

(* What getBuffer hands out is neither reserved nor in use. *)
LEMMA NextIsFresh ==
  ASSUME IInv, NextBuffer(buffers) \in Buffers
  PROVE  NextBuffer(buffers) \notin Reserved(buffers) /\ uses[NextBuffer(buffers)] = 0
<1>1. NextBuffer(buffers) \notin Reserved(buffers)
  <2>1. CASE buffers.pool # << >>
    <3>1. Len(buffers.pool) \in 1..Len(buffers.pool)
      BY <2>1, Facts, EmptySeq
    <3> QED  BY <2>1, <3>1 DEF NextBuffer, IInv, EachInOnePlace
  <2>2. CASE buffers.pool = << >>
    <3>1. buffers.total + 1 \notin 1..buffers.total
      BY Facts
    <3> QED  BY <2>2, <3>1 DEF NextBuffer, IInv, CountsAreUses
  <2> QED  BY <2>1, <2>2
<1> QED  BY <1>1 DEF IInv, CountsAreUses

LEMMA GetInvariant == ASSUME IInv, Get PROVE IInv'
<1> DEFINE b0 == NextBuffer(buffers)
           pl == buffers.pool
<1>0. PICK n \in 0..MaxUses :
        /\ n < CountRange /\ b0 \in Buffers
        /\ buffers' = getBuffer(buffers, n)
        /\ uses' = [uses EXCEPT ![b0] = n]
  BY DEF Get
<1>1. pl \in Seq(Buffers) /\ Len(pl) \in Nat /\ buffers.total \in Nat
      /\ n \in 0..CountRange - 1 /\ uses \in [Buffers -> 0..CountRange - 1]
  BY <1>0, Facts, BufferPoolAssumption
<1>2. /\ buffers'.pool = IF pl = << >> THEN << >> ELSE [j \in 1..Len(pl) - 1 |-> pl[j]]
      /\ buffers'.total = IF pl # << >> THEN buffers.total ELSE buffers.total + 1
      /\ buffers'.reserved = [b \in Reserved(buffers) \cup {b0} |->
                                IF b = b0 THEN n ELSE buffers.reserved[b]]
      /\ buffers' = [pool |-> buffers'.pool, reserved |-> buffers'.reserved,
                     total |-> buffers'.total]
  BY <1>0 DEF getBuffer, Popped
<1>3. Reserved(buffers') = Reserved(buffers) \cup {b0}
  BY <1>2 DEF Reserved
<1>4. b0 \notin Reserved(buffers)
  BY <1>0, NextIsFresh
<1>5. CASE pl # << >>
  <2>1. Len(pl) \in 1..Len(pl) /\ Len(pl) - 1 \in Nat /\ b0 = pl[Len(pl)]
    BY <1>1, <1>5, EmptySeq DEF NextBuffer
  <2>2. \A j \in 1..Len(pl) - 1 : pl[j] \in Buffers
    BY <1>1
  <2>3. buffers'.pool \in Seq(Buffers) /\ DOMAIN buffers'.pool = 1..Len(pl) - 1
    <3>1. buffers'.pool = [j \in 1..Len(pl) - 1 |-> pl[j]]
      BY <1>2, <1>5
    <3> QED  BY <2>1, <2>2, <3>1, IsASeq
  <2>4. Len(buffers'.pool) = Len(pl) - 1
    BY <2>1, <2>3, LenProperties
  <2>5. \A j \in 1..Len(pl) - 1 : buffers'.pool[j] = pl[j] /\ pl[j] # b0
    <3> TAKE j \in 1..Len(pl) - 1
    <3>1. buffers'.pool[j] = pl[j]
      BY <1>2, <1>5
    <3>2. j \in 1..Len(pl) /\ j # Len(pl)
      BY <1>1
    <3> QED  BY <2>1, <3>1, <3>2, PlaceFacts
  <2>6. b0 \in 1..buffers.total /\ buffers'.total = buffers.total
    BY <1>2, <1>5, <2>1 DEF IInv, CountsAreUses
  <2>7. TypeOK'
    BY <1>0, <1>1, <1>2, <1>3, <2>3, <2>6 DEF IInv, TypeOK
  <2>8. EachInOnePlace'
    <3>1. \A b \in 1..buffers'.total :
            b \in Reserved(buffers') \/ \E j \in 1..Len(buffers'.pool) : buffers'.pool[j] = b
      <4> SUFFICES ASSUME NEW b \in 1..buffers.total, b \notin Reserved(buffers), b # b0
                   PROVE  \E j \in 1..Len(pl) - 1 : buffers'.pool[j] = b
        BY <1>3, <2>4, <2>6
      <4>1. PICK j \in 1..Len(pl) : pl[j] = b
        BY PlaceFacts
      <4>2. j \in 1..Len(pl) - 1
        BY <1>1, <2>1, <4>1
      <4> QED  BY <2>5, <4>1, <4>2
    <3>2. \A j \in 1..Len(buffers'.pool) : buffers'.pool[j] \notin Reserved(buffers')
      <4> TAKE j \in 1..Len(buffers'.pool)
      <4>1. j \in 1..Len(pl) - 1 /\ j \in 1..Len(pl)
        BY <1>1, <2>4
      <4>2. pl[j] \notin Reserved(buffers)
        BY <4>1, PlaceFacts
      <4> QED  BY <1>3, <2>5, <4>1, <4>2
    <3>3. \A j, k \in 1..Len(buffers'.pool) : j # k => buffers'.pool[j] # buffers'.pool[k]
      <4> TAKE j, k \in 1..Len(buffers'.pool)
      <4>1. /\ j \in 1..Len(pl) - 1 /\ j \in 1..Len(pl)
            /\ k \in 1..Len(pl) - 1 /\ k \in 1..Len(pl)
        BY <1>1, <2>4
      <4>2. j # k => pl[j] # pl[k]
        BY <4>1, PlaceFacts
      <4> QED  BY <2>5, <4>1, <4>2
    <3> QED  BY <3>1, <3>2, <3>3 DEF EachInOnePlace, Reserved
  <2>9. CountsAreUses'
    <3>1. \A b \in Reserved(buffers') :
             b \in 1..buffers'.total /\ buffers'.reserved[b] = uses'[b]
      BY <1>0, <1>1, <1>2, <1>3, <1>4, <2>6 DEF IInv, CountsAreUses, TypeOK
    <3>2. \A b \in Buffers : b \notin Reserved(buffers') => uses'[b] = 0
      BY <1>0, <1>1, <1>3 DEF IInv, CountsAreUses
    <3>3. \A j \in 1..Len(buffers'.pool) : buffers'.pool[j] \in 1..buffers'.total
      BY <1>1, <2>4, <2>5, <2>6, SMTT(30) DEF IInv, CountsAreUses
    <3>4. buffers'.reserved = [b \in Reserved(buffers') |-> buffers'.reserved[b]]
      BY <1>2, <1>3
    <3> QED  BY <1>2, <3>1, <3>2, <3>3, <3>4 DEF CountsAreUses, Reserved
  <2> QED  BY <2>7, <2>8, <2>9 DEF IInv
<1>6. CASE pl = << >>
  <2>1. Len(pl) = 0 /\ b0 = buffers.total + 1 /\ buffers'.total = buffers.total + 1
    BY <1>2, <1>6 DEF NextBuffer
  <2>2. buffers'.pool = << >>
    BY <1>2, <1>6
  <2>3. Len(buffers'.pool) = 0 /\ buffers'.pool \in Seq(Buffers)
    BY <2>2
  <2>4. TypeOK'
    BY <1>0, <1>1, <1>2, <1>3, <2>1, <2>3 DEF IInv, TypeOK, Buffers
  <2>5. EachInOnePlace'
    <3>1. \A b \in 1..buffers'.total : b \in Reserved(buffers')
      BY <1>1, <1>3, <1>6, <2>1 DEF IInv, EachInOnePlace
    <3> QED  BY <2>3, <3>1 DEF EachInOnePlace, Reserved
  <2>6. CountsAreUses'
    <3>1. \A b \in Reserved(buffers') :
             b \in 1..buffers'.total /\ buffers'.reserved[b] = uses'[b]
      BY <1>0, <1>1, <1>2, <1>3, <1>4, <2>1 DEF IInv, CountsAreUses, TypeOK
    <3>2. \A b \in Buffers : b \notin Reserved(buffers') => uses'[b] = 0
      BY <1>0, <1>1, <1>3 DEF IInv, CountsAreUses
    <3>3. buffers'.reserved = [b \in Reserved(buffers') |-> buffers'.reserved[b]]
      BY <1>2, <1>3
    <3>4. \A j \in 1..Len(buffers'.pool) : buffers'.pool[j] \in 1..buffers'.total
      BY <2>3
    <3> QED  BY <1>2, <3>1, <3>2, <3>3, <3>4 DEF CountsAreUses, Reserved
  <2> QED  BY <2>4, <2>5, <2>6 DEF IInv
<1> QED  BY <1>5, <1>6

(* A buffer in use is reserved, so a release finds it. *)
LEMMA UsedIsReserved ==
  ASSUME IInv, NEW b \in Buffers, uses[b] > 0
  PROVE  /\ b \in Reserved(buffers) /\ b # zeroBuffer
         /\ buffers.reserved[b] = uses[b] /\ b \in 1..buffers.total
<1>1. b \in Reserved(buffers)
  BY Facts DEF IInv, CountsAreUses
<1> QED  BY <1>1, Facts DEF IInv, CountsAreUses, zeroBuffer, Buffers

(* --count, for a count that is not zero. *)
LEMMA Decrement ==
  ASSUME NEW c \in 1..CountRange - 1
  PROVE  (c + CountRange - 1) % CountRange = c - 1
BY BufferPoolAssumption

LEMMA ReleaseInvariant ==
  ASSUME IInv, NEW b \in Buffers, uses[b] > 0,
         buffers' = releaseBuffer(buffers, b), uses' = [uses EXCEPT ![b] = @ - 1]
  PROVE  /\ IInv'
         /\ Reserved(buffers') = IF uses[b] = 1 THEN Reserved(buffers) \ {b}
                                                ELSE Reserved(buffers)
<1> DEFINE pl == buffers.pool
<1>1. pl \in Seq(Buffers) /\ Len(pl) \in Nat /\ buffers.total \in Nat
      /\ uses \in [Buffers -> 0..CountRange - 1] /\ CountRange \in Nat /\ uses[b] \in Nat
  BY Facts
<1>2. b \in Reserved(buffers) /\ b # zeroBuffer
      /\ buffers.reserved[b] = uses[b] /\ b \in 1..buffers.total
  BY UsedIsReserved
<1>3. (buffers.reserved[b] + CountRange - 1) % CountRange = uses[b] - 1
  <2>1. uses[b] \in 1..CountRange - 1
    BY <1>1
  <2> QED  BY <1>2, <2>1, Decrement
<1>4. uses' \in [Buffers -> 0..CountRange - 1]
  BY <1>1
<1>5. CASE uses[b] = 1
  <2>1. /\ buffers'.pool = Append(pl, b)
        /\ buffers'.total = buffers.total
        /\ buffers'.reserved = [c \in Reserved(buffers) \ {b} |-> buffers.reserved[c]]
        /\ buffers' = [pool |-> buffers'.pool, reserved |-> buffers'.reserved,
                       total |-> buffers'.total]
    <3>1. (buffers.reserved[b] + CountRange - 1) % CountRange <= 0
      BY <1>1, <1>3, <1>5
    <3>2. buffers' = [pool |-> Append(pl, b),
                      reserved |-> [c \in Reserved(buffers) \ {b} |-> buffers.reserved[c]],
                      total |-> buffers.total]
      BY <1>2, <3>1, Zenon DEF releaseBuffer
    <3> QED  BY <3>2
  <2>2. Reserved(buffers') = Reserved(buffers) \ {b}
    BY <2>1 DEF Reserved
  <2>3. /\ buffers'.pool \in Seq(Buffers) /\ Len(buffers'.pool) = Len(pl) + 1
        /\ \A j \in 1..Len(pl) : buffers'.pool[j] = pl[j]
        /\ buffers'.pool[Len(pl) + 1] = b
    BY <1>1, <2>1
  <2>4. TypeOK'
    BY <1>4, <2>1, <2>2, <2>3 DEF IInv, TypeOK
  <2>5. \A j \in 1..Len(pl) : pl[j] # b
    BY <1>2 DEF IInv, EachInOnePlace
  <2>6. EachInOnePlace'
    <3>1. \A c \in 1..buffers'.total :
            c \in Reserved(buffers') \/ \E j \in 1..Len(buffers'.pool) : buffers'.pool[j] = c
      <4> SUFFICES ASSUME NEW c \in 1..buffers.total, c \notin Reserved(buffers')
                   PROVE  \E j \in 1..Len(pl) + 1 : buffers'.pool[j] = c
        BY <2>1, <2>3
      <4>1. CASE c = b
        BY <1>1, <2>3, <4>1
      <4>2. CASE c # b
        <5>1. PICK j \in 1..Len(pl) : pl[j] = c
          BY <2>2, <4>2, PlaceFacts
        <5>2. j \in 1..Len(pl) + 1
          BY <1>1, <5>1
        <5>3. buffers'.pool[j] = c
          BY <2>3, <5>1
        <5> QED  BY <5>2, <5>3
      <4> QED  BY <4>1, <4>2
    <3>2. \A j \in 1..Len(buffers'.pool) : buffers'.pool[j] \notin Reserved(buffers')
      <4> TAKE j \in 1..Len(buffers'.pool)
      <4>1. CASE j = Len(pl) + 1  BY <2>2, <2>3, <4>1
      <4>2. CASE j \in 1..Len(pl)
        BY <2>2, <2>3, <4>2 DEF IInv, EachInOnePlace
      <4> QED  BY <1>1, <2>3, <4>1, <4>2
    <3>3. \A j, k \in 1..Len(buffers'.pool) : j # k => buffers'.pool[j] # buffers'.pool[k]
      <4> TAKE j, k \in 1..Len(buffers'.pool)
      <4> HAVE j # k
      <4>1. CASE j \in 1..Len(pl) /\ k \in 1..Len(pl)
        <5>1. pl[j] # pl[k]  BY <4>1, PlaceFacts
        <5> QED  BY <2>3, <4>1, <5>1
      <4>2. CASE j = Len(pl) + 1 /\ k \in 1..Len(pl)
        <5>1. buffers'.pool[j] = b /\ buffers'.pool[k] = pl[k] /\ pl[k] # b
          BY <2>3, <2>5, <4>2
        <5> QED  BY <5>1
      <4>3. CASE j \in 1..Len(pl) /\ k = Len(pl) + 1
        <5>1. buffers'.pool[k] = b /\ buffers'.pool[j] = pl[j] /\ pl[j] # b
          BY <2>3, <2>5, <4>3
        <5> QED  BY <5>1
      <4>4. j \in 1..Len(pl) + 1 /\ k \in 1..Len(pl) + 1
        BY <2>3
      <4>5. /\ j \in 1..Len(pl) \/ j = Len(pl) + 1
            /\ k \in 1..Len(pl) \/ k = Len(pl) + 1
        <5>1. \A n \in Nat : \A x \in 1..n + 1 : x \in 1..n \/ x = n + 1
          OBVIOUS
        <5> QED  BY <1>1, <4>4, <5>1, Zenon
      <4> QED  BY <4>1, <4>2, <4>3, <4>5
    <3> QED  BY <3>1, <3>2, <3>3 DEF EachInOnePlace, Reserved
  <2>7. CountsAreUses'
    <3>1. \A c \in Reserved(buffers') :
             c \in 1..buffers'.total /\ buffers'.reserved[c] = uses'[c]
      <4> TAKE c \in Reserved(buffers')
      <4>1. c \in Reserved(buffers) /\ c # b /\ c \in Buffers
        BY <2>2 DEF IInv, TypeOK
      <4>2. buffers'.reserved[c] = buffers.reserved[c] /\ uses'[c] = uses[c]
        BY <1>1, <2>1, <4>1
      <4> QED  BY <2>1, <4>1, <4>2 DEF IInv, CountsAreUses
    <3>2. \A c \in Buffers : c \notin Reserved(buffers') => uses'[c] = 0
      BY <1>1, <1>5, <2>2 DEF IInv, CountsAreUses
    <3>3. \A j \in 1..Len(buffers'.pool) : buffers'.pool[j] \in 1..buffers'.total
      <4> TAKE j \in 1..Len(buffers'.pool)
      <4>1. CASE j = Len(pl) + 1  BY <1>2, <2>1, <2>3, <4>1
      <4>2. CASE j \in 1..Len(pl)
        BY <2>1, <2>3, <4>2 DEF IInv, CountsAreUses
      <4> QED  BY <1>1, <2>3, <4>1, <4>2
    <3>4. buffers'.reserved = [c \in Reserved(buffers') |-> buffers'.reserved[c]]
      BY <2>1, <2>2
    <3> QED  BY <2>1, <3>1, <3>2, <3>3, <3>4 DEF CountsAreUses, Reserved
  <2> QED  BY <1>5, <2>2, <2>4, <2>6, <2>7 DEF IInv
<1>6. CASE uses[b] # 1
  <2>1. uses[b] - 1 \in 1..CountRange - 1
    BY <1>1, <1>6
  <2>2. buffers' = [buffers EXCEPT !.reserved[b] = uses[b] - 1]
    BY <1>2, <1>3, <2>1 DEF releaseBuffer
  <2>3. /\ buffers'.pool = pl /\ buffers'.total = buffers.total
        /\ buffers'.reserved = [c \in Reserved(buffers) |->
                                  IF c = b THEN uses[b] - 1 ELSE buffers.reserved[c]]
        /\ buffers' = [pool |-> buffers'.pool, reserved |-> buffers'.reserved,
                       total |-> buffers'.total]
    BY <1>2, <2>2 DEF IInv, CountsAreUses, Reserved
  <2>4. Reserved(buffers') = Reserved(buffers)
    BY <2>3 DEF Reserved
  <2>5. TypeOK'
    BY <1>1, <1>4, <2>1, <2>3, <2>4 DEF IInv, TypeOK
  <2>6. EachInOnePlace'
    BY <2>3, <2>4 DEF IInv, EachInOnePlace
  <2>7. CountsAreUses'
    <3>1. \A c \in Reserved(buffers') :
             c \in 1..buffers'.total /\ buffers'.reserved[c] = uses'[c]
      <4> TAKE c \in Reserved(buffers')
      <4>1. c \in Reserved(buffers) /\ c \in Buffers
        BY <2>4 DEF IInv, TypeOK
      <4>2. uses'[c] = IF c = b THEN uses[b] - 1 ELSE uses[c]
        BY <1>1, <4>1
      <4>3. buffers'.reserved[c] = IF c = b THEN uses[b] - 1 ELSE buffers.reserved[c]
        BY <2>3, <4>1
      <4> QED  BY <2>3, <4>1, <4>2, <4>3 DEF IInv, CountsAreUses
    <3>2. \A c \in Buffers : c \notin Reserved(buffers') => uses'[c] = 0
      BY <1>1, <1>2, <2>4 DEF IInv, CountsAreUses
    <3>3. \A j \in 1..Len(buffers'.pool) : buffers'.pool[j] \in 1..buffers'.total
      BY <2>3 DEF IInv, CountsAreUses
    <3>4. buffers'.reserved = [c \in Reserved(buffers') |-> buffers'.reserved[c]]
      BY <2>3, <2>4
    <3> QED  BY <2>3, <3>1, <3>2, <3>3, <3>4 DEF CountsAreUses, Reserved
  <2> QED  BY <1>6, <2>4, <2>5, <2>6, <2>7 DEF IInv
<1> QED  BY <1>5, <1>6

LEMMA ReserveInvariant ==
  ASSUME IInv, NEW b \in Buffers, NEW n \in 0..MaxUses,
         uses[b] > 0, uses[b] + n < CountRange,
         buffers' = reserveBuffer(buffers, b, n), uses' = [uses EXCEPT ![b] = @ + n]
  PROVE  IInv' /\ Reserved(buffers') = Reserved(buffers)
<1>1. buffers.total \in Nat /\ uses \in [Buffers -> 0..CountRange - 1]
      /\ CountRange \in Nat /\ uses[b] \in Nat /\ n \in Nat
  BY Facts, BufferPoolAssumption
<1>2. b \in Reserved(buffers) /\ b # zeroBuffer /\ buffers.reserved[b] = uses[b]
  BY UsedIsReserved
<1>3. (uses[b] + n) % CountRange = uses[b] + n /\ uses[b] + n \in 0..CountRange - 1
  BY <1>1
<1>4. buffers' = [buffers EXCEPT !.reserved[b] = uses[b] + n]
  BY <1>2, <1>3 DEF reserveBuffer
<1>5. /\ buffers'.pool = buffers.pool /\ buffers'.total = buffers.total
      /\ buffers'.reserved = [c \in Reserved(buffers) |->
                                IF c = b THEN uses[b] + n ELSE buffers.reserved[c]]
      /\ buffers' = [pool |-> buffers'.pool, reserved |-> buffers'.reserved,
                     total |-> buffers'.total]
  BY <1>2, <1>4 DEF IInv, CountsAreUses, Reserved
<1>6. Reserved(buffers') = Reserved(buffers)
  BY <1>5 DEF Reserved
<1>7. TypeOK'
  BY <1>1, <1>3, <1>5, <1>6 DEF IInv, TypeOK
<1>8. EachInOnePlace'
  BY <1>5, <1>6 DEF IInv, EachInOnePlace
<1>9. CountsAreUses'
  <2>1. \A c \in Reserved(buffers') :
           c \in 1..buffers'.total /\ buffers'.reserved[c] = uses'[c]
    <3> TAKE c \in Reserved(buffers')
    <3>1. c \in Reserved(buffers) /\ c \in Buffers
      BY <1>6 DEF IInv, TypeOK
    <3>2. uses'[c] = IF c = b THEN uses[b] + n ELSE uses[c]
      BY <1>1, <3>1
    <3>3. buffers'.reserved[c] = IF c = b THEN uses[b] + n ELSE buffers.reserved[c]
      BY <1>5, <3>1
    <3> QED  BY <1>5, <3>1, <3>2, <3>3 DEF IInv, CountsAreUses
  <2>2. \A c \in Buffers : c \notin Reserved(buffers') => uses'[c] = 0
    BY <1>1, <1>2, <1>6 DEF IInv, CountsAreUses
  <2>3. \A j \in 1..Len(buffers'.pool) : buffers'.pool[j] \in 1..buffers'.total
    BY <1>5 DEF IInv, CountsAreUses
  <2>4. buffers'.reserved = [c \in Reserved(buffers') |-> buffers'.reserved[c]]
    BY <1>5, <1>6
  <2> QED  BY <1>5, <2>1, <2>2, <2>3, <2>4 DEF CountsAreUses, Reserved
<1> QED  BY <1>6, <1>7, <1>8, <1>9 DEF IInv

(* A buffer the pool does not know changes nothing. *)
LEMMA OtherChangesNothing == ASSUME IInv, OtherBuffer PROVE UNCHANGED vars
<1>1. zeroBuffer \notin Reserved(buffers) /\ Untracked \notin Reserved(buffers)
  BY Facts DEF IInv, TypeOK, Buffers, zeroBuffer, Untracked
<1> QED  BY <1>1 DEF OtherBuffer, releaseBuffer, reserveBuffer, vars

LEMMA NextInvariant == IInv /\ [Next]_vars => IInv'
<1> SUFFICES ASSUME IInv, [Next]_vars PROVE IInv'
  OBVIOUS
<1>1. CASE Get
  BY <1>1, GetInvariant
<1>2. CASE Release
  BY <1>2, ReleaseInvariant DEF Release
<1>3. CASE Reserve
  BY <1>3, ReserveInvariant DEF Reserve
<1>4. CASE UNCHANGED vars
  BY <1>4 DEF vars, IInv, TypeOK, EachInOnePlace, CountsAreUses, Reserved
<1>5. CASE OtherBuffer
  BY <1>4, <1>5, OtherChangesNothing
<1> QED  BY <1>1, <1>2, <1>3, <1>4, <1>5 DEF Next

LEMMA Invariance == Spec => []IInv
BY InitInvariant, NextInvariant, PTL DEF Spec

-----------------------------------------------------------------------------
(* The pool, the counts and the number of buffers keep their types. *)
THEOREM TypeCorrect == Spec => []TypeOK
<1>1. IInv => TypeOK
  BY DEF IInv
<1> QED  BY Invariance, <1>1, PTL

(* A buffer is never handed out while somebody still reads it. *)
THEOREM NeverSharedWhileUsed == Spec => []NextIsUnused
<1>1. IInv => NextIsUnused
  BY NextIsFresh DEF NextIsUnused
<1> QED  BY Invariance, <1>1, PTL

(* No buffer is lost, and none is in the pool twice. *)
THEOREM NoBufferLost == Spec => []EachInOnePlace
<1>1. IInv => EachInOnePlace
  BY DEF IInv
<1> QED  BY Invariance, <1>1, PTL

(* A buffer is given back exactly when its last reader is done. *)
THEOREM GivenBackInTime == Spec => ReturnedWithLastUse
<1> DEFINE Returned == \A b \in Reserved(buffers) :
                          b \notin Reserved(buffers') <=> uses[b] > 0 /\ uses'[b] = 0
<1>1. IInv /\ [Next]_vars => [Returned]_vars
  <2> SUFFICES ASSUME IInv, Next PROVE Returned \/ UNCHANGED vars
    OBVIOUS
  <2>0. Reserved(buffers) \subseteq Buffers /\ uses \in [Buffers -> 0..CountRange - 1]
        /\ CountRange \in Nat
    BY Facts DEF IInv, TypeOK
  <2>1. CASE Get
    <3>1. PICK n \in 0..MaxUses :
            /\ NextBuffer(buffers) \in Buffers
            /\ buffers' = getBuffer(buffers, n)
            /\ uses' = [uses EXCEPT ![NextBuffer(buffers)] = n]
      BY <2>1 DEF Get
    <3>2. Reserved(buffers') = Reserved(buffers) \cup {NextBuffer(buffers)}
      BY <3>1 DEF Reserved, getBuffer
    <3>3. NextBuffer(buffers) \notin Reserved(buffers)
      BY <3>1, NextIsFresh
    <3>4. \A b \in Reserved(buffers) : uses'[b] = uses[b]
      BY <2>0, <3>1, <3>3
    <3> QED  BY <2>0, <3>2, <3>4
  <2>2. CASE Release
    <3>1. PICK b \in Buffers : /\ uses[b] > 0
                               /\ buffers' = releaseBuffer(buffers, b)
                               /\ uses' = [uses EXCEPT ![b] = @ - 1]
      BY <2>2 DEF Release
    <3>2. Reserved(buffers') = IF uses[b] = 1 THEN Reserved(buffers) \ {b}
                                              ELSE Reserved(buffers)
      BY <3>1, ReleaseInvariant
    <3>3. \A c \in Reserved(buffers) : uses'[c] = IF c = b THEN uses[b] - 1 ELSE uses[c]
      BY <2>0, <3>1
    <3> QED  BY <2>0, <3>1, <3>2, <3>3
  <2>3. CASE Reserve
    <3>1. PICK b \in Buffers, n \in 0..MaxUses :
            /\ uses[b] > 0 /\ uses[b] + n < CountRange
            /\ buffers' = reserveBuffer(buffers, b, n)
            /\ uses' = [uses EXCEPT ![b] = @ + n]
      BY <2>3 DEF Reserve
    <3>2. Reserved(buffers') = Reserved(buffers)
      BY <3>1, ReserveInvariant
    <3>3. \A c \in Reserved(buffers) : uses'[c] = IF c = b THEN uses[b] + n ELSE uses[c]
      BY <2>0, <3>1
    <3>4. n \in Nat
      BY BufferPoolAssumption
    <3> QED  BY <2>0, <3>1, <3>2, <3>3, <3>4
  <2>4. CASE OtherBuffer
    BY <2>4, OtherChangesNothing
  <2> QED  BY <2>1, <2>2, <2>3, <2>4 DEF Next
<1> QED  BY Invariance, <1>1, PTL DEF Spec, ReturnedWithLastUse
=============================================================================
