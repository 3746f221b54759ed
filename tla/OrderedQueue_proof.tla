------------------------- MODULE OrderedQueue_proof -------------------------
(***************************************************************************)
(* What the operations of the ordered queue do to any queue: the lemmas    *)
(* that the proofs about the context rest on.                              *)
(***************************************************************************)
EXTENDS OrderedQueue, SequenceTheorems, WellFoundedInduction, TLAPS

(* Every inhabited set of natural numbers has a least element. *)
LEMMA LeastNatural ==
  ASSUME NEW T \in SUBSET Nat, T # {}
  PROVE  \E x \in T : \A y \in T : x <= y
<1>1. PICK x \in T : \A y \in T : ~(<<y, x>> \in OpToRel(<, Nat))
  BY NatLessThanWellFounded, WFMin
<1>2. \A y, z \in Nat : <<y, z>> \in OpToRel(<, Nat) <=> y < z
  BY DEF OpToRel
<1>3. ASSUME NEW y \in T PROVE x <= y
  <2>1. ~(y < x)
    BY <1>1, <1>2
  <2> QED  BY <2>1
<1> QED  BY <1>3

-----------------------------------------------------------------------------
(* Insertion at a position: the result is a sequence, one longer. *)
LEMMA InsertAtType ==
  ASSUME NEW S, NEW s \in Seq(S), NEW p \in 1..Len(s) + 1, NEW e \in S
  PROVE  /\ InsertAt(s, p, e) \in Seq(S)
         /\ Len(InsertAt(s, p, e)) = Len(s) + 1
         /\ \A j \in 1..Len(s) + 1 :
              InsertAt(s, p, e)[j] = IF j < p THEN s[j] ELSE IF j = p THEN e ELSE s[j - 1]
<1>1. Len(s) \in Nat /\ Len(s) + 1 \in Nat
  OBVIOUS
<1>2. \A j \in 1..Len(s) + 1 : (IF j < p THEN s[j] ELSE IF j = p THEN e ELSE s[j - 1]) \in S
  <2> TAKE j \in 1..Len(s) + 1
  <2>1. CASE j < p
    <3>1. j \in 1..Len(s)  BY <1>1, <2>1
    <3> QED  BY <2>1, <3>1, ElementOfSeq
  <2>2. CASE j = p
    BY <2>2
  <2>3. CASE j > p
    <3>1. j - 1 \in 1..Len(s)  BY <1>1, <2>3
    <3>2. s[j - 1] \in S  BY <3>1, ElementOfSeq
    <3> QED  BY <2>3, <3>2
  <2> QED  BY <1>1, <2>1, <2>2, <2>3
<1>3. InsertAt(s, p, e) \in Seq(S)
  BY <1>1, <1>2, IsASeq DEF InsertAt
<1>4. DOMAIN InsertAt(s, p, e) = 1..Len(s) + 1
  BY DEF InsertAt
<1> QED
  BY <1>1, <1>3, <1>4, LenProperties DEF InsertAt

(* Removal at a position: the result is a sequence, one shorter. *)
LEMMA RemoveAtType ==
  ASSUME NEW S, NEW s \in Seq(S), NEW p \in 1..Len(s)
  PROVE  /\ RemoveAt(s, p) \in Seq(S)
         /\ Len(RemoveAt(s, p)) = Len(s) - 1
         /\ \A j \in 1..Len(s) - 1 : RemoveAt(s, p)[j] = IF j < p THEN s[j] ELSE s[j + 1]
<1>1. Len(s) \in Nat /\ Len(s) - 1 \in Nat
  OBVIOUS
<1>2. \A j \in 1..Len(s) - 1 : (IF j < p THEN s[j] ELSE s[j + 1]) \in S
  <2> TAKE j \in 1..Len(s) - 1
  <2>1. j \in 1..Len(s) /\ j + 1 \in 1..Len(s)
    BY <1>1
  <2> QED  BY <2>1, ElementOfSeq
<1>3. RemoveAt(s, p) \in Seq(S)
  BY <1>1, <1>2, IsASeq DEF RemoveAt
<1>4. DOMAIN RemoveAt(s, p) = 1..Len(s) - 1
  BY DEF RemoveAt
<1> QED
  BY <1>1, <1>3, <1>4, LenProperties DEF RemoveAt

(* The elements after an insertion: the new one, and the old ones. *)
LEMMA InsertAtElements ==
  ASSUME NEW S, NEW q \in Seq(S), NEW p \in 1..Len(q) + 1, NEW new \in S
  PROVE  /\ InsertAt(q, p, new) \in Seq(S)
         /\ Len(InsertAt(q, p, new)) = Len(q) + 1
         /\ \A j \in 1..Len(InsertAt(q, p, new)) :
              InsertAt(q, p, new)[j] = new \/ \E k \in 1..Len(q) : InsertAt(q, p, new)[j] = q[k]
<1> DEFINE t == InsertAt(q, p, new)
<1>1. /\ t \in Seq(S) /\ Len(t) = Len(q) + 1 /\ Len(q) \in Nat
      /\ \A j \in 1..Len(q) + 1 :
           t[j] = IF j < p THEN q[j] ELSE IF j = p THEN new ELSE q[j - 1]
  BY InsertAtType
<1> HIDE DEF t
<1>2. ASSUME NEW j \in 1..Len(t) PROVE t[j] = new \/ \E k \in 1..Len(q) : t[j] = q[k]
  <2>1. CASE j < p
    <3>1. j \in 1..Len(q) /\ t[j] = q[j]  BY <1>1, <2>1
    <3> QED  BY <3>1
  <2>2. CASE j = p
    BY <1>1, <2>2
  <2>3. CASE j > p
    <3>1. j - 1 \in 1..Len(q) /\ t[j] = q[j - 1]  BY <1>1, <2>3
    <3> QED  BY <3>1
  <2> QED  BY <1>1, <2>1, <2>2, <2>3
<1> QED  BY <1>1, <1>2 DEF t

(* The entries after an insertion: those before it, and the new one. *)
LEMMA InsertAtEntries ==
  ASSUME NEW S, NEW s \in Seq(S), NEW p \in 1..Len(s) + 1, NEW e \in S
  PROVE  Entries(InsertAt(s, p, e)) = Entries(s) \cup {e}
<1> DEFINE t == InsertAt(s, p, e)
<1>1. /\ Len(t) = Len(s) + 1
      /\ \A j \in 1..Len(s) + 1 :
           t[j] = IF j < p THEN s[j] ELSE IF j = p THEN e ELSE s[j - 1]
      /\ Len(s) \in Nat
  BY InsertAtType
<1> HIDE DEF t
<1>2. ASSUME NEW j \in 1..Len(t) PROVE t[j] \in Entries(s) \cup {e}
  <2>1. CASE j < p
    <3>1. j \in 1..Len(s)  BY <1>1, <2>1
    <3> QED  BY <1>1, <2>1, <3>1 DEF Entries
  <2>2. CASE j = p
    BY <1>1, <2>2
  <2>3. CASE j > p
    <3>1. j - 1 \in 1..Len(s)  BY <1>1, <2>3
    <3>2. t[j] = s[j - 1]  BY <1>1, <2>3
    <3> QED  BY <3>1, <3>2 DEF Entries
  <2> QED  BY <1>1, <2>1, <2>2, <2>3
<1>3. ASSUME NEW j \in 1..Len(s) PROVE s[j] \in Entries(t)
  <2>1. CASE j < p
    <3>1. j \in 1..Len(t) /\ t[j] = s[j]  BY <1>1, <2>1
    <3> QED  BY <3>1 DEF Entries
  <2>2. CASE j >= p
    <3>1. j + 1 \in 1..Len(t) /\ t[j + 1] = s[j]
      BY <1>1, <2>2
    <3> QED  BY <3>1 DEF Entries
  <2> QED  BY <1>1, <2>1, <2>2
<1>4. e \in Entries(t)
  <2>1. p \in 1..Len(t) /\ t[p] = e  BY <1>1
  <2> QED  BY <2>1 DEF Entries
<1>5. Entries(t) \subseteq Entries(s) \cup {e}
  BY <1>2 DEF Entries
<1>6. Entries(s) \subseteq Entries(t)
  BY <1>3 DEF Entries
<1> QED  BY <1>4, <1>5, <1>6 DEF t

-----------------------------------------------------------------------------
(***************************************************************************)
(* The scan of insert_message: it finds a position, with nothing later     *)
(* before it and something strictly later behind it.                       *)
(***************************************************************************)
LEMMA InsertPositionIs ==
  ASSUME NEW S, \A e \in S : e.ts \in Nat, NEW q \in Seq(S), NEW ts \in Nat
  PROVE  /\ InsertPosition(q, ts) \in 1..Len(q) + 1
         /\ InsertPosition(q, ts) <= Len(q) => ts < q[InsertPosition(q, ts)].ts
         /\ \A j \in 1..InsertPosition(q, ts) - 1 : ~(ts < q[j].ts)
<1> DEFINE T == {p \in 1..Len(q) + 1 : p <= Len(q) => ts < q[p].ts}
           Good(p) == /\ p <= Len(q) => ts < q[p].ts
                      /\ \A j \in 1..p - 1 : ~(ts < q[j].ts)
<1>1. T \in SUBSET Nat /\ Len(q) + 1 \in T /\ Len(q) \in Nat
  OBVIOUS
<1>2. PICK p \in T : \A y \in T : p <= y
  <2> HIDE DEF T
  <2> QED  BY <1>1, LeastNatural
<1>3. p \in 1..Len(q) + 1 /\ Good(p)
  <2>1. ASSUME NEW j \in 1..p - 1 PROVE ~(ts < q[j].ts)
    <3>1. j \in 1..Len(q) + 1 /\ ~(p <= j)  BY <1>1, <1>2
    <3> QED  BY <1>2, <3>1
  <2> QED  BY <1>2, <2>1
<1>4. InsertPosition(q, ts) = CHOOSE x \in 1..Len(q) + 1 : Good(x)
  BY DEF InsertPosition
<1> HIDE DEF Good
<1>5. InsertPosition(q, ts) \in 1..Len(q) + 1 /\ Good(InsertPosition(q, ts))
  BY <1>3, <1>4
<1> QED  BY <1>5 DEF Good

(***************************************************************************)
(* insert_message keeps the queue in order, when the new entry is numbered *)
(* after all those there.                                                  *)
(***************************************************************************)
LEMMA InsertKeepsOrder ==
  ASSUME NEW S, \A e \in S : e.ts \in Nat /\ e.id \in Nat,
         NEW q \in Seq(S), NEW new \in S,
         Ordered(q), \A j \in 1..Len(q) : q[j].id < new.id
  PROVE  Ordered(InsertAt(q, InsertPosition(q, new.ts), new))
<1> DEFINE p == InsertPosition(q, new.ts)
           t == InsertAt(q, p, new)
<1>1. /\ p \in 1..Len(q) + 1
      /\ p <= Len(q) => new.ts < q[p].ts
      /\ \A j \in 1..p - 1 : ~(new.ts < q[j].ts)
  BY InsertPositionIs
<1> HIDE DEF p
<1>2. /\ Len(t) = Len(q) + 1
      /\ \A j \in 1..Len(q) + 1 :
           t[j] = IF j < p THEN q[j] ELSE IF j = p THEN new ELSE q[j - 1]
      /\ Len(q) \in Nat
  BY <1>1, InsertAtType
<1> HIDE DEF t
<1>3. \A j \in 1..Len(q) : q[j] \in S /\ q[j].ts \in Nat /\ q[j].id \in Nat
  BY ElementOfSeq
<1>4. new.ts \in Nat /\ new.id \in Nat
  OBVIOUS
<1>5. \A j \in 1..Len(q) : j < p => Before(q[j], new)
  BY <1>1, <1>2, <1>3, <1>4 DEF Before
<1>6. ASSUME NEW j \in 1..Len(q), p <= j PROVE Before(new, q[j])
  <2>1. p \in 1..Len(q) /\ new.ts < q[p].ts  BY <1>1, <1>2, <1>6
  <2>2. CASE p = j  BY <2>1, <2>2 DEF Before
  <2>3. CASE p < j
    <3>1. Before(q[p], q[j])  BY <2>1, <2>3 DEF Ordered
    <3> QED  BY <1>3, <1>4, <2>1, <3>1 DEF Before
  <2> QED  BY <1>6, <2>1, <2>2, <2>3
<1>7. ASSUME NEW j \in 1..Len(t), NEW k \in 1..Len(t), j < k PROVE Before(t[j], t[k])
  <2>0. j \in 1..Len(q) + 1 /\ k \in 1..Len(q) + 1 /\ p \in Nat
    BY <1>1, <1>2
  <2>1. CASE k < p
    <3>1. t[j] = q[j] /\ t[k] = q[k] /\ j \in 1..Len(q) /\ k \in 1..Len(q)
      BY <1>1, <1>2, <1>7, <2>0, <2>1
    <3> QED  BY <1>7, <3>1 DEF Ordered
  <2>2. CASE k = p
    <3>1. t[j] = q[j] /\ t[k] = new /\ j \in 1..Len(q) /\ j < p
      BY <1>1, <1>2, <1>7, <2>0, <2>2
    <3> QED  BY <1>5, <3>1
  <2>3. CASE k > p /\ j < p
    <3>1. t[j] = q[j] /\ t[k] = q[k - 1] /\ j \in 1..Len(q) /\ k - 1 \in 1..Len(q) /\ j < k - 1
      BY <1>1, <1>2, <1>7, <2>0, <2>3
    <3> QED  BY <3>1 DEF Ordered
  <2>4. CASE k > p /\ j = p
    <3>1. t[j] = new /\ t[k] = q[k - 1] /\ k - 1 \in 1..Len(q) /\ p <= k - 1
      BY <1>1, <1>2, <1>7, <2>0, <2>4
    <3> QED  BY <1>6, <3>1
  <2>5. CASE k > p /\ j > p
    <3>1. /\ t[j] = q[j - 1] /\ t[k] = q[k - 1]
          /\ j - 1 \in 1..Len(q) /\ k - 1 \in 1..Len(q) /\ j - 1 < k - 1
      BY <1>1, <1>2, <1>7, <2>0, <2>5
    <3> QED  BY <3>1 DEF Ordered
  <2> QED  BY <2>0, <2>1, <2>2, <2>3, <2>4, <2>5
<1> QED  BY <1>7 DEF Ordered, t, p

-----------------------------------------------------------------------------
(* Taking out any one entry keeps the order. *)
LEMMA RemoveKeepsOrder ==
  ASSUME NEW S, NEW q \in Seq(S), NEW p \in 1..Len(q), Ordered(q)
  PROVE  Ordered(RemoveAt(q, p))
<1> DEFINE t == RemoveAt(q, p)
<1>1. /\ Len(t) = Len(q) - 1
      /\ \A j \in 1..Len(q) - 1 : t[j] = IF j < p THEN q[j] ELSE q[j + 1]
      /\ Len(q) \in Nat
  BY RemoveAtType
<1> HIDE DEF t
<1>2. ASSUME NEW j \in 1..Len(t), NEW k \in 1..Len(t), j < k PROVE Before(t[j], t[k])
  <2> DEFINE from(x) == IF x < p THEN x ELSE x + 1
  <2>1. from(j) \in 1..Len(q) /\ from(k) \in 1..Len(q) /\ from(j) < from(k)
    BY <1>1, <1>2
  <2>2. t[j] = q[from(j)] /\ t[k] = q[from(k)]
    BY <1>1
  <2> HIDE DEF from
  <2> QED  BY <2>1, <2>2 DEF Ordered
<1> QED  BY <1>2 DEF Ordered, t

(***************************************************************************)
(* In an ordered queue no two entries are equal: taking one out takes out  *)
(* that one, and leaves all the others.                                    *)
(***************************************************************************)
LEMMA RemoveAtEntries ==
  ASSUME NEW S, \A e \in S : e.ts \in Nat /\ e.id \in Nat,
         NEW q \in Seq(S), NEW p \in 1..Len(q), Ordered(q)
  PROVE  Entries(RemoveAt(q, p)) = Entries(q) \ {q[p]}
<1> DEFINE t == RemoveAt(q, p)
<1>1. /\ Len(t) = Len(q) - 1
      /\ \A j \in 1..Len(q) - 1 : t[j] = IF j < p THEN q[j] ELSE q[j + 1]
      /\ Len(q) \in Nat
  BY RemoveAtType
<1> HIDE DEF t
<1>2. \A j, k \in 1..Len(q) : j # k => q[j] # q[k]
  <2> TAKE j, k \in 1..Len(q)
  <2> HAVE j # k
  <2>1. q[j] \in S /\ q[k] \in S  BY ElementOfSeq
  <2>2. CASE j < k
    <3>1. Before(q[j], q[k])  BY <2>2 DEF Ordered
    <3> QED  BY <2>1, <3>1 DEF Before
  <2>3. CASE k < j
    <3>1. Before(q[k], q[j])  BY <2>3 DEF Ordered
    <3> QED  BY <2>1, <3>1 DEF Before
  <2> QED  BY <1>1, <2>2, <2>3
<1>3. ASSUME NEW j \in 1..Len(t) PROVE t[j] \in Entries(q) \ {q[p]}
  <2>1. CASE j < p
    <3>1. j \in 1..Len(q) /\ j # p /\ t[j] = q[j]  BY <1>1, <2>1
    <3> QED  BY <1>2, <3>1 DEF Entries
  <2>2. CASE j >= p
    <3>1. j + 1 \in 1..Len(q) /\ j + 1 # p /\ t[j] = q[j + 1]  BY <1>1, <2>2
    <3> QED  BY <1>2, <3>1 DEF Entries
  <2> QED  BY <1>1, <2>1, <2>2
<1>4. ASSUME NEW j \in 1..Len(q), j # p PROVE q[j] \in Entries(t)
  <2>1. CASE j < p
    <3>1. j \in 1..Len(t) /\ t[j] = q[j]  BY <1>1, <2>1
    <3> QED  BY <3>1 DEF Entries
  <2>2. CASE j > p
    <3>1. j - 1 \in 1..Len(t) /\ t[j - 1] = q[j]  BY <1>1, <2>2
    <3> QED  BY <3>1 DEF Entries
  <2> QED  BY <1>1, <1>4, <2>1, <2>2
<1>5. Entries(t) \subseteq Entries(q) \ {q[p]}
  BY <1>3 DEF Entries
<1>6. Entries(q) \ {q[p]} \subseteq Entries(t)
  BY <1>4 DEF Entries
<1> QED  BY <1>5, <1>6 DEF t

(* remove_message leaves the queue as it is, or takes one entry out of it. *)
LEMMA RemoveMessageIs ==
  ASSUME NEW S, NEW q \in Seq(S), NEW obj, NEW outlet, NEW ts, NEW atoms
  PROVE  \/ RemoveMessage(q, obj, outlet, ts, atoms) = q
         \/ \E p \in 1..Len(q) : RemoveMessage(q, obj, outlet, ts, atoms) = RemoveAt(q, p)
<1> DEFINE M(p) == Matches(q[p], obj, outlet, ts, atoms)
           First1(p) == M(p) /\ \A j \in 1..p - 1 : ~M(j)
           T == {p \in 1..Len(q) : M(p)}
<1>1. CASE \E p \in 1..Len(q) : M(p)
  <2>1. T \in SUBSET Nat /\ T # {}
    BY <1>1
  <2>2. PICK p \in T : \A y \in T : p <= y
    <3> HIDE DEF T
    <3> QED  BY <2>1, LeastNatural
  <2>3. p \in 1..Len(q) /\ M(p) /\ Len(q) \in Nat
    BY <2>2
  <2>4. ASSUME NEW j \in 1..p - 1, M(j) PROVE FALSE
    <3> HIDE DEF M
    <3>1. j \in T /\ ~(p <= j)  BY <2>3, <2>4
    <3> HIDE DEF T
    <3> QED  BY <2>2, <3>1
  <2>5. First1(p)
    <3> HIDE DEF M
    <3> QED  BY <2>3, <2>4
  <2>6. RemoveMessage(q, obj, outlet, ts, atoms)
          = RemoveAt(q, CHOOSE x \in 1..Len(q) : First1(x))
    BY <1>1 DEF RemoveMessage
  <2> HIDE DEF First1
  <2>7. (CHOOSE x \in 1..Len(q) : First1(x)) \in 1..Len(q)
    BY <2>3, <2>5
  <2> QED  BY <2>6, <2>7
<1>2. CASE ~\E p \in 1..Len(q) : M(p)
  BY <1>2 DEF RemoveMessage
<1> QED  BY <1>1, <1>2
=============================================================================
