---------------------------- MODULE PdList_proof ----------------------------
(***************************************************************************)
(* Proofs about PdList, for every set of elements and every capacity.      *)
(***************************************************************************)
EXTENDS PdList, SequenceTheorems, TLAPS

\* TypeOK, and where the loop variable is while the loop runs
IInv == TypeOK /\ (call = "insert" => i <= Len(items))

(***************************************************************************)
(* Vec::swap_remove followed by a push of the value it returned keeps the  *)
(* length, and a sequence stays a sequence: the body of insert_at's loop.  *)
(***************************************************************************)
LEMMA RotateType ==
  ASSUME NEW s \in Seq(Elements), NEW k \in Nat, k < Len(s)
  PROVE  /\ SwapRemove(s, k) \in Seq(Elements)
         /\ Len(SwapRemove(s, k)) = Len(s) - 1
         /\ Append(SwapRemove(s, k), s[k + 1]) \in Seq(Elements)
         /\ Len(Append(SwapRemove(s, k), s[k + 1])) = Len(s)
<1>1. Len(s) \in Nat /\ Len(s) - 1 \in Nat
  OBVIOUS
<1>2. \A j \in 1..Len(s) - 1 : (IF j = k + 1 THEN s[Len(s)] ELSE s[j]) \in Elements
  OBVIOUS
<1>3. SwapRemove(s, k) \in Seq(Elements)
  BY <1>1, <1>2, IsASeq DEF SwapRemove
<1>4. Len(SwapRemove(s, k)) = Len(s) - 1
  BY <1>1, <1>3, LenProperties DEF SwapRemove
<1>5. s[k + 1] \in Elements
  OBVIOUS
<1> QED
  BY <1>1, <1>3, <1>4, <1>5

(* Where each element is after one iteration of the loop. *)
LEMMA RotateElements ==
  ASSUME NEW s \in Seq(Elements), NEW k \in Nat, k < Len(s)
  PROVE  \A j \in 1..Len(s) :
           Append(SwapRemove(s, k), s[k + 1])[j]
             = IF j = Len(s) THEN s[k + 1]
               ELSE IF j = k + 1 THEN s[Len(s)] ELSE s[j]
<1> DEFINE t == SwapRemove(s, k)
<1>1. t \in Seq(Elements) /\ Len(t) = Len(s) - 1 /\ s[k + 1] \in Elements
  BY RotateType
<1>2. \A j \in 1..Len(s) - 1 : t[j] = IF j = k + 1 THEN s[Len(s)] ELSE s[j]
  BY DEF SwapRemove
<1>3. TAKE j \in 1..Len(s)
<1>4. CASE j = Len(s)
  <2> HIDE DEF t
  <2>1. Append(t, s[k + 1])[Len(t) + 1] = s[k + 1]
    BY <1>1
  <2> QED  BY <1>1, <1>4, <2>1 DEF t
<1>5. CASE j # Len(s)
  <2>1. j \in 1..Len(s) - 1
    BY <1>5
  <2>2. Append(t, s[k + 1])[j] = t[j]
    <3> HIDE DEF t
    <3> QED  BY <1>1, <2>1
  <2> QED  BY <1>2, <1>5, <2>1, <2>2
<1> QED  BY <1>4, <1>5

LEMMA PushType ==
  ASSUME NEW s \in Seq(Elements), NEW e \in Elements
  PROVE  Append(s, e) \in Seq(Elements) /\ Len(Append(s, e)) = Len(s) + 1
OBVIOUS

(***************************************************************************)
(* The list never holds more than its capacity, or anything but elements,  *)
(* and insert_at's loop variable never passes its end.                     *)
(***************************************************************************)
LEMMA InitInvariant == Init => IInv
BY MaxListSizeAssumption DEF Init, IInv, TypeOK, Outcomes, Ok

LEMMA NextInvariant == IInv /\ [Next]_vars => IInv'
<1> SUFFICES ASSUME IInv, [Next]_vars PROVE IInv'
  OBVIOUS
<1> USE DEF IInv, TypeOK
<1>0. MaxListSize \in Nat /\ Len(items) \in Nat
  BY MaxListSizeAssumption
<1>1. ASSUME NEW e \in Elements, PushBack(e) PROVE IInv'
  <2>1. CASE Full
    BY <1>1, <2>1 DEF PushBack, Idle, Outcomes
  <2>2. CASE ~Full
    <3>1. items' = Append(items, e) /\ outcome' = Ok /\ asked' = <<Len(items) + 1, e>>
          /\ UNCHANGED <<i, call>> /\ Idle
      BY <1>1, <2>2 DEF PushBack
    <3>2. items' \in Seq(Elements) /\ Len(items') = Len(items) + 1
      BY <3>1, PushType
    <3>3. Len(items) + 1 \in 1..MaxListSize
      BY <1>0, <2>2 DEF Full
    <3> QED  BY <3>1, <3>2, <3>3 DEF Idle, Outcomes
  <2> QED  BY <2>1, <2>2
<1>2. ASSUME NEW index \in 0..MaxListSize, NEW e \in Elements, InsertAtBegin(index, e)
      PROVE  IInv'
  <2>1. CASE index > Len(items) \/ Full
    BY <1>0, <1>2, <2>1 DEF InsertAtBegin, Idle, Outcomes
  <2>2. CASE index <= Len(items) /\ ~Full
    <3>1. items' = Append(items, e) /\ i' = index /\ call' = "insert"
          /\ asked' = <<index + 1, e>> /\ UNCHANGED outcome
      BY <1>0, <1>2, <2>2 DEF InsertAtBegin
    <3>2. items' \in Seq(Elements) /\ Len(items') = Len(items) + 1
      BY <3>1, PushType
    <3>3. index + 1 \in 1..MaxListSize /\ Len(items) + 1 <= MaxListSize
      BY <1>0, <2>2 DEF Full
    <3> QED  BY <1>0, <2>2, <3>1, <3>2, <3>3
  <2> QED  BY <1>0, <2>1, <2>2
<1>3. CASE InsertAtLoop
  <2>1. /\ items' \in Seq(Elements)
        /\ Len(items') = Len(items)
    BY <1>3, RotateType DEF InsertAtLoop
  <2> QED  BY <1>0, <1>3, <2>1 DEF InsertAtLoop
<1>4. CASE InsertAtEnd
  BY <1>0, <1>4 DEF InsertAtEnd, Outcomes
<1>5. ASSUME NEW index \in 0..MaxListSize, RemoveAt(index) PROVE IInv'
  <2>1. CASE index > Len(items)
    BY <1>0, <1>5, <2>1 DEF RemoveAt, Idle, Outcomes
  <2>2. CASE index <= Len(items)
    <3>1. RemoveLoopIndices = {}
      BY DEF RemoveLoopIndices
    <3>2. outcome' = Panicked /\ items' = << >> /\ UNCHANGED <<i, call, asked>> /\ Idle
      BY <1>0, <1>5, <2>2, <3>1 DEF RemoveAt
    <3>3. << >> \in Seq(Elements) /\ Len(<< >>) = 0
      OBVIOUS
    <3> QED  BY <1>0, <3>2, <3>3 DEF Idle, Outcomes
  <2> QED  BY <1>0, <2>1, <2>2
<1>6. CASE UNCHANGED vars
  BY <1>6 DEF vars
<1>7. 0 \in 0..MaxListSize
  BY <1>0
<1> QED
  BY <1>1, <1>2, <1>3, <1>4, <1>5, <1>6, <1>7 DEF Next, InsertNext, RemoveNext, Pop

THEOREM TypeCorrect == Spec => []TypeOK
<1>1. IInv => TypeOK
  BY DEF IInv
<1> QED
  BY InitInvariant, NextInvariant, <1>1, PTL DEF Spec

THEOREM InsertTypeCorrect == InsertSpec => []IInv
<1>1. [InsertNext]_vars => [Next]_vars
  BY DEF Next
<1> QED
  BY InitInvariant, NextInvariant, <1>1, PTL DEF InsertSpec

-----------------------------------------------------------------------------
(* An element pushed on the end of a list is an element inserted there. *)
LEMMA PushIsInsert ==
  ASSUME NEW s \in Seq(Elements), NEW e \in Elements
  PROVE  Append(s, e) = Abstract!InsertAt(s, Len(s) + 1, e)
<1> DEFINE t == Abstract!InsertAt(s, Len(s) + 1, e)
<1>1. \A j \in 1..Len(s) + 1 :
        (IF j < Len(s) + 1 THEN s[j] ELSE IF j = Len(s) + 1 THEN e ELSE s[j - 1]) \in Elements
  OBVIOUS
<1>2. Len(s) + 1 \in Nat
  OBVIOUS
<1>3. t \in Seq(Elements)
  BY <1>1, <1>2, IsASeq DEF Abstract!InsertAt
<1>4. DOMAIN t = 1..Len(s) + 1
  BY DEF Abstract!InsertAt
<1>5. Len(t) = Len(Append(s, e))
  BY <1>2, <1>3, <1>4, LenProperties
<1>6. \A j \in 1..Len(s) + 1 : t[j] = Append(s, e)[j]
  BY DEF Abstract!InsertAt
<1> HIDE DEF t
<1>7. Append(s, e) \in Seq(Elements) /\ Len(Append(s, e)) = Len(s) + 1
  OBVIOUS
<1>8. Append(s, e) = t
  BY <1>3, <1>5, <1>6, <1>7, SeqEqual
<1> QED  BY <1>8 DEF t

(***************************************************************************)
(* The first step of insert_at, seen through Completed, inserts the        *)
(* element.                                                                *)
(***************************************************************************)
LEMMA BeginIsInsert ==
  ASSUME IInv, NEW index \in 0..MaxListSize, NEW e \in Elements,
         InsertAtBegin(index, e), index <= Len(items), ~Full
  PROVE  Completed' = Abstract!InsertAt(Completed, index + 1, e)
<1> USE DEF IInv, TypeOK
<1>1. items' = Append(items, e) /\ i' = index /\ call' = "insert"
  BY DEF InsertAtBegin
<1>2. /\ items \in Seq(Elements)
      /\ Len(items') = Len(items) + 1
      /\ items'[Len(items) + 1] = e
      /\ \A j \in 1..Len(items) : items'[j] = items[j]
  BY <1>1
<1>3. Completed = items
  BY DEF InsertAtBegin, Idle, Completed
<1>7. call' = "insert" /\ i' < Len(items')
  BY <1>1, <1>2
<1>4. Completed' = [j \in 1..Len(items') |->
                      IF j < i' + 1 THEN items'[j]
                      ELSE IF j = i' + 1 THEN items'[Len(items')] ELSE items'[j - 1]]
  BY <1>7 DEF Completed
<1>5. \A j \in 1..Len(items) + 1 :
        (IF j < i' + 1 THEN items'[j]
         ELSE IF j = i' + 1 THEN items'[Len(items')] ELSE items'[j - 1])
        = (IF j < index + 1 THEN items[j] ELSE IF j = index + 1 THEN e ELSE items[j - 1])
  BY <1>1, <1>2
<1> QED
  BY <1>2, <1>3, <1>4, <1>5 DEF Abstract!InsertAt

(***************************************************************************)
(* An iteration of the loop leaves the list it is heading for as it was:   *)
(* this is the loop invariant of insert_at.                                *)
(***************************************************************************)
LEMMA LoopKeepsCompleted ==
  ASSUME IInv, InsertAtLoop
  PROVE  Completed' = Completed
<1> USE DEF IInv, TypeOK
<1> DEFINE n == Len(items)
<1>0. items' = Append(SwapRemove(items, i), items[i + 1])
  BY DEF InsertAtLoop
<1>1. /\ i' = i + 1 /\ call' = "insert" /\ call = "insert" /\ i < n
      /\ i \in Nat /\ n \in Nat
  BY MaxListSizeAssumption DEF InsertAtLoop
<1>2. items' \in Seq(Elements) /\ Len(items') = n
  BY <1>0, <1>1, RotateType
<1>3. \A j \in 1..n : items'[j] = IF j = n THEN items[i + 1]
                                  ELSE IF j = i + 1 THEN items[n] ELSE items[j]
  BY <1>0, <1>1, RotateElements
<1>4. Completed = [j \in 1..n |-> IF j < i + 1 THEN items[j]
                                  ELSE IF j = i + 1 THEN items[n] ELSE items[j - 1]]
  BY <1>1 DEF Completed
<1>5. CASE i + 1 < n
  <2>1. Completed' = [j \in 1..n |-> IF j < i + 2 THEN items'[j]
                                     ELSE IF j = i + 2 THEN items'[n] ELSE items'[j - 1]]
    BY <1>1, <1>2, <1>5 DEF Completed
  <2>2. \A j \in 1..n :
          (IF j < i + 2 THEN items'[j] ELSE IF j = i + 2 THEN items'[n] ELSE items'[j - 1])
          = (IF j < i + 1 THEN items[j] ELSE IF j = i + 1 THEN items[n] ELSE items[j - 1])
    <3> TAKE j \in 1..n
    <3>1. CASE j < i + 1  BY <1>1, <1>3, <1>5, <3>1
    <3>2. CASE j = i + 1  BY <1>1, <1>3, <1>5, <3>2
    <3>3. CASE j = i + 2  BY <1>1, <1>3, <1>5, <3>3
    <3>4. CASE j > i + 2
      <4>1. j - 1 \in 1..n /\ j - 1 # n /\ j - 1 # i + 1
        BY <1>1, <3>4
      <4> QED  BY <1>1, <1>3, <3>4, <4>1
    <3> QED  BY <1>1, <3>1, <3>2, <3>3, <3>4
  <2> QED  BY <1>4, <2>1, <2>2
<1>6. CASE i + 1 = n
  <2>1. Completed' = items'
    BY <1>1, <1>2, <1>6 DEF Completed
  <2>2. items' = [j \in 1..n |-> items'[j]]
    BY <1>2
  <2>3. \A j \in 1..n : items'[j] = IF j < i + 1 THEN items[j]
                                    ELSE IF j = i + 1 THEN items[n] ELSE items[j - 1]
    BY <1>1, <1>3, <1>6
  <2> QED  BY <1>4, <2>1, <2>2, <2>3
<1> QED  BY <1>1, <1>5, <1>6

(***************************************************************************)
(* insert_at, loop and all, and append implement insertion into a bounded  *)
(* sequence, whatever the capacity and the elements.                       *)
(***************************************************************************)
THEOREM Refinement == InsertSpec => InsertsLikeAList
<1>1. Init => Abstract!Init
  BY DEF Init, Abstract!Init, Completed
<1>2. IInv /\ [InsertNext]_vars => [Abstract!Next]_(Abstract!vars)
  <2> SUFFICES ASSUME IInv, [InsertNext]_vars
               PROVE  [Abstract!Next]_(Abstract!vars)
    OBVIOUS
  <2> USE DEF IInv, TypeOK
  <2>0. Len(items) \in Nat /\ MaxListSize \in Nat
    BY MaxListSizeAssumption
  <2>1. ASSUME NEW e \in Elements, PushBack(e) PROVE [Abstract!Next]_(Abstract!vars)
    <3>1. Completed = items /\ Completed' = items'
      BY <2>1 DEF PushBack, Idle, Completed
    <3>2. CASE Full
      BY <2>1, <3>1, <3>2 DEF PushBack, Abstract!vars
    <3>3. CASE ~Full
      <4>1. Len(Completed) < MaxListSize
        BY <2>0, <3>1, <3>3 DEF Full
      <4>2. Completed' = Abstract!InsertAt(Completed, Len(Completed) + 1, e)
            /\ asked' = <<Len(Completed) + 1, e>>
        BY <2>1, <3>1, <3>3, PushIsInsert DEF PushBack
      <4>3. Len(Completed) + 1 \in 1..Len(Completed) + 1
        BY <2>0, <3>1
      <4> QED  BY <4>1, <4>2, <4>3 DEF Abstract!Next, Abstract!Insert
    <3> QED  BY <3>2, <3>3
  <2>2. ASSUME NEW index \in 0..MaxListSize, NEW e \in Elements, InsertAtBegin(index, e)
        PROVE  [Abstract!Next]_(Abstract!vars)
    <3>1. CASE index > Len(items) \/ Full
      <4>1. UNCHANGED <<items, i, call, asked>>
        BY <2>0, <2>2, <3>1 DEF InsertAtBegin
      <4> QED  BY <4>1 DEF Completed, Abstract!vars
    <3>2. CASE index <= Len(items) /\ ~Full
      <4>1. Completed = items
        BY <2>2 DEF InsertAtBegin, Idle, Completed
      <4>2. Completed' = Abstract!InsertAt(Completed, index + 1, e)
        BY <2>2, <3>2, BeginIsInsert
      <4>4. asked' = <<index + 1, e>>
        <5>1. ~(index > Len(items))  BY <2>0, <3>2
        <5> QED  BY <2>2, <3>2, <5>1, Zenon DEF InsertAtBegin
      <4>3. Len(Completed) < MaxListSize /\ index + 1 \in 1..Len(Completed) + 1
        BY <2>0, <3>2, <4>1 DEF Full
      <4> QED  BY <4>2, <4>3, <4>4 DEF Abstract!Next, Abstract!Insert
    <3> QED  BY <2>0, <3>1, <3>2
  <2>3. CASE InsertAtLoop
    BY <2>3, LoopKeepsCompleted DEF InsertAtLoop, Abstract!vars
  <2>4. CASE InsertAtEnd
    BY <2>0, <2>4 DEF InsertAtEnd, Completed, Abstract!vars
  <2>5. CASE UNCHANGED vars
    BY <2>5 DEF vars, Completed, Abstract!vars
  <2> QED
    BY <2>1, <2>2, <2>3, <2>4, <2>5 DEF InsertNext
<1> QED
  BY <1>1, <1>2, InsertTypeCorrect, PTL DEF InsertSpec, InsertsLikeAList, Abstract!Spec
=============================================================================
