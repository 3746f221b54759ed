------------------------------- MODULE PdList -------------------------------
(***************************************************************************)
(* crate::list::List (src/list.rs): the bounded list that stands in for    *)
(* std::list below every queue and connection list of the Rust half.       *)
(*                                                                         *)
(* insert_at is modelled at the grain of its loop: one step pushes the     *)
(* element on the end, then each iteration swap_removes one slot and       *)
(* pushes the value it got.  Indices are those of the code, from 0; a TLA+ *)
(* position is index + 1.  All other operations are one step.              *)
(***************************************************************************)
EXTENDS Naturals, Sequences

CONSTANTS Elements,      \* the values a list may hold
          MaxListSize    \* MAX_LIST_SIZE, the capacity of the heapless::Vec

ASSUME MaxListSizeAssumption == MaxListSize \in Nat \ {0}

VARIABLES items,    \* self.0, the heapless::Vec
          i,        \* the loop variable of insert_at, meaningful while inserting
          call,     \* the operation under way: "none", or "insert" inside the loop
          outcome,  \* what the last finished call gave its caller
          asked     \* history: position and element of the last accepted insertion

vars == <<items, i, call, outcome, asked>>

Ok == [kind |-> "ok"]
Some(e) == [kind |-> "some", value |-> e]
BufferOverflow == [kind |-> "BufferOverflow"]
IndexOutOfBounds == [kind |-> "IndexOutOfBounds"]
Panicked == [kind |-> "panic"]

Outcomes == {Ok, BufferOverflow, IndexOutOfBounds, Panicked}
              \cup {Some(e) : e \in Elements}

-----------------------------------------------------------------------------
(* heapless::Vec, as list.rs uses it *)

Full == Len(items) = MaxListSize

\* Vec::swap_remove(k): the last element takes the place of the removed one
SwapRemove(s, k) ==
  [j \in 1..Len(s) - 1 |-> IF j = k + 1 THEN s[Len(s)] ELSE s[j]]

-----------------------------------------------------------------------------
TypeOK ==
  /\ items \in Seq(Elements)
  /\ Len(items) <= MaxListSize
  /\ i \in 0..MaxListSize
  /\ call \in {"none", "insert"}
  /\ outcome \in Outcomes
  /\ asked \in {<< >>} \cup ((1..MaxListSize) \X Elements)

Init ==
  /\ items = << >>
  /\ i = 0
  /\ call = "none"
  /\ outcome = Ok
  /\ asked = << >>

Idle == call = "none" /\ outcome # Panicked

\* mutant: no overflow check
PushBackUnchecked(e) ==
  /\ Idle
  /\ outcome' = Ok
  /\ items' = Append(items, e)
  /\ asked' = <<Len(items) + 1, e>>
  /\ UNCHANGED <<i, call>>

(* append, and its alias push_back *)
PushBack(e) ==
  /\ Idle
  /\ IF Full
       THEN outcome' = BufferOverflow /\ UNCHANGED <<items, asked>>
       ELSE outcome' = Ok /\ items' = Append(items, e) /\ asked' = <<Len(items) + 1, e>>
  /\ UNCHANGED <<i, call>>

\* mutant: the loop starts one slot late
InsertAtBeginLate(index, e) ==
  /\ Idle
  /\ index <= Len(items)
  /\ ~Full
  /\ items' = Append(items, e)
  /\ i' = index + 1
  /\ call' = "insert"
  /\ asked' = <<index + 1, e>>
  /\ UNCHANGED outcome

(* insert_at(index, elem): the bounds check, then the push that may overflow *)
InsertAtBegin(index, e) ==
  /\ Idle
  /\ \/ /\ index > Len(items)
        /\ outcome' = IndexOutOfBounds
        /\ UNCHANGED <<items, i, call, asked>>
     \/ /\ index <= Len(items)
        /\ Full
        /\ outcome' = BufferOverflow
        /\ UNCHANGED <<items, i, call, asked>>
     \/ /\ index <= Len(items)
        /\ ~Full
        /\ items' = Append(items, e)
        /\ i' = index
        /\ call' = "insert"
        /\ asked' = <<index + 1, e>>
        /\ UNCHANGED outcome

(* one iteration of "for i in index..self.0.len()" *)
InsertAtLoop ==
  /\ call = "insert"
  /\ i < Len(items)
  /\ items' = Append(SwapRemove(items, i), items[i + 1])
  /\ i' = i + 1
  /\ UNCHANGED <<call, outcome, asked>>

InsertAtEnd ==
  /\ call = "insert"
  /\ i = Len(items)
  /\ call' = "none"
  /\ i' = 0
  /\ outcome' = Ok
  /\ UNCHANGED <<items, asked>>

(***************************************************************************)
(* remove_at(index).  The range "(self.0.len()..0)" that the loop reverses *)
(* runs from len up to 0: it holds no index.                               *)
(***************************************************************************)
RemoveLoopIndices == {k \in 0..MaxListSize : Len(items) <= k /\ k < 0}

RemoveAt(index) ==
  /\ Idle
  /\ \/ /\ index > Len(items)
        /\ outcome' = IndexOutOfBounds
        /\ UNCHANGED items
     \/ /\ index <= Len(items)
        /\ outcome' = IF index \in RemoveLoopIndices
                        THEN Some(items[index + 1]) ELSE Panicked
        /\ items' = << >>     \* self.0 = tmp, before result.unwrap()
  /\ UNCHANGED <<i, call, asked>>

(* pop() is remove_at(0).ok() *)
Pop == RemoveAt(0)

InsertNext ==
  \/ \E e \in Elements : PushBack(e)
  \/ \E index \in 0..MaxListSize, e \in Elements : InsertAtBegin(index, e)
  \/ InsertAtLoop
  \/ InsertAtEnd

RemoveNext == Pop \/ \E index \in 0..MaxListSize : RemoveAt(index)

Next == InsertNext \/ RemoveNext

\* the insertions alone: what every caller has done up to its first removal
InsertSpec == Init /\ [][InsertNext]_vars

Spec == Init /\ [][Next]_vars

-----------------------------------------------------------------------------
(***************************************************************************)
(* What the list will be once the loop under way has run to its end: the   *)
(* slots below i are final, the element in the last slot belongs at i, and *)
(* what lies between moves up by one.                                      *)
(***************************************************************************)
Completed ==
  IF call = "insert" /\ i < Len(items)
    THEN [j \in 1..Len(items) |->
            IF j < i + 1 THEN items[j]
            ELSE IF j = i + 1 THEN items[Len(items)] ELSE items[j - 1]]
    ELSE items

(***************************************************************************)
(* The insertions, loop and all, are insertions into an abstract list at   *)
(* the position asked for: the step that pushes the element inserts it,    *)
(* and no iteration of the loop loses, repeats or misplaces anything (the  *)
(* question the comment at list.rs:87 leaves open).                        *)
(***************************************************************************)
Abstract == INSTANCE AbstractList WITH items <- Completed, asked <- asked

InsertsLikeAList == Abstract!Spec
=============================================================================
