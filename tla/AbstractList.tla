---------------------------- MODULE AbstractList ----------------------------
(***************************************************************************)
(* What a caller of crate::list::List relies on: a bounded sequence whose  *)
(* operations happen at once, at the position that was asked for.  PdList  *)
(* implements it with a loop.                                              *)
(***************************************************************************)
EXTENDS ListOps

CONSTANTS Elements, MaxListSize

VARIABLES items,
          asked     \* the last insertion: its position and its element

vars == <<items, asked>>

TypeOK == items \in Seq(Elements) /\ Len(items) <= MaxListSize

Init == items = << >> /\ asked = << >>

Insert ==
  /\ Len(items) < MaxListSize
  /\ \E p \in 1..Len(items) + 1, e \in Elements :
       items' = InsertAt(items, p, e) /\ asked' = <<p, e>>

Remove == asked' = asked /\ \E p \in 1..Len(items) : items' = RemoveAt(items, p)

Next == Insert \/ Remove

Spec == Init /\ [][Next]_vars
=============================================================================
