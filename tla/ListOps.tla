------------------------------ MODULE ListOps ------------------------------
(***************************************************************************)
(* Insertion into and removal from a sequence at a position, written as    *)
(* functions of the index, the form the proofs reason about.               *)
(***************************************************************************)
EXTENDS Naturals, Sequences

\* s with e put at position p (1..Len(s)+1); what stood at p and beyond moves up
InsertAt(s, p, e) ==
  [j \in 1..Len(s) + 1 |-> IF j < p THEN s[j] ELSE IF j = p THEN e ELSE s[j - 1]]

\* s without the element at position p
RemoveAt(s, p) ==
  [j \in 1..Len(s) - 1 |-> IF j < p THEN s[j] ELSE s[j + 1]]
=============================================================================
