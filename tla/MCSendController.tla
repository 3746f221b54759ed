-------------------------- MODULE MCSendController --------------------------
(* Two receivers of one name, one of another, one that is called "pd". *)
EXTENDS SendController

MCReceivers == {"left", "right", "other", "odd"}
MCNameOf == [left |-> "a", right |-> "a", other |-> "b", odd |-> "pd"]
=============================================================================
