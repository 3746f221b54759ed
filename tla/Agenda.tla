------------------------------- MODULE Agenda -------------------------------
(***************************************************************************)
(* What the objects of a patch are promised by the context's clock: a set  *)
(* of pending messages and a current block.  The next message to be sent   *)
(* is always the earliest pending one, the one scheduled first among those *)
(* of one time; a message whose time has passed is sent at the start of    *)
(* the block instead; the block ends only when nothing of it is pending;   *)
(* and an object that is being sent a message schedules nothing before it. *)
(***************************************************************************)
EXTENDS Naturals

CONSTANTS Messages,     \* records with a time "ts" and a number "id", among others
          Tick,         \* the length of a block
          None          \* no message is being sent

VARIABLES now, pending, sending

vars == <<now, pending, sending>>

Before(a, b) == a.ts < b.ts \/ (a.ts = b.ts /\ a.id < b.id)

Due(m) == m.ts < now + Tick

Init == now = 0 /\ pending = {} /\ sending = None

Schedule ==
  \E m \in Messages :
    /\ \A n \in pending : n.id < m.id
    /\ sending # None => m.ts >= sending.ts
    /\ pending' = pending \cup {m}
    /\ UNCHANGED <<now, sending>>

Cancel ==
  \E m \in pending : pending' = pending \ {m} /\ UNCHANGED <<now, sending>>

Send ==
  /\ sending = None
  /\ \E m \in pending :
       /\ Due(m)
       /\ \A n \in pending \ {m} : Before(m, n)
       /\ sending' = [m EXCEPT !.ts = IF @ < now THEN now ELSE @]
       /\ pending' = pending \ {m}
  /\ UNCHANGED now

Sent == sending # None /\ sending' = None /\ UNCHANGED <<now, pending>>

NextBlock ==
  /\ sending = None
  /\ \A m \in pending : ~Due(m)
  /\ now' = now + Tick
  /\ UNCHANGED <<pending, sending>>

Next == Schedule \/ Cancel \/ Send \/ Sent \/ NextBlock

Spec == Init /\ [][Next]_vars
=============================================================================
