---------------------------- MODULE OrderedQueue ----------------------------
(***************************************************************************)
(* message::OrderedQueue (src/message/queue.rs, and the OrderedMessageQueue*)
(* of the C++ half): the entries waiting to be sent, as a sequence of      *)
(* records [obj, outlet, ts, atoms, id].  "id" is the number of the call   *)
(* that scheduled the entry: it is not in the code, and only tells apart   *)
(* entries that the code compares equal.                                   *)
(***************************************************************************)
EXTENDS ListOps

CONSTANT MaxListSize    \* MAX_LIST_SIZE of src/list.rs

\* mutant: in front of an entry of the same time
InsertPositionBeforeEqual(q, ts) ==
  CHOOSE p \in 1..Len(q) + 1 :
    /\ p <= Len(q) => ts <= q[p].ts
    /\ \A j \in 1..p - 1 : ~(ts <= q[j].ts)

\* mutant: the scan starts at the end
InsertPositionFromEnd(q, ts) ==
  CHOOSE p \in 1..Len(q) + 1 :
    /\ p > 1 => q[p - 1].ts <= ts
    /\ \A j \in p..Len(q) : ts < q[j].ts

(***************************************************************************)
(* insert_message: in front of the first entry with a later timestamp, at  *)
(* the end when there is none.                                             *)
(***************************************************************************)
InsertPosition(q, ts) ==
  CHOOSE p \in 1..Len(q) + 1 :
    /\ p <= Len(q) => ts < q[p].ts
    /\ \A j \in 1..p - 1 : ~(ts < q[j].ts)

Full(q) == Len(q) = MaxListSize

\* mutant: no overflow check
InsertMessageUnchecked(q, entry) == InsertAt(q, InsertPosition(q, entry.ts), entry)

\* a full list answers BufferOverflow and stays as it is: the entry is lost
InsertMessage(q, entry) ==
  IF Full(q) THEN q ELSE InsertAt(q, InsertPosition(q, entry.ts), entry)

(***************************************************************************)
(* Message::eq: equal timestamps, and equal atoms as far as the shorter of *)
(* the two messages goes (zip stops there).                                *)
(***************************************************************************)
SameAtoms(a, b) == \A k \in DOMAIN a \cap DOMAIN b : a[k] = b[k]

Matches(entry, obj, outlet, ts, atoms) ==
  /\ entry.obj = obj
  /\ entry.ts = ts
  /\ SameAtoms(entry.atoms, atoms)
  /\ entry.outlet = outlet

\* remove_message: the first entry that matches, none when there is none
RemoveMessage(q, obj, outlet, ts, atoms) ==
  IF \E p \in 1..Len(q) : Matches(q[p], obj, outlet, ts, atoms)
    THEN RemoveAt(q, CHOOSE p \in 1..Len(q) :
                       /\ Matches(q[p], obj, outlet, ts, atoms)
                       /\ \A j \in 1..p - 1 : ~Matches(q[j], obj, outlet, ts, atoms))
    ELSE q

\* peek, and what is left after pop takes that entry
First(q) == q[1]
Popped(q) == RemoveAt(q, 1)

-----------------------------------------------------------------------------
\* a before b: earlier timestamp, or the same one and scheduled first
Before(a, b) == a.ts < b.ts \/ (a.ts = b.ts /\ a.id < b.id)

Ordered(q) == \A j, k \in 1..Len(q) : j < k => Before(q[j], q[k])

Entries(q) == {q[j] : j \in 1..Len(q)}
=============================================================================
