------------------------ MODULE SendController_proof ------------------------
(***************************************************************************)
(* Proofs about SendController, for every set of receivers and names and   *)
(* every capacity: what waits in the queue keeps its receivers.            *)
(***************************************************************************)
EXTENDS SendController, SequenceTheorems, TLAPS

Set == [name : Names, members : Seq(Receivers)]
PendingMessage == [name : Names, index : Nat]

TypeOK ==
  /\ send_stack \in Seq(Set)
  /\ Len(send_stack) <= SendStackSize
  /\ external_receiver_set \in Seq(Names)
  /\ pending \in Seq(PendingMessage)
  /\ registered \subseteq Receivers
  /\ panicked \in BOOLEAN

-----------------------------------------------------------------------------
(***************************************************************************)
(* The inductive invariant.  No name has two sets, and "pd" has none, so   *)
(* the index of a name is one of a kind; a set holds the receivers that    *)
(* were registered under its name; each of them found a set; and an index  *)
(* that waits is the one of its name.                                      *)
(***************************************************************************)
NamesOnce ==
  /\ \A k \in 1..Len(send_stack) : send_stack[k].name # System
  /\ \A j, k \in 1..Len(send_stack) : send_stack[j].name = send_stack[k].name => j = k

MembersOf(k) == {send_stack[k].members[j] : j \in 1..Len(send_stack[k].members)}
Named(name) == {r \in registered : nameOf[r] = name}

SetsComplete ==
  /\ \A k \in 1..Len(send_stack) : MembersOf(k) = Named(send_stack[k].name)
  /\ \A r \in registered : \E k \in 1..Len(send_stack) : send_stack[k].name = nameOf[r]

IndexOfItsName ==
  \A k \in 1..Len(pending) :
    pending[k].name # System =>
      /\ pending[k].index \in 1..Len(send_stack)
      /\ send_stack[pending[k].index].name = pending[k].name

IInv == TypeOK /\ NamesOnce /\ SetsComplete /\ IndexOfItsName

-----------------------------------------------------------------------------
(* get_name_index finds the one set of a name. *)
LEMMA IndexIs ==
  ASSUME IInv, NEW name, IsKnown(name), name # System
  PROVE  /\ get_name_index(name) \in 1..Len(send_stack)
         /\ send_stack[get_name_index(name)].name = name
<1>1. PICK k \in 1..Len(send_stack) : send_stack[k].name = name
  BY DEF IsKnown
<1>2. Len(send_stack) \in Nat
  BY DEF IInv, TypeOK
<1>3. \A j \in 1..k - 1 : send_stack[j].name # name
  BY <1>1, <1>2 DEF IInv, NamesOnce
<1> DEFINE Found(x) == /\ send_stack[x].name = name
                       /\ \A j \in 1..x - 1 : send_stack[j].name # name
<1>4. get_name_index(name) = CHOOSE x \in 1..Len(send_stack) : Found(x)
  BY DEF get_name_index
<1>5. Found(k)
  BY <1>1, <1>3
<1> HIDE DEF Found
<1>6. get_name_index(name) \in 1..Len(send_stack) /\ Found(get_name_index(name))
  BY <1>4, <1>5
<1> QED  BY <1>6 DEF Found

(* A receiver of a known name joins the set of that name. *)
LEMMA KnownInvariant ==
  ASSUME IInv, NEW r \in Receivers, IsKnown(nameOf[r]), nameOf[r] # System,
         send_stack' = Inserted(send_stack, get_name_index(nameOf[r]), r),
         registered' = registered \cup {r},
         UNCHANGED <<external_receiver_set, pending, panicked>>
  PROVE  IInv'
<1> DEFINE i == get_name_index(nameOf[r])
           set == [send_stack[i] EXCEPT !.members = Append(@, r)]
<1>1. i \in 1..Len(send_stack) /\ send_stack[i].name = nameOf[r]
  BY IndexIs
<1>2. send_stack' = [send_stack EXCEPT ![i] = set]
  BY DEF Inserted
<1> HIDE DEF i
<1>3. send_stack \in Seq(Set) /\ Len(send_stack) \in Nat /\ send_stack[i] \in Set
  BY <1>1, ElementOfSeq DEF IInv, TypeOK
<1>4. send_stack[i].members \in Seq(Receivers)
  BY <1>3 DEF Set
<1>5. set \in Set /\ set.name = nameOf[r] /\ set.members = Append(send_stack[i].members, r)
  BY <1>1, <1>3, <1>4, AppendProperties DEF Set
<1>6. {set.members[j] : j \in 1..Len(set.members)} = MembersOf(i) \cup {r}
  <2> DEFINE old == send_stack[i].members
             new == Append(old, r)
  <2>1. /\ Len(new) = Len(old) + 1 /\ Len(old) \in Nat
        /\ \A j \in 1..Len(old) : new[j] = old[j]
        /\ new[Len(old) + 1] = r
    BY <1>4, AppendProperties
  <2> HIDE DEF new, old
  <2>2. {new[j] : j \in 1..Len(new)} = {old[j] : j \in 1..Len(old)} \cup {r}
    <3>1. ASSUME NEW j \in 1..Len(new) PROVE new[j] \in {old[n] : n \in 1..Len(old)} \cup {r}
      <4>1. j \in 1..Len(old) \/ j = Len(old) + 1  BY <2>1
      <4> QED  BY <2>1, <4>1
    <3>2. ASSUME NEW j \in 1..Len(old) PROVE old[j] \in {new[n] : n \in 1..Len(new)}
      <4>1. j \in 1..Len(new) /\ new[j] = old[j]  BY <2>1
      <4> QED  BY <4>1
    <3>3. r \in {new[n] : n \in 1..Len(new)}
      <4>1. Len(old) + 1 \in 1..Len(new)  BY <2>1
      <4> QED  BY <2>1, <4>1
    <3> QED  BY <3>1, <3>2, <3>3
  <2> QED  BY <1>5, <2>2 DEF MembersOf, old, new
<1> HIDE DEF set
<1>7. /\ send_stack' \in Seq(Set) /\ Len(send_stack') = Len(send_stack)
      /\ \A k \in 1..Len(send_stack) :
           send_stack'[k] = IF k = i THEN set ELSE send_stack[k]
  BY <1>1, <1>2, <1>3, <1>5, ExceptSeq
<1>8. \A k \in 1..Len(send_stack) : send_stack'[k].name = send_stack[k].name
  BY <1>1, <1>5, <1>7
<1>9. TypeOK'
  BY <1>7 DEF IInv, TypeOK
<1>10. NamesOnce'
  BY <1>7, <1>8 DEF IInv, NamesOnce
<1>11. SetsComplete'
  <2>1. ASSUME NEW k \in 1..Len(send_stack) PROVE MembersOf(k)' = Named(send_stack[k].name)'
    <3>1. CASE k = i
      <4>1. MembersOf(k)' = MembersOf(i) \cup {r}
        <5>1. send_stack'[k] = set
          BY <1>7, <3>1
        <5>2. MembersOf(k)' = {set.members[j] : j \in 1..Len(set.members)}
          BY <5>1 DEF MembersOf
        <5> QED  BY <1>6, <5>2
      <4>2. MembersOf(i) = Named(nameOf[r])
        BY <1>1 DEF IInv, SetsComplete
      <4> QED  BY <1>1, <1>8, <3>1, <4>1, <4>2 DEF Named
    <3>2. CASE k # i
      <4>1. MembersOf(k)' = MembersOf(k)
        BY <1>7, <3>2 DEF MembersOf
      <4>2. MembersOf(k) = Named(send_stack[k].name)
        BY DEF IInv, SetsComplete
      <4>3. send_stack[k].name # nameOf[r]
        BY <1>1, <3>2 DEF IInv, NamesOnce
      <4> QED  BY <1>8, <4>1, <4>2, <4>3 DEF Named
    <3> QED  BY <3>1, <3>2
  <2>2. ASSUME NEW x \in registered \cup {r}
        PROVE  \E k \in 1..Len(send_stack) : send_stack'[k].name = nameOf[x]
    BY <1>1, <1>8 DEF IInv, SetsComplete
  <2> QED  BY <1>7, <2>1, <2>2 DEF SetsComplete
<1>12. IndexOfItsName'
  BY <1>7, <1>8 DEF IInv, IndexOfItsName
<1> QED  BY <1>9, <1>10, <1>11, <1>12 DEF IInv

(* A receiver of a new name gets a set behind all the others. *)
LEMMA NewInvariant ==
  ASSUME IInv, NEW r \in Receivers, ~IsKnown(nameOf[r]),
         Len(send_stack) < SendStackSize,
         send_stack' = Append(send_stack, [name |-> nameOf[r], members |-> <<r, r>>]),
         registered' = registered \cup {r},
         UNCHANGED <<external_receiver_set, pending, panicked>>
  PROVE  IInv'
<1> DEFINE set == [name |-> nameOf[r], members |-> <<r, r>>]
           last == Len(send_stack) + 1
<1>1. send_stack \in Seq(Set) /\ Len(send_stack) \in Nat /\ SendStackSize \in Nat
  BY SendControllerAssumption DEF IInv, TypeOK
<1>2. set \in Set /\ set.name = nameOf[r] /\ {set.members[j] : j \in 1..Len(set.members)} = {r}
  <2>1. <<r, r>> \in Seq(Receivers) /\ Len(<<r, r>>) = 2
    OBVIOUS
  <2>2. nameOf[r] \in Names
    BY SendControllerAssumption
  <2>3. \A j \in 1..2 : <<r, r>>[j] = r
    OBVIOUS
  <2> QED  BY <2>1, <2>2, <2>3 DEF Set
<1>3. nameOf[r] # System /\ \A k \in 1..Len(send_stack) : send_stack[k].name # nameOf[r]
  BY DEF IsKnown
<1> HIDE DEF set
<1>4. /\ send_stack' \in Seq(Set) /\ Len(send_stack') = last
      /\ \A k \in 1..Len(send_stack) : send_stack'[k] = send_stack[k]
      /\ send_stack'[last] = set
  BY <1>1, <1>2, AppendProperties DEF set
<1>5. \A k \in 1..last : k \in 1..Len(send_stack) \/ k = last
  BY <1>1
<1>6. TypeOK'
  BY <1>1, <1>4 DEF IInv, TypeOK
<1>7. NamesOnce'
  BY <1>2, <1>3, <1>4, <1>5 DEF IInv, NamesOnce
<1>8. Named(nameOf[r]) = {}
  BY <1>3 DEF IInv, SetsComplete, Named
<1>9. SetsComplete'
  <2>1. ASSUME NEW k \in 1..last PROVE MembersOf(k)' = Named(send_stack[k].name)'
    <3>1. CASE k = last
      <4>1. MembersOf(k)' = {r}
        BY <1>2, <1>4, <3>1 DEF MembersOf
      <4> QED  BY <1>2, <1>4, <1>8, <3>1, <4>1 DEF Named
    <3>2. CASE k \in 1..Len(send_stack)
      <4>1. MembersOf(k)' = MembersOf(k)
        BY <1>4, <3>2 DEF MembersOf
      <4>2. MembersOf(k) = Named(send_stack[k].name)
        BY <3>2 DEF IInv, SetsComplete
      <4> QED  BY <1>3, <1>4, <3>2, <4>1, <4>2 DEF Named
    <3> QED  BY <1>5, <3>1, <3>2
  <2>2. ASSUME NEW x \in registered \cup {r}
        PROVE  \E k \in 1..last : send_stack'[k].name = nameOf[x]
    <3>1. CASE x = r
      <4>1. last \in 1..last  BY <1>1
      <4> QED  BY <1>2, <1>4, <3>1, <4>1
    <3>2. CASE x \in registered
      <4>1. PICK k \in 1..Len(send_stack) : send_stack[k].name = nameOf[x]
        BY <3>2 DEF IInv, SetsComplete
      <4>2. k \in 1..last  BY <1>1
      <4> QED  BY <1>4, <4>1, <4>2
    <3> QED  BY <3>1, <3>2
  <2> QED  BY <1>4, <2>1, <2>2 DEF SetsComplete
<1>10. IndexOfItsName'
  <2> SUFFICES ASSUME NEW k \in 1..Len(pending), pending[k].name # System
               PROVE  /\ pending[k].index \in 1..last
                      /\ send_stack'[pending[k].index].name = pending[k].name
    BY <1>4 DEF IndexOfItsName
  <2>1. pending[k].index \in 1..Len(send_stack)
        /\ send_stack[pending[k].index].name = pending[k].name
    BY DEF IInv, IndexOfItsName
  <2> QED  BY <1>1, <1>4, <2>1
<1> QED  BY <1>6, <1>7, <1>9, <1>10 DEF IInv

(* A message is queued with the index of its name, if that is known. *)
LEMMA ScheduleInvariant ==
  ASSUME IInv, NEW name \in Names, schedule_external_message(name)
  PROVE  IInv'
<1> DEFINE new == [name |-> name, index |-> get_name_index(name)]
<1>1. UNCHANGED <<send_stack, external_receiver_set, registered, panicked>>
  BY DEF schedule_external_message
<1>2. NamesOnce' /\ SetsComplete'
  BY <1>1 DEF IInv, NamesOnce, SetsComplete, MembersOf, Named
<1>3. CASE ~IsKnown(name)
  <2>1. pending' = pending
    BY <1>3 DEF schedule_external_message
  <2> QED  BY <1>1, <1>2, <2>1 DEF IInv, TypeOK, IndexOfItsName
<1>4. CASE IsKnown(name)
  <2>1. pending' = Append(pending, new)
    BY <1>4 DEF schedule_external_message
  <2>2. /\ get_name_index(name) \in Nat
        /\ name # System => /\ get_name_index(name) \in 1..Len(send_stack)
                            /\ send_stack[get_name_index(name)].name = name
    <3>1. CASE name = System
      BY <3>1 DEF get_name_index, SYSTEM_NAME_INDEX
    <3>2. CASE name # System
      BY <1>4, <3>2, IndexIs
    <3> QED  BY <3>1, <3>2
  <2>3. new \in PendingMessage /\ new.name = name /\ new.index = get_name_index(name)
    BY <2>2 DEF PendingMessage
  <2> HIDE DEF new
  <2>4. pending \in Seq(PendingMessage) /\ Len(pending) \in Nat
    BY DEF IInv, TypeOK
  <2>5. /\ pending' \in Seq(PendingMessage) /\ Len(pending') = Len(pending) + 1
        /\ \A k \in 1..Len(pending) : pending'[k] = pending[k]
        /\ pending'[Len(pending) + 1] = new
    BY <2>1, <2>3, <2>4, AppendProperties
  <2>6. TypeOK'
    BY <1>1, <2>5 DEF IInv, TypeOK
  <2>7. IndexOfItsName'
    <3> SUFFICES ASSUME NEW k \in 1..Len(pending) + 1, pending'[k].name # System
                 PROVE  /\ pending'[k].index \in 1..Len(send_stack)
                        /\ send_stack[pending'[k].index].name = pending'[k].name
      BY <1>1, <2>5 DEF IndexOfItsName
    <3>1. CASE k \in 1..Len(pending)
      BY <2>5, <3>1 DEF IInv, IndexOfItsName
    <3>2. CASE k = Len(pending) + 1
      BY <2>2, <2>3, <2>5, <3>2
    <3> QED  BY <2>4, <3>1, <3>2
  <2> QED  BY <1>2, <2>6, <2>7 DEF IInv
<1> QED  BY <1>3, <1>4

(* The first message leaves; the others move up with their indices. *)
LEMMA SendInvariant == ASSUME IInv, send_message PROVE IInv'
<1>1. /\ pending # << >> /\ pending' = Tail(pending)
      /\ UNCHANGED <<send_stack, external_receiver_set, registered, panicked>>
  BY DEF send_message
<1>2. pending \in Seq(PendingMessage) /\ Len(pending) \in Nat
  BY DEF IInv, TypeOK
<1>3. /\ pending' \in Seq(PendingMessage) /\ Len(pending') = Len(pending) - 1
      /\ \A k \in 1..Len(pending') : pending'[k] = pending[k + 1]
  BY <1>1, <1>2, HeadTailProperties
<1>4. \A k \in 1..Len(pending') : k + 1 \in 1..Len(pending)
  BY <1>2, <1>3
<1>5. TypeOK'
  BY <1>1, <1>3 DEF IInv, TypeOK
<1>6. IndexOfItsName'
  BY <1>1, <1>3, <1>4 DEF IInv, IndexOfItsName
<1>7. NamesOnce' /\ SetsComplete'
  BY <1>1, SMTT(30) DEF IInv, NamesOnce, SetsComplete, MembersOf, Named
<1> QED  BY <1>5, <1>6, <1>7 DEF IInv

-----------------------------------------------------------------------------
LEMMA InitInvariant == Init => IInv
<1> SUFFICES ASSUME Init PROVE IInv
  OBVIOUS
<1>1. TypeOK
  <2>1. /\ << >> \in Seq(Set) /\ << >> \in Seq(Names) /\ << >> \in Seq(PendingMessage)
        /\ Len(<< >>) = 0
    BY EmptySeq
  <2>2. Len(send_stack) <= SendStackSize
    BY <2>1, SendControllerAssumption DEF Init
  <2>3. panicked \in BOOLEAN /\ registered \subseteq Receivers
    BY DEF Init
  <2> QED  BY <2>1, <2>2, <2>3 DEF Init, TypeOK
<1>2. 1..Len(send_stack) = {} /\ 1..Len(pending) = {} /\ registered = {}
  BY DEF Init
<1>3. NamesOnce /\ SetsComplete /\ IndexOfItsName
  BY <1>2 DEF NamesOnce, SetsComplete, IndexOfItsName
<1> QED  BY <1>1, <1>3 DEF IInv

(* What no call changes but these three keeps the invariant. *)
LEMMA FrameInvariant ==
  ASSUME IInv, UNCHANGED <<send_stack, pending, registered>>,
         external_receiver_set' \in Seq(Names), panicked' \in BOOLEAN
  PROVE  IInv'
BY DEF IInv, TypeOK, NamesOnce, SetsComplete, MembersOf, Named, IndexOfItsName

LEMMA NextInvariant == IInv /\ [Next]_vars => IInv'
<1> SUFFICES ASSUME IInv, [Next]_vars PROVE IInv'
  OBVIOUS
<1>0. external_receiver_set \in Seq(Names) /\ panicked \in BOOLEAN
  BY DEF IInv, TypeOK
<1>1. CASE Panic
  BY <1>0, <1>1, FrameInvariant DEF Panic
<1>2. CASE UNCHANGED vars
  BY <1>0, <1>2, FrameInvariant DEF vars
<1>3. ASSUME NEW r \in Receivers, add_receiver(r) PROVE IInv'
  <2>1. CASE AddKnown(r)
    <3>1. Panic \/ /\ IsKnown(nameOf[r]) /\ nameOf[r] # System
                   /\ send_stack' = Inserted(send_stack, get_name_index(nameOf[r]), r)
                   /\ registered' = registered \cup {r}
                   /\ UNCHANGED <<external_receiver_set, pending, panicked>>
      BY <2>1 DEF AddKnown
    <3> QED  BY <1>1, <3>1, KnownInvariant
  <2>2. CASE AddNew(r)
    <3>1. \/ Panic
          \/ UNCHANGED vars
          \/ /\ ~IsKnown(nameOf[r]) /\ Len(send_stack) < SendStackSize
             /\ send_stack' = Append(send_stack, [name |-> nameOf[r], members |-> <<r, r>>])
             /\ registered' = registered \cup {r}
             /\ UNCHANGED <<external_receiver_set, pending, panicked>>
      BY <2>2 DEF AddNew
    <3> QED  BY <1>1, <1>2, <3>1, NewInvariant
  <2> QED  BY <1>3, <2>1, <2>2 DEF add_receiver
<1>4. ASSUME NEW r \in Receivers, remove_receiver(r) PROVE IInv'
  BY <1>1, <1>2, <1>4 DEF remove_receiver
<1>5. ASSUME NEW name \in Names, register_external_receiver(name) PROVE IInv'
  <2>1. Panic \/ /\ external_receiver_set' = Append(external_receiver_set, name)
                 /\ UNCHANGED <<send_stack, pending, registered, panicked>>
    BY <1>5 DEF register_external_receiver
  <2>2. Append(external_receiver_set, name) \in Seq(Names)
    BY <1>0, AppendProperties
  <2> QED  BY <1>0, <1>1, <2>1, <2>2, FrameInvariant
<1>6. ASSUME NEW name \in Names, schedule_external_message(name) PROVE IInv'
  BY <1>6, ScheduleInvariant
<1>7. CASE send_message
  BY <1>7, SendInvariant
<1> QED  BY <1>2, <1>3, <1>4, <1>5, <1>6, <1>7 DEF Next

LEMMA Invariance == Spec => []IInv
BY InitInvariant, NextInvariant, PTL DEF Spec

(***************************************************************************)
(* The stack of sets never outgrows its capacity, and what it holds and    *)
(* what waits are well-formed.                                             *)
(***************************************************************************)
THEOREM TypeCorrect == Spec => []TypeOK
<1>1. IInv => TypeOK
  BY DEF IInv
<1> QED  BY Invariance, <1>1, PTL

(***************************************************************************)
(* A message that waits goes to the receivers of the name for which it was *)
(* scheduled, whatever is registered meanwhile (controller.rs:218-224).    *)
(***************************************************************************)
THEOREM NeverMisdelivered == Spec => []ArrivesUnderItsName
<1>1. IInv => ArrivesUnderItsName
  <2> SUFFICES ASSUME IInv, NEW k \in 1..Len(pending), pending[k].name # System
               PROVE  Recipients(pending[k].index) = Named(pending[k].name)
    BY DEF ArrivesUnderItsName, Named
  <2> DEFINE i == pending[k].index
  <2>1. i \in 1..Len(send_stack) /\ send_stack[i].name = pending[k].name
    BY DEF IInv, IndexOfItsName
  <2>2. i # SYSTEM_NAME_INDEX
    BY <2>1 DEF SYSTEM_NAME_INDEX
  <2>3. Recipients(i) = MembersOf(i)
    BY <2>2 DEF Recipients, MembersOf
  <2> QED  BY <2>1, <2>3 DEF IInv, SetsComplete
<1> QED  BY Invariance, <1>1, PTL
=============================================================================
