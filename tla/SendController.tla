--------------------------- MODULE SendController ---------------------------
(***************************************************************************)
(* message::send::Controller (src/message/send/controller.rs): the named   *)
(* receivers of a context, and the messages that the host schedules for    *)
(* them.  The name is looked up when the message is scheduled; the message *)
(* waits in the context's queue with the index that was found, and goes to *)
(* whatever that index stands for when it is sent.                         *)
(*                                                                         *)
(* The call of schedule_message is a comment in context.rs (776-777).      *)
(* Indices are those of the code plus one.                                 *)
(***************************************************************************)
EXTENDS Naturals, Sequences

CONSTANTS Receivers, Names, nameOf,    \* receiver.get_name()
          System,                      \* "pd"
          SendStackSize,               \* SEND_STACK_SIZE
          SetSize,                     \* the capacity of a Set
          MaxPending                   \* bound: messages waiting

ASSUME SendControllerAssumption ==
  /\ nameOf \in [Receivers -> Names]
  /\ System \in Names
  /\ SendStackSize \in Nat /\ SetSize \in Nat /\ MaxPending \in Nat

VARIABLES send_stack,               \* [name, members] in the order of their creation
          external_receiver_set,
          pending,                  \* [name, index] of the messages in the queue; the
                                    \* name is history
          registered,               \* history: receivers whose add_receiver succeeded
          panicked

vars == <<send_stack, external_receiver_set, pending, registered, panicked>>

SYSTEM_NAME_INDEX == 0

Init ==
  /\ send_stack = << >>
  /\ external_receiver_set = << >>
  /\ pending = << >>
  /\ registered = {}
  /\ panicked = FALSE

-----------------------------------------------------------------------------
\* get_name_index: "pd" stands for the system; else the first entry of that name
IsKnown(name) ==
  name = System \/ \E k \in 1..Len(send_stack) : send_stack[k].name = name

get_name_index(name) ==
  IF name = System THEN SYSTEM_NAME_INDEX
  ELSE CHOOSE k \in 1..Len(send_stack) :
         /\ send_stack[k].name = name
         /\ \A j \in 1..k - 1 : send_stack[j].name # name

Panic ==
  panicked' = TRUE
    /\ UNCHANGED <<send_stack, external_receiver_set, pending, registered>>

\* Set::insert into the set at index k of a send_stack
Inserted(stack, k, r) == [stack EXCEPT ![k].members = Append(@, r)]

\* mutant: a new name is put first
AddNewFirst(r) ==
  /\ ~IsKnown(nameOf[r])
  /\ Len(send_stack) < SendStackSize /\ SetSize >= 2
  /\ send_stack' = << [name |-> nameOf[r], members |-> <<r, r>>] >> \o send_stack
  /\ registered' = registered \cup {r}
  /\ UNCHANGED <<external_receiver_set, pending, panicked>>

\* add_receiver of a name that is known; the index of "pd" is out of range
AddKnown(r) ==
  /\ IsKnown(nameOf[r])
  /\ \/ /\ nameOf[r] = System
        /\ Panic
     \/ /\ nameOf[r] # System
        /\ Len(send_stack[get_name_index(nameOf[r])].members) = SetSize
        /\ Panic
     \/ /\ nameOf[r] # System
        /\ Len(send_stack[get_name_index(nameOf[r])].members) < SetSize
        /\ send_stack' = Inserted(send_stack, get_name_index(nameOf[r]), r)
        /\ registered' = registered \cup {r}
        /\ UNCHANGED <<external_receiver_set, pending, panicked>>

\* of a new name: BufferOverflow, or a set with the receiver, inserted once more
AddNew(r) ==
  /\ ~IsKnown(nameOf[r])
  /\ \/ /\ Len(send_stack) = SendStackSize
        /\ UNCHANGED vars
     \/ /\ Len(send_stack) < SendStackSize
        /\ SetSize < 2
        /\ Panic
     \/ /\ Len(send_stack) < SendStackSize
        /\ SetSize >= 2
        /\ send_stack' = Append(send_stack, [name |-> nameOf[r], members |-> <<r, r>>])
        /\ registered' = registered \cup {r}
        /\ UNCHANGED <<external_receiver_set, pending, panicked>>

add_receiver(r) == ~panicked /\ (AddKnown(r) \/ AddNew(r))

\* Set::erase is unimplemented
remove_receiver(r) ==
  /\ ~panicked
  /\ IF IsKnown(nameOf[r]) THEN Panic ELSE UNCHANGED vars

register_external_receiver(name) ==
  /\ ~panicked
  /\ IF Len(external_receiver_set) = SetSize THEN Panic
     ELSE /\ external_receiver_set' = Append(external_receiver_set, name)
          /\ UNCHANGED <<send_stack, pending, registered, panicked>>

\* Context::schedule_external_message: for a name that is known, with its index
schedule_external_message(name) ==
  /\ ~panicked
  /\ Len(pending) < MaxPending
  /\ pending' = IF IsKnown(name)
                  THEN Append(pending, [name |-> name, index |-> get_name_index(name)])
                  ELSE pending
  /\ UNCHANGED <<send_stack, external_receiver_set, registered, panicked>>

\* send_message, when the context comes to the first message
send_message ==
  /\ ~panicked
  /\ pending # << >>
  /\ pending' = Tail(pending)
  /\ UNCHANGED <<send_stack, external_receiver_set, registered, panicked>>

Next ==
  \/ \E r \in Receivers : add_receiver(r) \/ remove_receiver(r)
  \/ \E name \in Names : register_external_receiver(name) \/ schedule_external_message(name)
  \/ send_message

Spec == Init /\ [][Next]_vars

-----------------------------------------------------------------------------
\* those that send_message hands a message with that index to
Recipients(index) ==
  IF index = SYSTEM_NAME_INDEX THEN {}
  ELSE {send_stack[index].members[j] : j \in 1..Len(send_stack[index].members)}

(***************************************************************************)
(* A message that waits would go, if it were sent now, to the receivers    *)
(* registered under the name it was scheduled for, and to no other: the    *)
(* index it holds stays that of its name whatever is registered meanwhile  *)
(* (the constraint noted at controller.rs:218-224).                        *)
(***************************************************************************)
ArrivesUnderItsName ==
  \A k \in 1..Len(pending) :
    pending[k].name # System =>
      Recipients(pending[k].index) = {r \in registered : nameOf[r] = pending[k].name}
=============================================================================
