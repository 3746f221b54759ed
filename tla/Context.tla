------------------------------ MODULE Context ------------------------------
(***************************************************************************)
(* pd::Context (src/pd/context.rs): the block clock and the message        *)
(* callback queue.  The host calls process once per audio block; process   *)
(* sends every queued message whose time lies before the end of the block, *)
(* one at a time, and each of them runs objects that schedule and cancel   *)
(* further messages before the next one is popped.                         *)
(*                                                                         *)
(* The bodies of schedule_message and cancel_message, and the call of      *)
(* send_message in process, are the ones written in context.rs as comments *)
(* that still await the port of their owners; the C++ half calls them      *)
(* through PdGraph (src/pd/graph.rs:388-394).  Popping an entry takes it   *)
(* off the front, as in the C++ list; list.rs's own pop is the subject of  *)
(* PdList.                                                                 *)
(***************************************************************************)
EXTENDS OrderedQueue, Integers

CONSTANTS Objects, Outlets, AtomLists,
          BlockSize,     \* samples in a block
          SampleRate,    \* samples in a second
          Delays,        \* how far ahead of the message it is sent an object schedules
          None,          \* no message is being sent
          MaxTime,       \* bound: the latest timestamp scheduled, and block scheduled in
          MaxCalls,      \* bound: calls of schedule_message
          MaxBlocks      \* bound: blocks processed

ASSUME ContextAssumption ==
  /\ MaxListSize \in Nat \ {0}
  /\ BlockSize \in Nat \ {0}
  /\ SampleRate \in Nat \ {0}
  /\ Delays \subseteq Nat
  /\ MaxTime \in Nat
  /\ MaxCalls \in Nat
  /\ MaxBlocks \in Nat

VARIABLES queue,                  \* message_callback_queue
          block_start_timestamp,  \* milliseconds
          phase,                  \* "idle", or inside process: "messages" at the top
                                  \* of its loop, "send" inside send_message
          current,                \* the message being sent
          sent,                   \* history: the timestamp of the last message sent
          calls,                  \* history: calls of schedule_message so far
          blocks                  \* history: blocks processed so far

vars == <<queue, block_start_timestamp, phase, current, sent, calls, blocks>>

\* Duration::from_millis((block_size / sample_rate * 1000.0) as u64)
block_duration == (BlockSize * 1000) \div SampleRate

next_block_start_timestamp == block_start_timestamp + block_duration

Times == 0..MaxTime
Entry == [obj : Objects, outlet : Outlets, ts : Times, atoms : AtomLists, id : 1..MaxCalls]
SentMessage == [obj : Objects, outlet : Outlets, ts : Nat, atoms : AtomLists,
                id : 1..MaxCalls]

ASSUME NoneAssumption == None \notin SentMessage

TypeOK ==
  /\ queue \in Seq(Entry)
  /\ Len(queue) <= MaxListSize
  /\ block_start_timestamp \in Nat
  /\ phase \in {"idle", "messages", "send"}
  /\ IF phase = "send" THEN current \in SentMessage ELSE current = None
  /\ sent \in Nat
  /\ calls \in 0..MaxCalls
  /\ blocks \in 0..MaxBlocks

Init ==
  /\ queue = << >>
  /\ block_start_timestamp = 0
  /\ phase = "idle"
  /\ current = None
  /\ sent = 0
  /\ calls = 0
  /\ blocks = 0

-----------------------------------------------------------------------------
(* process *)

ProcessBegin ==
  /\ phase = "idle"
  /\ blocks < MaxBlocks
  /\ phase' = "messages"
  /\ UNCHANGED <<queue, block_start_timestamp, current, sent, calls, blocks>>

\* mutants: the end of the block belongs to it; a late message is not due
DueAtEnd == queue # << >> /\ First(queue).ts <= next_block_start_timestamp
DueUnlessLate ==
  /\ queue # << >>
  /\ First(queue).ts >= block_start_timestamp
  /\ First(queue).ts < next_block_start_timestamp

\* the loop goes on: the queue is not empty and its first entry is due
Due == queue # << >> /\ First(queue).ts < next_block_start_timestamp

\* mutant: a late message keeps its time
Unclamped(ts) == ts

Clamped(ts) == IF ts < block_start_timestamp THEN block_start_timestamp ELSE ts

PopMessage ==
  /\ phase = "messages"
  /\ Due
  /\ queue' = Popped(queue)
  /\ current' = [First(queue) EXCEPT !.ts = Clamped(@)]
  /\ sent' = Clamped(First(queue).ts)
  /\ phase' = "send"
  /\ UNCHANGED <<block_start_timestamp, calls, blocks>>

SendDone ==
  /\ phase = "send"
  /\ current' = None
  /\ phase' = "messages"
  /\ UNCHANGED <<queue, block_start_timestamp, sent, calls, blocks>>

ProcessEnd ==
  /\ phase = "messages"
  /\ ~Due
  /\ block_start_timestamp' = next_block_start_timestamp
  /\ blocks' = blocks + 1
  /\ phase' = "idle"
  /\ UNCHANGED <<queue, current, sent, calls>>

-----------------------------------------------------------------------------
(***************************************************************************)
(* The calls.  Between blocks the host, or an object it sends to, gives    *)
(* any timestamp, past ones included.  During send_message an object adds  *)
(* a delay to the timestamp of the message it is handling.                 *)
(***************************************************************************)
schedule_message(obj, outlet, atoms, ts) ==
  /\ calls < MaxCalls
  /\ ts \in Times
  /\ block_start_timestamp \in Times
  /\ calls' = calls + 1
  /\ queue' = InsertMessage(queue, [obj |-> obj, outlet |-> outlet, ts |-> ts,
                                    atoms |-> atoms, id |-> calls + 1])
  /\ UNCHANGED <<block_start_timestamp, phase, current, sent, blocks>>

ScheduleBetweenBlocks ==
  /\ phase = "idle"
  /\ \E obj \in Objects, outlet \in Outlets, atoms \in AtomLists, ts \in Times :
       schedule_message(obj, outlet, atoms, ts)

ScheduleFromObject ==
  /\ phase = "send"
  /\ \E obj \in Objects, outlet \in Outlets, atoms \in AtomLists, d \in Delays :
       schedule_message(obj, outlet, atoms, current.ts + d)

cancel_message(obj, outlet, ts, atoms) ==
  /\ queue' = RemoveMessage(queue, obj, outlet, ts, atoms)
  /\ UNCHANGED <<block_start_timestamp, phase, current, sent, calls, blocks>>

Cancel ==
  /\ phase # "messages"
  /\ \E obj \in Objects, outlet \in Outlets, ts \in Times, atoms \in AtomLists :
       cancel_message(obj, outlet, ts, atoms)

Process == ProcessBegin \/ PopMessage \/ SendDone \/ ProcessEnd

Next == Process \/ ScheduleBetweenBlocks \/ ScheduleFromObject \/ Cancel

Spec == Init /\ [][Next]_vars

\* the host keeps calling process, and a call of process, once begun, goes on
FairSpec == Spec /\ WF_vars(Process)
-----------------------------------------------------------------------------
(***************************************************************************)
(* The queue is sorted by time, and entries of one time are in the order   *)
(* in which they were scheduled: insert_message's scan for the first       *)
(* strictly later entry, and remove_message, keep that order through any   *)
(* mixture of calls.                                                       *)
(***************************************************************************)
QueueOrdered == Ordered(queue)

(***************************************************************************)
(* Time never runs backwards for the objects: whatever they schedule while *)
(* a message is being sent, however late a message was scheduled, and over *)
(* the ends of blocks, each message is sent at a time no earlier than the  *)
(* one before.  The clamp in process, the order of the queue and the break *)
(* test all have a part in it.                                             *)
(***************************************************************************)
SendsInOrder == [][sent' >= sent]_vars

(***************************************************************************)
(* A message is sent inside the block it belongs to: not before its start, *)
(* and before its end (a block shorter than a millisecond has no inside,   *)
(* and then only late messages are sent, at its start).                    *)
(***************************************************************************)
SentWithinBlock ==
  phase = "send" =>
    /\ block_start_timestamp <= current.ts
    /\ block_duration > 0 => current.ts < next_block_start_timestamp

(***************************************************************************)
(* process, with its queue, loop and clamp, keeps the promises of Agenda.  *)
(***************************************************************************)
Clock == INSTANCE Agenda WITH Messages <- Entry, Tick <- block_duration,
                              now <- block_start_timestamp,
                              pending <- Entries(queue), sending <- current

ImplementsAgenda == Clock!Spec

(***************************************************************************)
(* A message that was accepted is sent, unless it is cancelled: no entry   *)
(* stays in the queue for ever while the host keeps processing blocks.     *)
(***************************************************************************)
Waiting(id) == \E e \in Entries(queue) : e.id = id

EventuallySent == \A id \in 1..MaxCalls : Waiting(id) ~> ~Waiting(id)
=============================================================================
