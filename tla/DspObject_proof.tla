-------------------------- MODULE DspObject_proof --------------------------
(***************************************************************************)
(* Proofs about Context and about DspObject, which is an audio object      *)
(* beside it, for every block size, sample rate, capacity, set of objects  *)
(* and number of messages.                                                 *)
(*                                                                         *)
(* First Context: the type invariant, the order of the queue, the order of *)
(* the messages sent, and the refinement of Agenda.  Then DspObject, on    *)
(* Context's invariant: the object wakes for its messages, and the block   *)
(* that it cuts at them is processed whole.                                *)
(***************************************************************************)
EXTENDS DspObject, OrderedQueue_proof

(***************************************************************************)
(* The inductive invariant.  Beside the order of the queue: entries carry  *)
(* the number of an earlier call, so a new one goes behind its equals; and *)
(* nothing in the queue would be sent earlier than what was sent last.     *)
(***************************************************************************)
NumbersGiven == \A j \in 1..Len(queue) : queue[j].id <= calls

NothingBehind ==
  /\ phase = "idle" => sent <= block_start_timestamp
  /\ phase # "idle" =>
       /\ sent <= next_block_start_timestamp
       /\ \A j \in 1..Len(queue) : sent <= Clamped(queue[j].ts)
  /\ phase = "send" => current.ts = sent

BlocksLeft == phase # "idle" => blocks < MaxBlocks

IInv == TypeOK /\ QueueOrdered /\ NumbersGiven /\ NothingBehind /\ SentWithinBlock /\ BlocksLeft

-----------------------------------------------------------------------------
LEMMA DurationType == block_duration \in Nat
BY ContextAssumption DEF block_duration

LEMMA EntryFields ==
  /\ \A e \in Entry : e.ts \in Nat /\ e.id \in Nat /\ e.id \in 1..MaxCalls
  /\ Entry \subseteq SentMessage
BY ContextAssumption DEF Entry, SentMessage, Times

(* What a call of schedule_message does to the queue. *)
LEMMA ScheduleEffect ==
  ASSUME IInv, NEW obj \in Objects, NEW outlet \in Outlets, NEW atoms \in AtomLists,
         NEW ts, schedule_message(obj, outlet, atoms, ts)
  PROVE  /\ calls' = calls + 1 /\ calls' \in 0..MaxCalls
         /\ \/ queue' = queue
            \/ \E new \in Entry :
                 /\ new.ts = ts /\ new.id = calls + 1
                 /\ \A j \in 1..Len(queue) : queue[j].id < new.id
                 /\ queue' = InsertAt(queue, InsertPosition(queue, ts), new)
                 /\ InsertPosition(queue, ts) \in 1..Len(queue) + 1
                 /\ Len(queue) + 1 <= MaxListSize
<1> DEFINE new == [obj |-> obj, outlet |-> outlet, ts |-> ts,
                   atoms |-> atoms, id |-> calls + 1]
<1>1. /\ ts \in Times /\ calls < MaxCalls /\ calls' = calls + 1
      /\ queue' = InsertMessage(queue, new)
  BY DEF schedule_message
<1>2. calls \in Nat /\ MaxCalls \in Nat /\ queue \in Seq(Entry)
      /\ Len(queue) \in Nat /\ Len(queue) <= MaxListSize /\ MaxListSize \in Nat
  BY ContextAssumption DEF IInv, TypeOK
<1>3. new \in Entry
  BY <1>1, <1>2 DEF Entry
<1>4. new.ts = ts /\ new.id = calls + 1 /\ ts \in Nat
  BY <1>1, ContextAssumption DEF Times
<1> HIDE DEF new
<1>5. \A j \in 1..Len(queue) : queue[j].id < new.id
  <2> TAKE j \in 1..Len(queue)
  <2>1. queue[j].id \in Nat  BY <1>2, ElementOfSeq, EntryFields
  <2> QED  BY <1>2, <1>4, <2>1 DEF IInv, NumbersGiven
<1>6. CASE Full(queue)
  BY <1>1, <1>2, <1>6 DEF InsertMessage
<1>7. CASE ~Full(queue)
  <2>1. queue' = InsertAt(queue, InsertPosition(queue, ts), new)
    BY <1>1, <1>4, <1>7 DEF InsertMessage
  <2>2. Len(queue) + 1 <= MaxListSize
    BY <1>2, <1>7 DEF Full
  <2>3. InsertPosition(queue, ts) \in 1..Len(queue) + 1
    BY <1>2, <1>4, EntryFields, InsertPositionIs
  <2>4. calls' \in 0..MaxCalls
    BY <1>1, <1>2
  <2> QED  BY <1>1, <1>3, <1>4, <1>5, <2>1, <2>2, <2>3, <2>4
<1> QED  BY <1>1, <1>2, <1>6, <1>7

(* What a queue keeps when it loses one entry. *)
LEMMA RemoveEffect ==
  ASSUME IInv, NEW p \in 1..Len(queue)
  PROVE  /\ RemoveAt(queue, p) \in Seq(Entry)
         /\ Len(RemoveAt(queue, p)) <= MaxListSize
         /\ Ordered(RemoveAt(queue, p))
         /\ \A j \in 1..Len(RemoveAt(queue, p)) :
              \E k \in 1..Len(queue) : RemoveAt(queue, p)[j] = queue[k]
         /\ Entries(RemoveAt(queue, p)) = Entries(queue) \ {queue[p]}
<1>1. queue \in Seq(Entry) /\ Len(queue) \in Nat /\ Len(queue) <= MaxListSize
      /\ Ordered(queue) /\ MaxListSize \in Nat
  BY ContextAssumption DEF IInv, TypeOK, QueueOrdered
<1> DEFINE t == RemoveAt(queue, p)
<1>2. /\ t \in Seq(Entry) /\ Len(t) = Len(queue) - 1
      /\ \A j \in 1..Len(queue) - 1 : t[j] = IF j < p THEN queue[j] ELSE queue[j + 1]
  BY <1>1, RemoveAtType
<1>3. Ordered(t)
  BY <1>1, RemoveKeepsOrder
<1>4. Entries(t) = Entries(queue) \ {queue[p]}
  BY <1>1, EntryFields, RemoveAtEntries
<1> HIDE DEF t
<1>5. ASSUME NEW j \in 1..Len(t) PROVE \E k \in 1..Len(queue) : t[j] = queue[k]
  <2>1. CASE j < p
    <3>1. j \in 1..Len(queue) /\ t[j] = queue[j]  BY <1>1, <1>2, <2>1
    <3> QED  BY <3>1
  <2>2. CASE j >= p
    <3>1. j + 1 \in 1..Len(queue) /\ t[j] = queue[j + 1]  BY <1>1, <1>2, <2>2
    <3> QED  BY <3>1
  <2> QED  BY <1>1, <1>2, <2>1, <2>2
<1>6. Len(t) <= MaxListSize
  BY <1>1, <1>2
<1> QED  BY <1>2, <1>3, <1>4, <1>5, <1>6 DEF t

-----------------------------------------------------------------------------
LEMMA InitInvariant == Init => IInv
<1> SUFFICES ASSUME Init PROVE IInv
  OBVIOUS
<1>1. TypeOK
  BY ContextAssumption DEF Init, TypeOK
<1>2. QueueOrdered /\ NumbersGiven /\ NothingBehind /\ SentWithinBlock /\ BlocksLeft
  BY DEF Init, BlocksLeft, QueueOrdered, Ordered, NumbersGiven, NothingBehind, SentWithinBlock
<1> QED  BY <1>1, <1>2 DEF IInv

LEMMA PopInvariant == ASSUME IInv, PopMessage PROVE IInv' /\ sent' >= sent
<1> DEFINE t == RemoveAt(queue, 1)
<1>1. /\ queue # << >> /\ phase = "messages" /\ queue' = t
      /\ queue[1].ts < next_block_start_timestamp
      /\ sent' = Clamped(queue[1].ts)
      /\ current' = [queue[1] EXCEPT !.ts = Clamped(@)]
      /\ phase' = "send" /\ UNCHANGED <<block_start_timestamp, calls, blocks>>
  BY DEF PopMessage, Due, First, Popped
<1>2. queue \in Seq(Entry) /\ Len(queue) \in Nat /\ block_start_timestamp \in Nat
      /\ sent \in Nat /\ block_duration \in Nat
  BY DurationType DEF IInv, TypeOK
<1>3. 1 \in 1..Len(queue)
  BY <1>1, <1>2, EmptySeq
<1>4. /\ t \in Seq(Entry) /\ Len(t) <= MaxListSize /\ Ordered(t)
      /\ \A j \in 1..Len(t) : \E k \in 1..Len(queue) : t[j] = queue[k]
  BY <1>3, RemoveEffect
<1> HIDE DEF t
<1>5. queue[1] \in Entry /\ queue[1].ts \in Nat
  BY <1>2, <1>3, ElementOfSeq, EntryFields
<1>6. sent' \in Nat /\ block_start_timestamp <= sent' /\ queue[1].ts <= sent'
      /\ sent' <= next_block_start_timestamp
      /\ (block_duration > 0 => sent' < next_block_start_timestamp)
  BY <1>1, <1>2, <1>5 DEF Clamped, next_block_start_timestamp
<1>7. current' \in SentMessage /\ current'.ts = sent'
  BY <1>1, <1>5, <1>6 DEF Entry, SentMessage
<1>8. sent' >= sent
  BY <1>1, <1>2, <1>3 DEF IInv, NothingBehind, Clamped
<1>9. \A j \in 1..Len(t) : sent' <= Clamped(t[j].ts)
  <2> TAKE j \in 1..Len(t)
  <2>1. PICK k \in 1..Len(queue) : t[j] = queue[k]
    BY <1>4
  <2>2. queue[k].ts \in Nat
    BY <1>2, ElementOfSeq, EntryFields
  <2>3. queue[1].ts <= queue[k].ts
    <3>1. CASE k = 1  BY <1>5, <3>1
    <3>2. CASE 1 < k
      <4>1. Before(queue[1], queue[k])
        BY <1>3, <3>2 DEF IInv, QueueOrdered, Ordered
      <4> QED  BY <1>5, <2>2, <4>1 DEF Before
    <3> QED  BY <3>1, <3>2
  <2> QED  BY <1>1, <1>2, <1>5, <2>1, <2>2, <2>3 DEF Clamped
<1>10. TypeOK'
  BY <1>1, <1>4, <1>6, <1>7 DEF IInv, TypeOK
<1>11. NumbersGiven'
  BY <1>1, <1>4 DEF IInv, NumbersGiven
<1>12. NothingBehind'
  BY <1>1, <1>6, <1>7, <1>9 DEF NothingBehind, Clamped, next_block_start_timestamp
<1>13. SentWithinBlock'
  BY <1>1, <1>6, <1>7 DEF SentWithinBlock, next_block_start_timestamp
<1>14. QueueOrdered' /\ BlocksLeft'
  BY <1>1, <1>4 DEF IInv, QueueOrdered, BlocksLeft
<1> QED  BY <1>8, <1>10, <1>11, <1>12, <1>13, <1>14 DEF IInv

(* A call during a send or between blocks, with a timestamp not behind. *)
LEMMA ScheduleInvariant ==
  ASSUME IInv, NEW obj \in Objects, NEW outlet \in Outlets, NEW atoms \in AtomLists,
         NEW ts, schedule_message(obj, outlet, atoms, ts),
         phase # "idle" => ts >= sent
  PROVE  IInv'
<1>1. UNCHANGED <<block_start_timestamp, phase, current, sent, blocks>>
  BY DEF schedule_message
<1>2. calls' = calls + 1 /\ calls' \in 0..MaxCalls
  BY ScheduleEffect
<1>3. queue \in Seq(Entry) /\ Len(queue) \in Nat /\ calls \in Nat /\ sent \in Nat
      /\ block_start_timestamp \in Nat
  BY ContextAssumption DEF IInv, TypeOK
<1>4. CASE queue' = queue
  <2>1. TypeOK'  BY <1>1, <1>2, <1>4 DEF IInv, TypeOK
  <2>2. QueueOrdered'  BY <1>4 DEF IInv, QueueOrdered
  <2>3. NumbersGiven'
    <3> SUFFICES ASSUME NEW j \in 1..Len(queue) PROVE queue[j].id <= calls + 1
      BY <1>2, <1>4 DEF NumbersGiven
    <3>1. queue[j].id \in Nat  BY <1>3, ElementOfSeq, EntryFields
    <3> QED  BY <1>3, <3>1 DEF IInv, NumbersGiven
  <2>4. NothingBehind' /\ SentWithinBlock' /\ BlocksLeft'
    BY <1>1, <1>4 DEF IInv, NothingBehind, SentWithinBlock, BlocksLeft, Clamped,
                      next_block_start_timestamp
  <2> QED  BY <2>1, <2>2, <2>3, <2>4 DEF IInv
<1>5. ASSUME NEW new \in Entry, new.ts = ts, new.id = calls + 1,
             \A j \in 1..Len(queue) : queue[j].id < new.id,
             queue' = InsertAt(queue, InsertPosition(queue, ts), new),
             InsertPosition(queue, ts) \in 1..Len(queue) + 1,
             Len(queue) + 1 <= MaxListSize
      PROVE  IInv'
  <2> DEFINE t == InsertAt(queue, InsertPosition(queue, ts), new)
  <2>0. queue' = t /\ Len(queue) + 1 <= MaxListSize
    BY <1>5
  <2>1. /\ t \in Seq(Entry) /\ Len(t) = Len(queue) + 1
        /\ \A j \in 1..Len(t) : t[j] = new \/ \E k \in 1..Len(queue) : t[j] = queue[k]
    BY <1>3, <1>5, InsertAtElements
  <2>2. Ordered(queue')
    BY <1>3, <1>5, EntryFields, InsertKeepsOrder DEF IInv, QueueOrdered
  <2> HIDE DEF t
  <2>3. /\ queue' \in Seq(Entry) /\ Len(queue') = Len(queue) + 1
        /\ \A j \in 1..Len(queue') :
             queue'[j] = new \/ \E k \in 1..Len(queue) : queue'[j] = queue[k]
    BY <2>0, <2>1, Zenon
  <2>4. TypeOK'
    BY <1>1, <1>2, <2>0, <2>3 DEF IInv, TypeOK
  <2>5. NumbersGiven'
    <3> SUFFICES ASSUME NEW j \in 1..Len(queue') PROVE queue'[j].id <= calls'
      BY DEF NumbersGiven
    <3>1. CASE queue'[j] = new
      BY <1>2, <1>3, <1>5, <3>1
    <3>2. ASSUME NEW k \in 1..Len(queue), queue'[j] = queue[k] PROVE queue'[j].id <= calls'
      <4>1. queue[k].id \in Nat  BY <1>3, ElementOfSeq, EntryFields
      <4> QED  BY <1>2, <1>3, <3>2, <4>1 DEF IInv, NumbersGiven
    <3> QED  BY <2>3, <3>1, <3>2
  <2>6. NothingBehind'
    <3>1. ASSUME phase # "idle", NEW j \in 1..Len(queue') PROVE sent <= Clamped(queue'[j].ts)
      <4>1. CASE queue'[j] = new
        <5>1. ts \in Nat  BY <1>5, EntryFields
        <5> QED  BY <1>3, <1>5, <3>1, <4>1, <5>1 DEF Clamped
      <4>2. ASSUME NEW k \in 1..Len(queue), queue'[j] = queue[k]
            PROVE  sent <= Clamped(queue'[j].ts)
        BY <3>1, <4>2 DEF IInv, NothingBehind
      <4> QED  BY <2>3, <4>1, <4>2
    <3> QED  BY <1>1, <3>1 DEF IInv, NothingBehind, Clamped, next_block_start_timestamp
  <2>7. SentWithinBlock' /\ BlocksLeft'
    BY <1>1 DEF IInv, SentWithinBlock, BlocksLeft, next_block_start_timestamp
  <2> QED  BY <2>2, <2>4, <2>5, <2>6, <2>7 DEF IInv, QueueOrdered
<1> QED  BY <1>4, <1>5, ScheduleEffect

LEMMA CancelInvariant ==
  ASSUME IInv, NEW obj, NEW outlet, NEW ts, NEW atoms,
         cancel_message(obj, outlet, ts, atoms)
  PROVE  IInv'
<1>1. UNCHANGED <<block_start_timestamp, phase, current, sent, calls, blocks>>
  BY DEF cancel_message
<1>2. queue \in Seq(Entry)
  BY DEF IInv, TypeOK
<1>3. CASE queue' = queue
  BY <1>1, <1>3 DEF IInv, TypeOK, QueueOrdered, NumbersGiven, NothingBehind,
                    SentWithinBlock, BlocksLeft, Clamped, next_block_start_timestamp
<1>4. ASSUME NEW p \in 1..Len(queue), queue' = RemoveAt(queue, p) PROVE IInv'
  <2>1. /\ queue' \in Seq(Entry) /\ Len(queue') <= MaxListSize /\ Ordered(queue')
        /\ \A j \in 1..Len(queue') : \E k \in 1..Len(queue) : queue'[j] = queue[k]
    BY <1>4, RemoveEffect
  <2>2. TypeOK'
    BY <1>1, <2>1 DEF IInv, TypeOK
  <2>3. NumbersGiven'
    BY <1>1, <2>1 DEF IInv, NumbersGiven
  <2>4. NothingBehind'
    BY <1>1, <2>1 DEF IInv, NothingBehind, Clamped, next_block_start_timestamp
  <2>5. SentWithinBlock' /\ BlocksLeft'
    BY <1>1 DEF IInv, SentWithinBlock, BlocksLeft, next_block_start_timestamp
  <2> QED  BY <2>1, <2>2, <2>3, <2>4, <2>5 DEF IInv, QueueOrdered
<1> QED  BY <1>2, <1>3, <1>4, RemoveMessageIs DEF cancel_message

(* The invariant is inductive, and no step takes "sent" back. *)
LEMMA NextInvariant == IInv /\ [Next]_vars => IInv' /\ sent' >= sent
<1> SUFFICES ASSUME IInv, [Next]_vars PROVE IInv' /\ sent' >= sent
  OBVIOUS
<1>0. sent \in Nat /\ block_start_timestamp \in Nat /\ block_duration \in Nat
      /\ blocks \in Nat /\ MaxBlocks \in Nat
  BY DurationType, ContextAssumption DEF IInv, TypeOK
<1>1. CASE ProcessBegin
  <2>1. TypeOK'  BY <1>1 DEF IInv, TypeOK, ProcessBegin
  <2>2. NothingBehind'
    <3>1. \A j \in 1..Len(queue) : queue[j].ts \in Nat
      BY ElementOfSeq, EntryFields DEF IInv, TypeOK
    <3> QED  BY <1>0, <1>1, <3>1 DEF IInv, NothingBehind, ProcessBegin, Clamped,
                                     next_block_start_timestamp
  <2>3. QueueOrdered' /\ NumbersGiven' /\ SentWithinBlock' /\ BlocksLeft' /\ sent' >= sent
    BY <1>0, <1>1 DEF IInv, QueueOrdered, NumbersGiven, SentWithinBlock, BlocksLeft,
                      ProcessBegin
  <2> QED  BY <2>1, <2>2, <2>3 DEF IInv
<1>2. CASE PopMessage
  BY <1>2, PopInvariant
<1>3. CASE SendDone
  <2>1. TypeOK'  BY <1>3 DEF IInv, TypeOK, SendDone
  <2>2. /\ QueueOrdered' /\ NumbersGiven' /\ NothingBehind' /\ SentWithinBlock'
        /\ BlocksLeft' /\ sent' >= sent
    BY <1>0, <1>3 DEF IInv, QueueOrdered, NumbersGiven, NothingBehind, SentWithinBlock,
                      BlocksLeft, SendDone, Clamped, next_block_start_timestamp
  <2> QED  BY <2>1, <2>2 DEF IInv
<1>4. CASE ProcessEnd
  <2>1. block_start_timestamp' = next_block_start_timestamp /\ phase' = "idle"
        /\ phase = "messages" /\ blocks' = blocks + 1
        /\ UNCHANGED <<queue, current, sent, calls>>
    BY <1>4 DEF ProcessEnd
  <2>2. next_block_start_timestamp \in Nat /\ sent <= next_block_start_timestamp
    BY <1>0, <2>1 DEF IInv, NothingBehind, next_block_start_timestamp
  <2>3. blocks < MaxBlocks
    BY <2>1 DEF IInv, BlocksLeft
  <2>4. /\ QueueOrdered' /\ NumbersGiven' /\ NothingBehind' /\ SentWithinBlock'
        /\ BlocksLeft' /\ sent' >= sent
    BY <1>0, <2>1, <2>2 DEF IInv, QueueOrdered, NumbersGiven, NothingBehind, SentWithinBlock,
                            BlocksLeft
  <2>5. TypeOK'
    BY <1>0, <2>1, <2>2, <2>3 DEF IInv, TypeOK
  <2> QED  BY <2>4, <2>5 DEF IInv
<1>5. ASSUME NEW obj \in Objects, NEW outlet \in Outlets, NEW atoms \in AtomLists,
             NEW ts \in Times, phase = "idle", schedule_message(obj, outlet, atoms, ts)
      PROVE  IInv' /\ sent' >= sent
  BY <1>0, <1>5, ScheduleInvariant DEF schedule_message
<1>6. ASSUME NEW obj \in Objects, NEW outlet \in Outlets, NEW atoms \in AtomLists,
             NEW d \in Delays, phase = "send",
             schedule_message(obj, outlet, atoms, current.ts + d)
      PROVE  IInv' /\ sent' >= sent
  <2>1. current.ts = sent /\ d \in Nat
    BY <1>6, ContextAssumption DEF IInv, NothingBehind
  <2>2. current.ts + d >= sent
    BY <1>0, <2>1
  <2>3. IInv'
    BY <1>6, <2>2, ScheduleInvariant
  <2> QED  BY <1>0, <1>6, <2>3 DEF schedule_message
<1>7. ASSUME NEW obj, NEW outlet, NEW ts, NEW atoms, cancel_message(obj, outlet, ts, atoms)
      PROVE  IInv' /\ sent' >= sent
  BY <1>0, <1>7, CancelInvariant DEF cancel_message
<1>8. CASE UNCHANGED vars
  BY <1>0, <1>8 DEF vars, IInv, TypeOK, QueueOrdered, NumbersGiven, NothingBehind,
                    SentWithinBlock, BlocksLeft, Clamped, next_block_start_timestamp
<1> QED
  BY <1>1, <1>2, <1>3, <1>4, <1>5, <1>6, <1>7, <1>8
     DEF Next, Process, ScheduleBetweenBlocks, ScheduleFromObject, Cancel

LEMMA Invariance == Spec => []IInv
BY InitInvariant, NextInvariant, PTL DEF Spec

(***************************************************************************)
(* The queue holds at most its capacity of well-formed entries and the     *)
(* clock never leaves the natural numbers.                                 *)
(***************************************************************************)
THEOREM TypeCorrect == Spec => []TypeOK
<1>1. IInv => TypeOK
  BY DEF IInv
<1> QED  BY Invariance, <1>1, PTL

(***************************************************************************)
(* The queue is always in order of time, and of calls within one time.     *)
(***************************************************************************)
THEOREM QueueStaysOrdered == Spec => []QueueOrdered
<1>1. IInv => QueueOrdered
  BY DEF IInv
<1> QED  BY Invariance, <1>1, PTL

(***************************************************************************)
(* A message is sent inside the block during which it is sent.             *)
(***************************************************************************)
THEOREM SentInside == Spec => []SentWithinBlock
<1>1. IInv => SentWithinBlock
  BY DEF IInv
<1> QED  BY Invariance, <1>1, PTL

(***************************************************************************)
(* Messages are sent in order of time, over all the blocks.                *)
(***************************************************************************)
THEOREM InOrder == Spec => SendsInOrder
<1>1. IInv /\ [Next]_vars => [sent' >= sent]_vars
  BY NextInvariant
<1> QED  BY Invariance, <1>1, PTL DEF Spec, SendsInOrder

-----------------------------------------------------------------------------
(* The entry process pops is the one Agenda wants: due, and before the rest. *)
LEMMA PopIsSend == ASSUME IInv, PopMessage PROVE Clock!Send
<1>1. /\ queue # << >> /\ phase = "messages" /\ queue' = RemoveAt(queue, 1)
      /\ queue[1].ts < next_block_start_timestamp
      /\ current' = [queue[1] EXCEPT !.ts = Clamped(@)]
      /\ UNCHANGED block_start_timestamp
  BY DEF PopMessage, Due, First, Popped
<1>2. queue \in Seq(Entry) /\ Len(queue) \in Nat
  BY DEF IInv, TypeOK
<1>3. 1 \in 1..Len(queue)
  BY <1>1, <1>2, EmptySeq
<1>4. queue[1] \in Entries(queue) /\ Entries(queue)' = Entries(queue) \ {queue[1]}
  <2>1. queue[1] \in Entries(queue)
    BY <1>3 DEF Entries
  <2>2. Entries(queue)' = Entries(queue')
    BY DEF Entries
  <2> QED  BY <1>1, <1>3, <2>1, <2>2, RemoveEffect
<1>5. current = None
  BY <1>1 DEF IInv, TypeOK
<1>6. \A n \in Entries(queue) \ {queue[1]} : Clock!Before(queue[1], n)
  <2> TAKE n \in Entries(queue) \ {queue[1]}
  <2>1. PICK k \in 1..Len(queue) : n = queue[k] /\ k # 1
    BY DEF Entries
  <2>2. Before(queue[1], queue[k])
    BY <1>2, <1>3, <2>1 DEF IInv, QueueOrdered, Ordered
  <2> QED  BY <2>1, <2>2 DEF Before, Clock!Before
<1>7. Clock!Due(queue[1])
  BY <1>1 DEF Clock!Due, next_block_start_timestamp
<1>8. current' = [queue[1] EXCEPT !.ts = IF @ < block_start_timestamp
                                           THEN block_start_timestamp ELSE @]
  BY <1>1 DEF Clamped
<1> QED  BY <1>1, <1>4, <1>5, <1>6, <1>7, <1>8 DEF Clock!Send

(* When the loop of process ends, no entry anywhere in the queue is due. *)
LEMMA EndIsNextBlock == ASSUME IInv, ProcessEnd PROVE Clock!NextBlock
<1>1. /\ phase = "messages" /\ ~Due
      /\ block_start_timestamp' = block_start_timestamp + block_duration
      /\ UNCHANGED <<queue, current>>
  BY DEF ProcessEnd, next_block_start_timestamp
<1>2. queue \in Seq(Entry) /\ Len(queue) \in Nat
      /\ block_start_timestamp + block_duration \in Nat
  BY DurationType DEF IInv, TypeOK
<1>3. ASSUME NEW k \in 1..Len(queue) PROVE ~Clock!Due(queue[k])
  <2>1. 1 \in 1..Len(queue) /\ queue # << >>
    BY <1>2
  <2>2. queue[1].ts \in Nat /\ queue[k].ts \in Nat
    BY <1>2, <2>1, ElementOfSeq, EntryFields
  <2>3. ~(queue[1].ts < block_start_timestamp + block_duration)
    BY <1>1, <2>1 DEF Due, First, next_block_start_timestamp
  <2>4. queue[1].ts <= queue[k].ts
    <3>1. CASE k = 1  BY <2>2, <3>1
    <3>2. CASE 1 < k
      <4>1. Before(queue[1], queue[k])
        BY <2>1, <3>2 DEF IInv, QueueOrdered, Ordered
      <4> QED  BY <2>2, <4>1 DEF Before
    <3> QED  BY <3>1, <3>2
  <2> QED  BY <1>2, <2>2, <2>3, <2>4 DEF Clock!Due
<1>4. current = None
  BY <1>1 DEF IInv, TypeOK
<1>5. UNCHANGED Entries(queue)
  BY <1>1
<1> QED  BY <1>1, <1>3, <1>4, <1>5 DEF Clock!NextBlock, Entries

LEMMA ScheduleIsSchedule ==
  ASSUME IInv, NEW obj \in Objects, NEW outlet \in Outlets, NEW atoms \in AtomLists,
         NEW ts, schedule_message(obj, outlet, atoms, ts),
         current # None => ts >= current.ts
  PROVE  [Clock!Next]_(Clock!vars)
<1>1. UNCHANGED <<block_start_timestamp, current>>
  BY DEF schedule_message
<1>2. queue \in Seq(Entry)
  BY DEF IInv, TypeOK
<1>3. CASE queue' = queue
  BY <1>1, <1>3 DEF Clock!vars, Entries
<1>4. ASSUME NEW new \in Entry, new.ts = ts,
             \A j \in 1..Len(queue) : queue[j].id < new.id,
             queue' = InsertAt(queue, InsertPosition(queue, ts), new),
             InsertPosition(queue, ts) \in 1..Len(queue) + 1
      PROVE  Clock!Schedule
  <2>1. Entries(queue)' = Entries(queue) \cup {new}
    <3>1. Entries(queue)' = Entries(queue')
      BY DEF Entries
    <3> QED  BY <1>2, <1>4, <3>1, InsertAtEntries
  <2>2. \A n \in Entries(queue) : n.id < new.id
    BY <1>4 DEF Entries
  <2> QED  BY <1>1, <1>4, <2>1, <2>2 DEF Clock!Schedule
<1> QED  BY <1>3, <1>4, ScheduleEffect DEF Clock!Next

LEMMA CancelIsCancel ==
  ASSUME IInv, NEW obj, NEW outlet, NEW ts, NEW atoms,
         cancel_message(obj, outlet, ts, atoms)
  PROVE  [Clock!Next]_(Clock!vars)
<1>1. UNCHANGED <<block_start_timestamp, current>>
  BY DEF cancel_message
<1>2. queue \in Seq(Entry)
  BY DEF IInv, TypeOK
<1>3. CASE queue' = queue
  BY <1>1, <1>3 DEF Clock!vars, Entries
<1>4. ASSUME NEW p \in 1..Len(queue), queue' = RemoveAt(queue, p)
      PROVE  Clock!Cancel
  <2>1. Entries(queue)' = Entries(queue) \ {queue[p]}
    <3>1. Entries(queue)' = Entries(queue')
      BY DEF Entries
    <3>2. Entries(RemoveAt(queue, p)) = Entries(queue) \ {queue[p]}
      BY RemoveEffect
    <3> QED  BY <1>4, <3>1, <3>2
  <2>2. queue[p] \in Entries(queue)
    BY DEF Entries
  <2> QED  BY <1>1, <2>1, <2>2 DEF Clock!Cancel
<1> QED  BY <1>2, <1>3, <1>4, RemoveMessageIs DEF cancel_message, Clock!Next

(***************************************************************************)
(* The context, with its queue, loop and clamp, implements Agenda.         *)
(***************************************************************************)
THEOREM Refinement == Spec => ImplementsAgenda
<1>1. Init => Clock!Init
  BY DEF Init, Clock!Init, Entries
<1>2. IInv /\ [Next]_vars => [Clock!Next]_(Clock!vars)
  <2> SUFFICES ASSUME IInv, [Next]_vars PROVE [Clock!Next]_(Clock!vars)
    OBVIOUS
  <2>1. CASE ProcessBegin
    BY <2>1 DEF ProcessBegin, Clock!vars, Entries
  <2>2. CASE PopMessage
    BY <2>2, PopIsSend DEF Clock!Next
  <2>3. CASE SendDone
    <3>1. current # None /\ current' = None /\ UNCHANGED <<block_start_timestamp, queue>>
      BY <2>3, NoneAssumption DEF IInv, TypeOK, SendDone
    <3> QED  BY <3>1 DEF Clock!Next, Clock!Sent, Entries
  <2>4. CASE ProcessEnd
    BY <2>4, EndIsNextBlock DEF Clock!Next
  <2>5. CASE ScheduleBetweenBlocks
    <3>1. current = None
      BY <2>5 DEF ScheduleBetweenBlocks, IInv, TypeOK
    <3> QED  BY <2>5, <3>1, ScheduleIsSchedule DEF ScheduleBetweenBlocks
  <2>6. CASE ScheduleFromObject
    <3>1. PICK obj \in Objects, outlet \in Outlets, atoms \in AtomLists, d \in Delays :
            schedule_message(obj, outlet, atoms, current.ts + d)
      BY <2>6 DEF ScheduleFromObject
    <3>2. current.ts \in Nat /\ d \in Nat
      BY <2>6, ContextAssumption DEF ScheduleFromObject, IInv, TypeOK, SentMessage
    <3>3. current.ts + d >= current.ts
      BY <3>2
    <3> QED  BY <3>1, <3>3, ScheduleIsSchedule
  <2>7. CASE Cancel
    BY <2>7, CancelIsCancel DEF Cancel
  <2>8. CASE UNCHANGED vars
    BY <2>8 DEF vars, Clock!vars, Entries
  <2> QED
    BY <2>1, <2>2, <2>3, <2>4, <2>5, <2>6, <2>7, <2>8 DEF Next, Process
<1> QED  BY <1>1, <1>2, Invariance, PTL DEF Spec, ImplementsAgenda, Clock!Spec

-----------------------------------------------------------------------------
(***************************************************************************)
(* The inductive invariant.  The messages that the context sent, and only  *)
(* those, are known to be in order and not later than the last one sent:   *)
(* that is what keeps the cuts inside the block and in order.              *)
(***************************************************************************)
DspTypeOK ==
  /\ messageQueue \in Seq(Nat)
  /\ process_function \in {"default", "message", "scalar", "signal"}
  /\ switched \in BOOLEAN
  /\ fromHost \in BOOLEAN /\ asleep \in BOOLEAN

ArrivedInOrder ==
  /\ \A j, k \in 1..Len(messageQueue) : j < k => messageQueue[j] <= messageQueue[k]
  /\ \A j \in 1..Len(messageQueue) : messageQueue[j] <= sent

\* the function for two signals is that of an object with two, and of no other
WiredFunction == signals = {0, 1} <=> process_function = "signal"

DspInv == DspTypeOK /\ AwakeWithMessages /\ WiredFunction /\ (~fromHost => ArrivedInOrder)

-----------------------------------------------------------------------------
(* Rounding a time within the block to a sample. *)

LEMMA CeilIs ==
  ASSUME NEW a \in Int
  PROVE  Ceil(a, 1000) \in Int /\ 1000 * (Ceil(a, 1000) - 1) < a /\ a <= 1000 * Ceil(a, 1000)
<1> DEFINE c == (-a) \div 1000
<1>1. c \in Int /\ 1000 * c <= -a /\ -a < 1000 * (c + 1)
  OBVIOUS
<1>2. Ceil(a, 1000) = -c
  BY DEF Ceil
<1> HIDE DEF c
<1> QED  BY <1>1, <1>2

LEMMA DivBelow ==
  ASSUME NEW a \in Nat, NEW b \in Nat \ {0}
  PROVE  (a \div b) * b <= a
OBVIOUS

LEMMA TimesMonotone ==
  ASSUME NEW x \in Int, NEW y \in Int, NEW r \in Nat, x <= y
  PROVE  x * r \in Int /\ y * r \in Int /\ x * r <= y * r
OBVIOUS

(* The sample of a time inside the block is inside it, or at its end. *)
LEMMA BlockIndexIs ==
  ASSUME TypeOK, NEW ts \in Nat, block_start_timestamp <= ts, ts <= next_block_start_timestamp
  PROVE  BlockIndex(ts) \in 0..BlockSize
<1> DEFINE x == ts - block_start_timestamp
           a == x * SampleRate
           c == BlockIndex(ts)
<1>0. block_start_timestamp \in Nat /\ SampleRate \in Nat \ {0} /\ BlockSize \in Nat
      /\ block_duration \in Nat
  BY ContextAssumption, DurationType DEF TypeOK
<1>1. x \in Nat /\ x <= block_duration
  BY <1>0 DEF next_block_start_timestamp
<1>2. block_duration * SampleRate <= BlockSize * 1000
  BY <1>0, DivBelow DEF block_duration
<1>3. c = Ceil(a, 1000)
  BY DEF BlockIndex
<1> HIDE DEF x, c
<1>4. a \in Int /\ 0 <= a /\ a <= block_duration * SampleRate
  <2>1. 0 * SampleRate = 0
    BY <1>0
  <2> QED  BY <1>0, <1>1, <2>1, TimesMonotone
<1> HIDE DEF a
<1>5. c \in Int /\ 1000 * (c - 1) < a /\ a <= 1000 * c
  BY <1>3, <1>4, CeilIs
<1>6. block_duration * SampleRate \in Int
  BY <1>0
<1>7. c \in 0..BlockSize
  BY <1>0, <1>2, <1>4, <1>5, <1>6
<1> QED  BY <1>7 DEF c

(* And a later time is not at an earlier sample. *)
LEMMA BlockIndexMonotone ==
  ASSUME TypeOK, NEW s \in Nat, NEW t \in Nat, s <= t
  PROVE  BlockIndex(s) <= BlockIndex(t)
<1> DEFINE a == (s - block_start_timestamp) * SampleRate
           b == (t - block_start_timestamp) * SampleRate
<1>0. block_start_timestamp \in Nat /\ SampleRate \in Nat
  BY ContextAssumption DEF TypeOK
<1>1. a \in Int /\ b \in Int /\ a <= b
  <2>1. s - block_start_timestamp \in Int /\ t - block_start_timestamp \in Int
        /\ s - block_start_timestamp <= t - block_start_timestamp
    BY <1>0
  <2> QED  BY <1>0, <2>1, TimesMonotone
<1>2. BlockIndex(s) = Ceil(a, 1000) /\ BlockIndex(t) = Ceil(b, 1000)
  BY DEF BlockIndex
<1> HIDE DEF a, b
<1>3. /\ Ceil(a, 1000) \in Int /\ 1000 * (Ceil(a, 1000) - 1) < a
      /\ Ceil(b, 1000) \in Int /\ b <= 1000 * Ceil(b, 1000)
  BY <1>1, CeilIs
<1> HIDE DEF Ceil
<1> QED  BY <1>1, <1>2, <1>3

LEMMA TableIsASeq ==
  ASSUME NEW n \in Nat, NEW S, NEW f \in [1..n -> S]
  PROVE  f \in Seq(S) /\ Len(f) = n
<1>1. \A i \in 1..n : f[i] \in S
  OBVIOUS
<1>2. [i \in 1..n |-> f[i]] \in Seq(S)
  BY <1>1, IsASeq
<1>3. f \in Seq(S)
  BY <1>2
<1> QED  BY <1>3, LenProperties

(* The block cut at messages that are in order and inside it is whole. *)
LEMMA CutTiles ==
  ASSUME TypeOK, NEW q \in Seq(Nat), NEW fn, q # << >>,
         \A j, k \in 1..Len(q) : j < k => q[j] <= q[k],
         \A j \in 1..Len(q) : block_start_timestamp <= q[j] /\ q[j] <= next_block_start_timestamp
  PROVE  Tiles(Cut(fn, q))
<1> DEFINE n == Len(q)
           b(j) == BlockIndex(q[j])
           rs == Cut(fn, q)
<1>1. n \in Nat /\ n >= 1 /\ \A j \in 1..n : q[j] \in Nat
  BY EmptySeq, ElementOfSeq, LenProperties
<1>2. BlockSize \in Nat
  BY ContextAssumption
<1>3. \A j \in 1..n : b(j) \in 0..BlockSize
  BY <1>1, BlockIndexIs
<1>4. \A j, k \in 1..n : j < k => b(j) <= b(k)
  BY <1>1, BlockIndexMonotone
<1>5. rs = [k \in 1..n + 1 |-> Samples(fn, IF k = 1 THEN 0 ELSE b(k - 1),
                                          IF k > n THEN BlockSize ELSE b(k))]
  BY DEF Cut
<1> HIDE DEF n, b, rs
<1>6. \A k \in 1..n + 1 : /\ rs[k].from = IF k = 1 THEN 0 ELSE b(k - 1)
                          /\ rs[k].to = IF k > n THEN BlockSize ELSE b(k)
  BY <1>5 DEF Samples
<1>7. DOMAIN rs = 1..n + 1 /\ n + 1 \in Nat
  BY <1>1, <1>5
<1>8. Len(rs) = n + 1 /\ rs # << >>
  <2>1. rs \in [1..n + 1 -> {rs[k] : k \in 1..n + 1}]
    BY <1>5, <1>7
  <2>2. rs \in Seq({rs[k] : k \in 1..n + 1}) /\ Len(rs) = n + 1
    BY <1>7, <2>1, TableIsASeq
  <2> QED  BY <1>1, <2>2, EmptySeq
<1>9. \A k \in 1..n + 1 : rs[k].from <= rs[k].to
  <2> TAKE k \in 1..n + 1
  <2>1. CASE k = 1
    BY <1>1, <1>2, <1>3, <1>6, <2>1
  <2>2. CASE k # 1 /\ k <= n
    <3>1. k - 1 \in 1..n /\ k \in 1..n /\ k - 1 < k
      BY <1>1, <2>2
    <3> QED  BY <1>1, <1>4, <1>6, <2>2, <3>1
  <2>3. CASE k > n
    <3>1. k - 1 \in 1..n /\ k # 1
      BY <1>1, <2>3
    <3> QED  BY <1>2, <1>3, <1>6, <2>3, <3>1
  <2> QED  BY <1>1, <2>1, <2>2, <2>3
<1>10. \A k \in 1..n : rs[k].to = rs[k + 1].from
  <2> TAKE k \in 1..n
  <2>1. k \in 1..n + 1 /\ k + 1 \in 1..n + 1 /\ ~(k > n) /\ k + 1 # 1 /\ (k + 1) - 1 = k
    BY <1>1
  <2>2. rs[k].to = b(k)
    BY <1>6, <2>1
  <2>3. rs[k + 1].from = b((k + 1) - 1)
    BY <1>6, <2>1
  <2> QED  BY <2>1, <2>2, <2>3
<1>11. rs[1].from = 0 /\ rs[Len(rs)].to = BlockSize
  BY <1>1, <1>6, <1>8
<1>12. 1..Len(rs) = 1..n + 1 /\ 1..Len(rs) - 1 = 1..n
  BY <1>1, <1>8
<1> QED  BY <1>8, <1>9, <1>10, <1>11, <1>12 DEF Tiles, rs

-----------------------------------------------------------------------------
(* The object does not disturb the context. *)

LEMMA DspStepIsContextStep == [DspNext]_allVars => [Next]_vars
BY DEF DspNext, ContextNext, ProcessGraph, ReceiveInBlock, ReceiveFromHost, Receive, SetSwitch,
       Reconnect, Next, Process, allVars

LEMMA ContextHolds == DspSpec => []IInv
<1>1. DspInit => Init
  BY DEF DspInit
<1> QED  BY <1>1, DspStepIsContextStep, Invariance, PTL DEF DspSpec, Spec

LEMMA DspInitInvariant == DspInit => DspInv
<1> SUFFICES ASSUME DspInit PROVE DspInv
  OBVIOUS
<1>1. messageQueue = << >> /\ messageQueue \in Seq(Nat) /\ 1..Len(messageQueue) = {}
  BY EmptySeq DEF DspInit
<1>2. process_function \in {"default", "scalar", "signal"} /\ switched = TRUE
      /\ fromHost = FALSE /\ asleep = FALSE /\ WiredFunction
  BY DEF DspInit, ConnectedFunction, WiredFunction
<1> QED  BY <1>1, <1>2 DEF DspInv, DspTypeOK, AwakeWithMessages, ArrivedInOrder

(* A message that is queued: in the block, or between blocks. *)
LEMMA ReceiveKeeps ==
  ASSUME DspInv, sent \in Nat, NEW ts \in Nat, Receive(ts),
         fromHost' \in BOOLEAN,
         ~fromHost' /\ switched => ts = sent /\ ~fromHost,
         ~fromHost' => ~fromHost
  PROVE  DspInv'
<1>1. sent' = sent /\ switched' = switched /\ signals' = signals
  BY DEF Receive, vars
<1>2. CASE ~switched
  <2>1. UNCHANGED <<messageQueue, process_function, asleep>>
    BY <1>2 DEF Receive
  <2> QED  BY <1>1, <2>1 DEF DspInv, DspTypeOK, AwakeWithMessages, Deaf, WiredFunction,
                                   ArrivedInOrder
<1>3. CASE switched
  <2>1. /\ messageQueue' = Append(messageQueue, ts)
        /\ process_function' = IF process_function = process_functionNoMessage
                                 THEN "message" ELSE process_function
        /\ asleep' = FALSE
    BY <1>3 DEF Receive
  <2>2. /\ messageQueue' \in Seq(Nat) /\ messageQueue' # << >>
        /\ Len(messageQueue') = Len(messageQueue) + 1 /\ Len(messageQueue) \in Nat
        /\ \A j \in 1..Len(messageQueue) : messageQueue'[j] = messageQueue[j]
        /\ messageQueue'[Len(messageQueue) + 1] = ts
    <3>1. messageQueue \in Seq(Nat) /\ Len(messageQueue) \in Nat
      BY LenProperties DEF DspInv, DspTypeOK
    <3>2. /\ messageQueue' \in Seq(Nat) /\ Len(messageQueue') = Len(messageQueue) + 1
          /\ \A j \in 1..Len(messageQueue) : messageQueue'[j] = messageQueue[j]
          /\ messageQueue'[Len(messageQueue) + 1] = ts
      BY <2>1, <3>1, AppendProperties
    <3>3. Len(<< >>) = 0
      BY EmptySeq
    <3>4. messageQueue' # << >>
      BY <3>1, <3>2, <3>3
    <3> QED  BY <3>1, <3>2, <3>4
  <2>3. DspTypeOK'
    BY <1>1, <1>3, <2>1, <2>2 DEF DspInv, DspTypeOK
  <2>4. AwakeWithMessages' /\ WiredFunction'
    BY <1>1, <2>1, <2>2 DEF DspInv, DspTypeOK, AwakeWithMessages, Deaf, WiredFunction,
                            process_functionNoMessage
  <2>5. ASSUME ~fromHost' PROVE ArrivedInOrder'
    <3> DEFINE n == Len(messageQueue)
    <3>1. ts = sent /\ ArrivedInOrder
      BY <1>3, <2>5 DEF DspInv
    <3>2. \A j \in 1..n + 1 : messageQueue'[j] <= sent
      <4> TAKE j \in 1..n + 1
      <4>1. j \in 1..n \/ j = n + 1
        BY <2>2
      <4> QED  BY <2>2, <3>1, <4>1 DEF ArrivedInOrder
    <3>3. \A j, k \in 1..n + 1 : j < k => messageQueue'[j] <= messageQueue'[k]
      <4> SUFFICES ASSUME NEW j \in 1..n + 1, NEW k \in 1..n + 1, j < k
                   PROVE  messageQueue'[j] <= messageQueue'[k]
        OBVIOUS
      <4>1. j \in 1..n /\ (k \in 1..n \/ k = n + 1)
        BY <2>2
      <4> QED  BY <2>2, <3>1, <4>1 DEF ArrivedInOrder
    <3>4. 1..Len(messageQueue') = 1..n + 1
      BY <2>2
    <3> QED  BY <1>1, <3>2, <3>3, <3>4 DEF ArrivedInOrder
  <2> QED  BY <2>3, <2>4, <2>5 DEF DspInv
<1> QED  BY <1>2, <1>3

(* Steps that leave the object's messages where they are. *)
LEMMA QueueStays ==
  ASSUME DspInv, sent \in Nat, sent' \in Nat, sent' >= sent,
         UNCHANGED <<messageQueue, process_function, signals, fromHost, asleep>>, switched' \in BOOLEAN
  PROVE  DspInv'
<1>1. \A j \in 1..Len(messageQueue) : messageQueue[j] \in Nat
  BY ElementOfSeq DEF DspInv, DspTypeOK
<1>2. DspTypeOK' /\ AwakeWithMessages' /\ WiredFunction'
  BY DEF DspInv, DspTypeOK, AwakeWithMessages, Deaf, WiredFunction
<1>3. ASSUME ArrivedInOrder PROVE ArrivedInOrder'
  BY <1>1, <1>3 DEF ArrivedInOrder
<1> QED  BY <1>2, <1>3 DEF DspInv

LEMMA ProcessKeeps ==
  ASSUME IInv, DspInv, ProcessGraph
  PROVE  DspInv'
<1>1. sent' = sent /\ switched' = switched /\ signals' = signals /\ asleep' = asleep
      /\ fromHost' = (fromHost /\ messageQueue' # << >>)
  BY DEF ProcessGraph, ProcessEnd
<1>2. CASE UNCHANGED <<messageQueue, process_function>>
  <2>1. DspTypeOK'
    BY <1>1, <1>2 DEF DspInv, DspTypeOK
  <2>2. AwakeWithMessages' /\ WiredFunction'
    BY <1>1, <1>2 DEF DspInv, AwakeWithMessages, Deaf, WiredFunction
  <2>3. CASE fromHost /\ messageQueue # << >>
    BY <1>1, <1>2, <2>1, <2>2, <2>3 DEF DspInv
  <2>4. CASE fromHost /\ messageQueue = << >>
    <3>1. messageQueue' = << >> /\ 1..Len(messageQueue') = {}
      BY <1>2, <2>4, EmptySeq
    <3> QED  BY <2>1, <2>2, <3>1 DEF DspInv, ArrivedInOrder
  <2>5. CASE ~fromHost
    BY <1>1, <1>2, <2>1, <2>2, <2>5 DEF DspInv, ArrivedInOrder
  <2> QED  BY <2>3, <2>4, <2>5
<1>3. CASE /\ process_function = "message"
           /\ messageQueue' = << >> /\ process_function' = process_functionNoMessage
  <2>1. messageQueue' \in Seq(Nat) /\ 1..Len(messageQueue') = {}
    BY <1>3, EmptySeq
  <2>2. ~asleep'
    BY <1>1, <1>3 DEF DspInv, AwakeWithMessages
  <2> QED  BY <1>1, <1>3, <2>1, <2>2 DEF DspInv, DspTypeOK, AwakeWithMessages, Deaf, WiredFunction,
                                         ArrivedInOrder, process_functionNoMessage
<1> QED  BY <1>2, <1>3 DEF ProcessGraph, ProcessObject

LEMMA ReconnectKeeps ==
  ASSUME IInv, DspInv, Reconnect
  PROVE  DspInv'
<1>1. /\ process_function' = (IF signals' = {0, 1} THEN "signal" ELSE "scalar")
      /\ switched' = switched
      /\ messageQueue' = messageQueue /\ asleep' = (messageQueue # << >>)
      /\ UNCHANGED <<fromHost, sent>>
  BY DEF Reconnect, ConnectedFunction, vars
<1>2. DspTypeOK' /\ AwakeWithMessages' /\ WiredFunction'
  BY <1>1 DEF DspInv, DspTypeOK, AwakeWithMessages, Deaf, WiredFunction
<1>3. ASSUME ~fromHost' PROVE ArrivedInOrder'
  BY <1>1, <1>3 DEF DspInv, ArrivedInOrder
<1> QED  BY <1>2, <1>3 DEF DspInv

LEMMA DspNextInvariant == IInv /\ DspInv /\ [DspNext]_allVars => DspInv'
<1> SUFFICES ASSUME IInv, DspInv, [DspNext]_allVars PROVE DspInv'
  OBVIOUS
<1>1. sent \in Nat /\ sent' \in Nat /\ sent' >= sent
  <2>1. IInv' /\ sent' >= sent
    BY DspStepIsContextStep, NextInvariant
  <2> QED  BY <2>1 DEF IInv, TypeOK
<1>2. switched \in BOOLEAN
  BY DEF DspInv, DspTypeOK
<1>3. CASE ContextNext \/ SetSwitch \/ UNCHANGED allVars
  <2>1. UNCHANGED <<messageQueue, process_function, signals, fromHost, asleep>> /\ switched' \in BOOLEAN
    BY <1>2, <1>3 DEF ContextNext, SetSwitch, allVars, dspVars
  <2> QED  BY <1>1, <2>1, QueueStays
<1>4. CASE ProcessGraph
  BY <1>4, ProcessKeeps
<1>5. CASE ReceiveInBlock
  <2>1. phase = "send" /\ Receive(current.ts) /\ fromHost' = fromHost
    BY <1>5 DEF ReceiveInBlock
  <2>2. current.ts = sent
    BY <2>1 DEF IInv, NothingBehind
  <2> QED  BY <1>1, <2>1, <2>2, ReceiveKeeps DEF DspInv, DspTypeOK
<1>6. CASE ReceiveFromHost
  <2>1. PICK ts \in Times : Receive(ts)
    BY <1>6 DEF ReceiveFromHost
  <2>2. fromHost' = (fromHost \/ switched) /\ ts \in Nat
    BY <1>6, ContextAssumption DEF ReceiveFromHost, Times
  <2> QED  BY <1>1, <1>2, <2>1, <2>2, ReceiveKeeps DEF DspInv, DspTypeOK
<1>7. CASE Reconnect
  BY <1>7, ReconnectKeeps
<1> QED  BY <1>3, <1>4, <1>5, <1>6, <1>7 DEF DspNext

LEMMA DspInvariance == DspSpec => [](IInv /\ DspInv)
<1>1. DspSpec => DspInit /\ [][DspNext]_allVars
  BY DEF DspSpec
<1> QED  BY <1>1, ContextHolds, DspInitInvariant, DspNextInvariant, PTL

-----------------------------------------------------------------------------
(***************************************************************************)
(* The object takes the function for blocks with messages exactly when one *)
(* waits (DspObject.cpp, receive_message and process_functionMessage), but *)
(* for an object with signals at both inlets or never connected, at which  *)
(* messages wait unheard, and for one that was rewired over a message,     *)
(* which sleeps until the next one comes.                                  *)
(***************************************************************************)
THEOREM WakesForMessages == DspSpec => []AwakeWithMessages
<1>1. DspInv => AwakeWithMessages
  BY DEF DspInv
<1> QED  BY <1>1, DspInvariance, PTL

(***************************************************************************)
(* A block that is cut at the messages of the context is processed from    *)
(* its first sample to its last, without a gap or an overlap, for every    *)
(* length of block and sample rate, those whose block is not a whole       *)
(* number of milliseconds, or shorter than one, among them.                *)
(***************************************************************************)
THEOREM NoSampleSkipped == DspSpec => BlockIsTiled
<1> DEFINE Whole == ProcessEnd /\ switched /\ ~Stale /\ ~fromHost => Tiles(ranges')
<1>1. ASSUME IInv, DspInv, DspNext PROVE Whole
  <2> SUFFICES ASSUME ProcessEnd, switched, ~Stale, ~fromHost
               PROVE  Tiles(ranges')
    OBVIOUS
  <2>1. ProcessGraph
    BY <1>1 DEF DspNext, ContextNext, ProcessBegin, PopMessage, SendDone, ProcessEnd,
                ScheduleBetweenBlocks, ScheduleFromObject, Cancel, Receive, ReceiveInBlock,
                ReceiveFromHost, SetSwitch, Reconnect, vars
  <2>2. BlockSize \in Nat /\ TypeOK
    BY <1>1, ContextAssumption DEF IInv
  <2>3. CASE process_function # "message"
    <3>1. ranges' = << Samples(process_function, 0, BlockSize) >>
      BY <2>1, <2>3 DEF ProcessGraph, ProcessObject
    <3> QED  BY <2>2, <3>1 DEF Tiles, Samples
  <2>4. CASE process_function = "message"
    <3>1. ranges' = Cut(process_functionNoMessage, messageQueue)
      BY <2>1, <2>4 DEF ProcessGraph, ProcessObject
    <3>2. messageQueue \in Seq(Nat) /\ messageQueue # << >> /\ ArrivedInOrder
      BY <1>1, <2>4 DEF DspInv, DspTypeOK, AwakeWithMessages
    <3>3. messageQueue[1] >= block_start_timestamp
      <4>1. messageQueue[1] \in Nat /\ block_start_timestamp \in Nat
        BY <2>2, <3>2, EmptySeq, ElementOfSeq DEF TypeOK
      <4> QED  BY <3>2, <4>1 DEF Stale
    <3>4. sent <= next_block_start_timestamp
      BY <1>1 DEF IInv, NothingBehind, ProcessEnd
    <3>5. \A j \in 1..Len(messageQueue) :
            block_start_timestamp <= messageQueue[j] /\ messageQueue[j] <= next_block_start_timestamp
      <4> TAKE j \in 1..Len(messageQueue)
      <4>1. messageQueue[j] \in Nat /\ messageQueue[1] \in Nat /\ 1 \in 1..Len(messageQueue)
        BY <3>2, EmptySeq, ElementOfSeq
      <4>2. j = 1 \/ 1 < j
        BY <3>2
      <4>3. messageQueue[1] <= messageQueue[j] /\ messageQueue[j] <= sent
        BY <3>2, <4>1, <4>2 DEF ArrivedInOrder
      <4>4. sent \in Nat /\ block_start_timestamp \in Nat /\ next_block_start_timestamp \in Nat
        BY <1>1, DurationType DEF IInv, TypeOK, next_block_start_timestamp
      <4> QED  BY <3>3, <3>4, <4>1, <4>3, <4>4
    <3> QED  BY <2>2, <3>1, <3>2, <3>5, CutTiles DEF ArrivedInOrder
  <2> QED  BY <2>3, <2>4
<1> HIDE DEF Whole
<1>2. IInv /\ DspInv /\ [DspNext]_allVars => [Whole]_allVars
  BY <1>1
<1>3. DspSpec => [][DspNext]_allVars
  BY DEF DspSpec
<1>4. DspSpec => [][Whole]_allVars
  BY <1>2, <1>3, DspInvariance, PTL
<1> QED  BY <1>4 DEF BlockIsTiled, Whole
=============================================================================
