---------------------------- MODULE TimedObjects ----------------------------
(***************************************************************************)
(* metro, delay, pipe and line (src/MessageMetro.cpp, MessageDelay.cpp,    *)
(* MessagePipe.cpp, MessageLine.cpp) on the message queue of the context:  *)
(* the objects that schedule messages to themselves and keep pointers to   *)
(* them.  With them loadbang, which schedules one when it is made, and     *)
(* timer (MessageLoadbang.cpp, MessageTimer.cpp).                          *)
(*                                                                         *)
(* Everything runs in one thread, but not one after the other: an object   *)
(* sends its message to whatever the patch connects, and those objects     *)
(* may, before that call returns, send anything to any object, the sender  *)
(* included.  "stack" holds the sends under way.  A handler is one step up *)
(* to the send it makes; what it does after that is a later step.          *)
(*                                                                         *)
(* A pointer to a message is the number of the schedule_message call that  *)
(* made it, and the message is shared: set_timestamp through the pointer   *)
(* changes the entry in the queue.                                         *)
(***************************************************************************)
EXTENDS OrderedQueue, Integers, FiniteSets

CONSTANTS Metros, DelayObjects, Pipes, Lines, Loadbangs, Clocks,
          Patches,       \* the sets of objects that are tried together
          Intervals,     \* milliseconds an interval or a delay may be set to
          Arguments,     \* the interval or delay each object is created with
          Levels,        \* the values a line is sent to
          Bang,          \* the atom that is not a float
          PipeAtoms,     \* the messages that are put into pipes
          Tick,          \* milliseconds in a block
          MaxCalls,      \* bound: calls of schedule_message
          MaxBlocks,     \* bound: blocks processed, after which nothing is sent
          MaxDepth       \* bound: sends within sends

Timers == Metros \cup DelayObjects \cup Lines
Timed == Timers \cup Pipes \cup Loadbangs \cup Clocks

ASSUME TimedAssumption ==
  /\ MaxListSize \in Nat \ {0}
  /\ Intervals \subseteq Nat /\ Intervals # {}
  /\ Arguments \in [Timed -> Intervals]
  /\ Patches \subseteq SUBSET Timed
  /\ Levels \subseteq Int
  /\ Bang \notin Intervals
  /\ <<Bang>> \in PipeAtoms
  /\ Tick \in Nat \ {0} /\ MaxCalls \in Nat /\ MaxBlocks \in Nat /\ MaxDepth \in Nat
  /\ Metros \cap DelayObjects = {} /\ (Metros \cup DelayObjects) \cap Lines = {}
  /\ Timers \cap Pipes = {} /\ (Timers \cup Pipes) \cap (Loadbangs \cup Clocks) = {}
  /\ Loadbangs \cap Clocks = {} /\ IsFiniteSet(Loadbangs)

VARIABLES queue,       \* the context's message_callback_queue
          now,         \* its block_start_timestamp
          processing,  \* inside Context::process
          stack,       \* the sends under way, the innermost last: of which object, at
                       \* what time, and in a flush the place of the iterator
          pending,     \* pendingMessage of a metro or line, scheduledMessage of a delay
          held,        \* scheduledMessagesList of a pipe
          interval,    \* intervalInMs, delayMs, grainRate
          ramp,        \* currentValue, targetValue and slope of a line
          last,        \* lastMessageTimestamp of a line, timestampStart of a timer
          patch,       \* the objects there are
          calls,       \* history: calls of schedule_message so far
          blocks,      \* history: blocks processed so far
          started,     \* history: what a metro, delay or line was last told is not over
          undefined    \* the program has used a message or an iterator that is gone

objects == <<pending, held, interval, calls, started>>
ramps == <<ramp, last>>
vars == <<queue, now, processing, stack, objects, ramps, patch, blocks, undefined>>

NULL == 0

\* the constructor of a loadbang schedules a bang, at a time that is over
LoadbangCall(o, k) == [obj |-> o, outlet |-> 0, ts |-> 0, atoms |-> <<Bang>>, id |-> k]

Init ==
  /\ patch \in Patches
  /\ LET loadbangs == Loadbangs \cap patch
         n         == Cardinality(loadbangs)
     IN  \E made \in [1..n -> loadbangs] :    \* in the order of their creation
           /\ \A j, k \in 1..n : made[j] = made[k] => j = k
           /\ queue = [k \in 1..n |-> LoadbangCall(made[k], k)]
           /\ calls = n
  /\ now = 0
  /\ processing = FALSE
  /\ stack = << >>
  /\ pending = [o \in Timers |-> NULL]
  /\ held = [p \in Pipes |-> << >>]
  /\ interval = Arguments
  /\ ramp = [l \in Lines |-> [current |-> 0, target |-> 0, slope |-> 0]]
  /\ last = [o \in Lines \cup Clocks |-> 0]
  /\ blocks = 0
  /\ started = [o \in Timers |-> FALSE]
  /\ undefined = FALSE

-----------------------------------------------------------------------------
(* The context's queue, through PdGraph::schedule_message and cancel_message *)

Schedule(q, o, ts, atoms) ==
  InsertMessage(q, [obj |-> o, outlet |-> 0, ts |-> ts, atoms |-> atoms, id |-> calls + 1])

Live(q, id) == \E j \in 1..Len(q) : q[j].id = id
At(q, id) == CHOOSE j \in 1..Len(q) : q[j].id = id

\* the queue compares what the messages say, not the pointers
CancelPointer(q, id) ==
  IF Live(q, id)
    THEN LET m == q[At(q, id)] IN RemoveMessage(q, m.obj, 0, m.ts, m.atoms)
    ELSE q

SetTimestamp(q, id, ts) == [q EXCEPT ![At(q, id)].ts = ts]

Top == stack[Len(stack)]
Returned == SubSeq(stack, 1, Len(stack) - 1)

\* the times of the messages that may arrive: between blocks the host gives any,
\* and an object reached by the innermost send passes that one on; none after the
\* last block, when no block is left to hear of it
Arrivals ==
  CASE undefined \/ blocks = MaxBlocks \/ (processing /\ stack = << >>) -> {}
    [] ~undefined /\ blocks # MaxBlocks /\ stack # << >> -> {Top.at}
    [] OTHER -> 0..now + Tick - 1

Push(o, ts, it) ==
  /\ Len(stack) < MaxDepth
  /\ stack' = Append(stack, [obj |-> o, at |-> ts, it |-> it])

Flushing(p) == \E j \in 1..Len(stack) : stack[j].obj = p /\ stack[j].it > 0

SetInterval(o, ms) ==
  /\ interval' = [interval EXCEPT ![o] = ms]
  /\ UNCHANGED <<now, processing, stack, held, calls, blocks, undefined>>

-----------------------------------------------------------------------------
(* metro and delay *)

\* mutant: one interval from the beginning of the block
RearmFromBlock(q, o, ts, atoms) ==
  /\ calls < MaxCalls
  /\ queue' = Schedule(q, o, now + interval[o], atoms)
  /\ pending' = [pending EXCEPT ![o] = calls + 1]
  /\ calls' = calls + 1

\* schedule a message one interval from ts, in the queue q, and keep its pointer
Rearm(q, o, ts, atoms) ==
  /\ calls < MaxCalls
  /\ queue' = Schedule(q, o, ts + interval[o], atoms)
  /\ pending' = [pending EXCEPT ![o] = calls + 1]
  /\ calls' = calls + 1

Disarmed(o) == IF pending[o] = NULL THEN queue ELSE CancelPointer(queue, pending[o])

\* a bang or a float that is not 0: startMetro, with send_message's own schedule
MetroStart(m, ts) ==
  /\ Rearm(Disarmed(m), m, ts, <<Bang>>)
  /\ Push(m, ts, 0)
  /\ started' = [started EXCEPT ![m] = TRUE]
  /\ UNCHANGED <<now, processing, held, interval, blocks, undefined>>

\* a bang, a float, or a symbol other than "stop": nothing is sent now
DelayStart(d, ts) ==
  /\ Rearm(Disarmed(d), d, ts, <<Bang>>)
  /\ started' = [started EXCEPT ![d] = TRUE]
  /\ UNCHANGED <<now, processing, stack, held, interval, blocks, undefined>>

\* mutant: the pointer is dropped, the message stays
TimerStopForgets(o, ts) ==
  /\ pending' = [pending EXCEPT ![o] = NULL]
  /\ started' = [started EXCEPT ![o] = FALSE]
  /\ UNCHANGED <<queue, now, processing, stack, held, interval, calls, blocks, undefined>>

\* "stop", to a metro also 0: stopMetro, cancelScheduledMessageIfExists, and to a
\* line, which keeps its value: cancelPendingMessage
TimerStop(o, ts) ==
  /\ queue' = Disarmed(o)
  /\ pending' = [pending EXCEPT ![o] = NULL]
  /\ started' = [started EXCEPT ![o] = FALSE]
  /\ UNCHANGED <<now, processing, stack, held, interval, calls, blocks, undefined>>

\* a float to the right inlet of a metro or line counts from the next message on
MetroSet(m, ts, ms) ==
  /\ SetInterval(m, ms)
  /\ UNCHANGED <<queue, pending, started>>

\* a float to the right inlet of a delay cancels what is scheduled
DelaySet(d, ts, ms) ==
  /\ SetInterval(d, ms)
  /\ queue' = Disarmed(d)
  /\ pending' = [pending EXCEPT ![d] = NULL]
  /\ started' = [started EXCEPT ![d] = FALSE]

-----------------------------------------------------------------------------
(* line, timer                                                             *)

Ramp(current, target, slope) == [current |-> current, target |-> target, slope |-> slope]

\* mutant: a new ramp starts from the value that was sent last
ValueSentLast(l, ts) == ramp[l].current

\* the value at ts: between two messages, along the slope from the last one sent
ValueAt(l, ts) ==
  IF pending[l] = NULL THEN ramp[l].current
  ELSE ramp[l].current + (ts - last[l]) * ramp[l].slope

OnTheWay(r) == (r.slope > 0 /\ r.current < r.target) \/ (r.slope < 0 /\ r.current > r.target)

(***************************************************************************)
(* send_message, of the value of r at ts, in the queue q: when the target  *)
(* is not reached the next message is scheduled before this one is sent.   *)
(***************************************************************************)
LineSends(q, l, ts, r) ==
  /\ last' = [last EXCEPT ![l] = ts]
  /\ \/ /\ OnTheWay(r)
        /\ Rearm(q, l, ts, <<r.current + r.slope * interval[l]>>)
        /\ ramp' = [ramp EXCEPT ![l] = r]
        /\ started' = [started EXCEPT ![l] = TRUE]
     \/ /\ ~OnTheWay(r)
        /\ ramp' = [ramp EXCEPT ![l] = IF r.slope = 0 THEN r ELSE [r EXCEPT !.current = r.target]]
        /\ queue' = q
        /\ pending' = [pending EXCEPT ![l] = NULL]
        /\ started' = [started EXCEPT ![l] = FALSE]
        /\ UNCHANGED calls

\* a float: the line is there at once
LineJump(l, ts, x) ==
  /\ LineSends(Disarmed(l), l, ts, Ramp(x, x, ramp[l].slope))
  /\ Push(l, ts, 0)
  /\ UNCHANGED <<now, processing, held, interval, blocks, undefined>>

\* "set": the same without a message; the target stays
LineSet(l, ts, x) ==
  /\ TimerStop(l, ts)
  /\ ramp' = [ramp EXCEPT ![l].current = x]
  /\ UNCHANGED last

\* a target and a duration; slopes are kept to whole numbers, which is a bound
LineRamp(l, ts, x, duration) ==
  LET way == x - ValueAt(l, ts)
      r   == Ramp(ValueAt(l, ts), x, way \div duration)
  IN  /\ way # 0 /\ way % duration = 0
      /\ LineSends(Disarmed(l), l, ts, r)
      /\ Push(l, ts, 0)
      /\ UNCHANGED <<now, processing, held, interval, blocks, undefined>>

\* to the value it has: the slope is flat and nothing is sent
LineFlat(l, ts, x) ==
  /\ x = ValueAt(l, ts)
  /\ TimerStop(l, ts)
  /\ ramp' = [ramp EXCEPT ![l] = Ramp(x, x, 0)]
  /\ UNCHANGED last

\* a bang to the left inlet of a timer
ClockStart(o, ts) ==
  /\ last' = [last EXCEPT ![o] = ts]
  /\ UNCHANGED <<queue, now, processing, stack, objects, ramp, blocks, undefined>>

\* a bang to its right inlet: it sends the time since
ClockRead(o, ts) ==
  /\ Push(o, ts, 0)
  /\ UNCHANGED <<queue, now, processing, objects, ramps, blocks, undefined>>

-----------------------------------------------------------------------------
(* pipe *)

(***************************************************************************)
(* A bang, a float, or a symbol other than "flush" and "clear".  The case  *)
(* of the left inlet runs on into that of the right one: a message that    *)
(* begins with a float also becomes the delay of those that follow it.     *)
(***************************************************************************)
PipePut(p, ts, atoms) ==
  /\ calls < MaxCalls
  /\ queue' = Schedule(queue, p, ts + interval[p], atoms)
  /\ held' = [held EXCEPT ![p] = Append(@, calls + 1)]
  /\ calls' = calls + 1
  /\ interval' = [interval EXCEPT ![p] = IF atoms[1] \in Intervals THEN atoms[1] ELSE @]
  /\ UNCHANGED <<now, processing, stack, pending, blocks, started, undefined>>

PipeSet(p, ts, ms) ==
  /\ SetInterval(p, ms)
  /\ UNCHANGED <<queue, pending, started>>

\* the queue after the first k messages of ids are cancelled, one after the other
CancelAll(q, ids) ==
  LET after[k \in 0..Len(ids)] ==
        IF k = 0 THEN q ELSE CancelPointer(after[k - 1], ids[k])
  IN  after[Len(ids)]

\* "clear", outside a flush of the same pipe
PipeClear(p, ts) ==
  /\ ~Flushing(p)
  /\ queue' = CancelAll(queue, held[p])
  /\ held' = [held EXCEPT ![p] = << >>]
  /\ UNCHANGED <<now, processing, stack, pending, interval, calls, blocks, started, undefined>>

\* "flush": the first message of the list is sent from where it stands in the queue
PipeFlush(p, ts) ==
  /\ ~Flushing(p)
  /\ held[p] # << >>
  /\ queue' = SetTimestamp(queue, held[p][1], ts)
  /\ Push(p, ts, 1)
  /\ UNCHANGED <<now, processing, objects, blocks, undefined>>

\* "clear" or "flush" to a pipe that is being flushed: the list and its messages
\* are gone when the outer flush moves its iterator on
PipeReentered(p, ts) ==
  /\ Flushing(p)
  /\ undefined' = TRUE
  /\ UNCHANGED <<queue, now, processing, stack, objects, blocks>>

InFlush == ~undefined /\ stack # << >> /\ Top.it > 0

\* the send of a flushed message has returned: it is cancelled
AfterFlushed == CancelPointer(queue, held[Top.obj][Top.it])

FlushNext ==
  /\ InFlush /\ Top.it < Len(held[Top.obj])
  /\ LET next == held[Top.obj][Top.it + 1]
     IN  /\ Live(AfterFlushed, next)
         /\ queue' = SetTimestamp(AfterFlushed, next, Top.at)
  /\ stack' = [stack EXCEPT ![Len(stack)].it = @ + 1]
  /\ UNCHANGED <<now, processing, objects, blocks, undefined>>

\* the cancellation took the next message instead: one that is due at the time of
\* the flush and says the same
FlushLost ==
  /\ InFlush /\ Top.it < Len(held[Top.obj])
  /\ ~Live(AfterFlushed, held[Top.obj][Top.it + 1])
  /\ undefined' = TRUE
  /\ UNCHANGED <<queue, now, processing, stack, objects, blocks>>

FlushEnd ==
  /\ InFlush /\ Top.it = Len(held[Top.obj])
  /\ queue' = AfterFlushed
  /\ held' = [held EXCEPT ![Top.obj] = << >>]
  /\ stack' = Returned
  /\ UNCHANGED <<now, processing, pending, interval, calls, blocks, started, undefined>>

-----------------------------------------------------------------------------
(* Context::process, and the send_message each object overrides *)

ProcessBegin ==
  /\ ~processing /\ stack = << >> /\ blocks < MaxBlocks
  /\ processing' = TRUE
  /\ UNCHANGED <<queue, now, stack, objects, blocks, undefined>>

Due == queue # << >> /\ First(queue).ts < now + Tick

SendTime == IF First(queue).ts < now THEN now ELSE First(queue).ts

\* process takes the first message off the queue and calls its object
Sends(o) ==
  /\ processing /\ stack = << >> /\ Due
  /\ First(queue).obj = o
  /\ Push(o, SendTime, 0)
  /\ UNCHANGED <<now, processing, interval, blocks, undefined>>

\* the next message is scheduled before this one is sent
MetroSend(m) == Sends(m) /\ Rearm(Popped(queue), m, SendTime, <<Bang>>) /\ UNCHANGED <<held, started>>

\* mutant: the pointer is left as it was
DelaySendKeepsPointer(d) ==
  /\ Sends(d)
  /\ queue' = Popped(queue)
  /\ started' = [started EXCEPT ![d] = FALSE]
  /\ UNCHANGED <<pending, held, calls>>

DelaySend(d) ==
  /\ Sends(d)
  /\ queue' = Popped(queue)
  /\ pending' = [pending EXCEPT ![d] = IF @ = First(queue).id THEN NULL ELSE @]
  /\ started' = [started EXCEPT ![d] = FALSE]
  /\ UNCHANGED <<held, calls>>

LineSend(l) ==
  /\ Sends(l)
  /\ LineSends(Popped(queue), l, SendTime, [ramp[l] EXCEPT !.current = First(queue).atoms[1]])
  /\ UNCHANGED held

LoadbangSend(o) == Sends(o) /\ queue' = Popped(queue) /\ UNCHANGED <<pending, held, calls, started>>

\* list::remove of a pointer; no pointer is in a list twice
Unlisted(ids, id) ==
  IF \E k \in 1..Len(ids) : ids[k] = id
    THEN RemoveAt(ids, CHOOSE k \in 1..Len(ids) : ids[k] = id)
    ELSE ids

PipeSend(p) ==
  /\ Sends(p)
  /\ queue' = Popped(queue)
  /\ held' = [held EXCEPT ![p] = Unlisted(@, First(queue).id)]
  /\ UNCHANGED <<pending, calls, started>>

\* a send, other than one of a flush, has reached all it is connected to
SendDone ==
  /\ ~undefined /\ stack # << >> /\ Top.it = 0
  /\ stack' = Returned
  /\ UNCHANGED <<queue, now, processing, objects, blocks, undefined>>

ProcessEnd ==
  /\ processing /\ stack = << >> /\ ~Due
  /\ processing' = FALSE
  /\ now' = now + Tick
  /\ blocks' = blocks + 1
  /\ UNCHANGED <<queue, stack, objects, undefined>>

MetroStep(ts) ==
  \E m \in Metros \cap patch :
    MetroStart(m, ts) \/ TimerStop(m, ts) \/ \E ms \in Intervals : MetroSet(m, ts, ms)
DelayStep(ts) ==
  \E d \in DelayObjects \cap patch :
    DelayStart(d, ts) \/ TimerStop(d, ts) \/ \E ms \in Intervals : DelaySet(d, ts, ms)
PipeStep(ts) ==
  \E p \in Pipes \cap patch :
    \/ \E atoms \in PipeAtoms : PipePut(p, ts, atoms)
    \/ \E ms \in Intervals : PipeSet(p, ts, ms)
    \/ PipeClear(p, ts) \/ PipeFlush(p, ts) \/ PipeReentered(p, ts)
LineStep(ts) ==
  \E l \in Lines \cap patch, x \in Levels :
    \/ LineJump(l, ts, x) \/ LineSet(l, ts, x) \/ LineFlat(l, ts, x)
    \/ \E duration \in Intervals \ {0} : LineRamp(l, ts, x, duration)
ClockStep(ts) == \E o \in Clocks \cap patch : ClockStart(o, ts) \/ ClockRead(o, ts)

Handler ==
  \/ \E ts \in Arrivals :
       \/ MetroStep(ts) \/ DelayStep(ts) \/ PipeStep(ts)
       \/ \E l \in Lines \cap patch : TimerStop(l, ts) \/ \E ms \in Intervals : MetroSet(l, ts, ms)
  \/ FlushNext \/ FlushLost \/ FlushEnd \/ SendDone \/ ProcessBegin \/ ProcessEnd
  \/ \E m \in Metros : MetroSend(m)
  \/ \E d \in DelayObjects : DelaySend(d)
  \/ \E p \in Pipes : PipeSend(p)
  \/ \E o \in Loadbangs : LoadbangSend(o)

Next ==
  /\ \/ Handler /\ UNCHANGED ramps
     \/ \E ts \in Arrivals : LineStep(ts) \/ ClockStep(ts)
     \/ \E l \in Lines : LineSend(l)
  /\ UNCHANGED patch

Spec == Init /\ [][Next]_vars

-----------------------------------------------------------------------------
Of(o) == {m \in Entries(queue) : m.obj = o}

(***************************************************************************)
(* "A delay only has one outstanding message at any time"                  *)
(* (MessageDelay.h:30), and so does a metro: however deep the sends are    *)
(* nested when it is started, stopped or set, exactly the message its      *)
(* pointer names is in the queue, and none when the pointer is NULL.  A    *)
(* second one would go on for ever beside the first and no stop could      *)
(* reach it.                                                               *)
(***************************************************************************)
OneOutstanding ==
  \A o \in Timers : {m.id : m \in Of(o)} = IF pending[o] = NULL THEN {} ELSE {pending[o]}

(***************************************************************************)
(* A metro or delay has a message to come exactly when the last command it *)
(* got, and for a delay no message since, says so, and a line exactly when *)
(* it was sent somewhere it has not reached: also when the command reached *)
(* it inside its own send.                                                 *)
(***************************************************************************)
RunsWhenStarted == \A o \in Timers : started[o] <=> Of(o) # {}

(***************************************************************************)
(* A line never jumps while it is on its way: from each value it sends to  *)
(* the next it goes by its slope and by the time between them, whether the *)
(* next was scheduled or a new target interrupted the ramp, and however    *)
(* often it was stopped, set and slowed down before (MessageLine.cpp:74,   *)
(* "calculate the new current value depending on when the last message as  *)
(* sent").  A message that the host made late is sent late and is excluded.*)
(***************************************************************************)
InTime(l) == \A m \in Of(l) : m.ts >= now

RampsWithoutJumps ==
  [][\A l \in Lines :
       started[l] /\ started'[l] /\ InTime(l) =>
         ramp'[l].current = ramp[l].current + ramp[l].slope * (last'[l] - last[l])]_vars

(***************************************************************************)
(* The list of a pipe counts its messages in the queue, those that a flush *)
(* has sent and cancelled apart: none is sent by a flush and then once     *)
(* more by the queue, and none is left in the queue without the pipe.      *)
(***************************************************************************)
Flushed(p) ==
  IF Flushing(p) THEN stack[CHOOSE j \in 1..Len(stack) : stack[j].obj = p /\ stack[j].it > 0].it - 1
  ELSE 0

HeldAreQueued == \A p \in Pipes : ~undefined => Cardinality(Of(p)) = Len(held[p]) - Flushed(p)

(***************************************************************************)
(* The pointers that the objects keep and the queue of the context tell    *)
(* the same: no message is outstanding that nobody could cancel, and none  *)
(* is kept that was sent or cancelled.                                     *)
(***************************************************************************)
KeptAreQueued == OneOutstanding /\ HeldAreQueued

(***************************************************************************)
(* A flush changes the time of a message while it stands in the queue, and *)
(* the objects it sends to insert into that queue.  When all sends have    *)
(* returned and the next message is looked for at the front, the queue is  *)
(* in order all the same.                                                  *)
(***************************************************************************)
OrderedAtRest == stack = << >> => Ordered(queue)

(***************************************************************************)
(* Each metro, delay and line is an alarm clock (AlarmClocks): its alarm   *)
(* is the first message that the queue holds for it, whatever it points to *)
(* itself.  Commands that reach it in its own send, stops of one clock     *)
(* inside the send of another, flushes that move messages in the queue:    *)
(* through all of it it rings one period after it was set, in order, and   *)
(* not once it was stopped.                                                *)
(***************************************************************************)
Alarm(q, o) ==
  IF \E j \in 1..Len(q) : q[j].obj = o
    THEN q[CHOOSE j \in 1..Len(q) : q[j].obj = o /\ \A k \in 1..j - 1 : q[k].obj # o].ts
    ELSE -1

alarms  == [o \in Timers |-> Alarm(queue, o)]
periods == [o \in Timers |-> interval[o]]
sentAt  == IF stack = << >> THEN -1 ELSE Top.at

Alarms == INSTANCE AlarmClocks WITH Periods <- Intervals, Unset <- -1, Idle <- -1,
                                    alarm <- alarms, period <- periods, at <- sentAt

ImplementsAlarms == Alarms!Spec
=============================================================================
