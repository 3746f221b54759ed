---------------------------- MODULE AlarmClocks ----------------------------
(***************************************************************************)
(* What a patch is promised by its metros, delays and lines: each is an    *)
(* alarm clock.  It is set, always one period from the time of the command *)
(* that sets it; it rings in the block of its time, the earliest first and *)
(* none before another that is due earlier; when it rings a metro is set   *)
(* again, one period on, and a delay is not; stopped, it does not ring;    *)
(* and no block ends with an alarm of its time still to come.  There is no *)
(* queue, no pointer into it and no call inside a call.                    *)
(***************************************************************************)
EXTENDS Integers

CONSTANTS Metros, DelayObjects, Lines,
          Periods,    \* milliseconds a clock may be set to
          Tick,       \* milliseconds in a block
          Unset,      \* no alarm
          Idle        \* nothing is being sent

VARIABLES alarm,      \* of each clock the time it rings at, or Unset
          period,     \* of each clock
          now,        \* the time the block begins
          at          \* the time of what is being sent, or Idle

vars == <<alarm, period, now, at>>

Timers == Metros \cup DelayObjects \cup Lines

Init ==
  /\ alarm = [o \in Timers |-> Unset]
  /\ period \in [Timers -> Periods]
  /\ now = 0
  /\ at = Idle

\* the times of the commands that may come, up to the end of the block: while
\* something is being sent, its time
Times == {t \in 0..now + Tick - 1 : at \in {Idle, t}}

Running(o) == alarm[o] # Unset

\* what a clock sends itself when it gets a command is of the time of the command
Start(o) ==
  /\ \E t \in Times : at' \in {at, t} /\ alarm' = [alarm EXCEPT ![o] = t + period[o]]
  /\ UNCHANGED <<now, period>>

Stop(o) ==
  /\ \E t \in Times : at' \in {at, t}
  /\ alarm' = [alarm EXCEPT ![o] = Unset]
  /\ UNCHANGED <<now, period>>

\* a new period counts from the next alarm on, and a delay is stopped by it
SetPeriod(o) ==
  /\ UNCHANGED <<now, at>>
  /\ alarm' = IF o \in DelayObjects THEN [alarm EXCEPT ![o] = Unset] ELSE alarm
  /\ \E ms \in Periods : period' = [period EXCEPT ![o] = ms]

\* a line stops when it has arrived
Again(o) ==
  \/ o \notin DelayObjects /\ alarm' = [alarm EXCEPT ![o] = at' + period[o]]
  \/ o \notin Metros /\ alarm' = [alarm EXCEPT ![o] = Unset]

\* an alarm that was set for a time that is over rings when the block begins
Ring(o) ==
  /\ at = Idle
  /\ Running(o) /\ alarm[o] < now + Tick
  /\ \A p \in Timers : Running(p) => alarm[o] <= alarm[p]
  /\ at' = IF alarm[o] < now THEN now ELSE alarm[o]
  /\ Again(o)
  /\ UNCHANGED <<period, now>>

\* something else is sent, and that has been done
Send == at = Idle /\ at' \in 0..now + Tick - 1 /\ UNCHANGED <<now, alarm, period>>
Sent == at # Idle /\ at' = Idle /\ UNCHANGED <<now, alarm, period>>

NextBlock ==
  /\ at = Idle
  /\ \A o \in Timers : Running(o) => alarm[o] >= now + Tick
  /\ now' = now + Tick
  /\ UNCHANGED <<alarm, period, at>>

Next ==
  \/ Send \/ Sent \/ NextBlock
  \/ \E o \in Timers : SetPeriod(o)
  \/ \E o \in Timers : Start(o) \/ Stop(o) \/ Ring(o)

Spec == Init /\ [][Next]_vars
=============================================================================
