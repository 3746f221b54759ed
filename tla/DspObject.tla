----------------------------- MODULE DspObject -----------------------------
(***************************************************************************)
(* One arithmetic audio object ([*~], [+~], [-~], [/~]) of a graph that a  *)
(* [switch~] may turn off, beside the clock of Context: DspObject (src/    *)
(* DspObject.cpp), the objects' onInletConnectionUpdate, and the parts of  *)
(* PdGraph they meet.                                                      *)
(*                                                                         *)
(* Messages reach the object while the context sends them, are queued, and *)
(* are handled when the graph is processed: the block is cut at the sample *)
(* of each message.  The graphs are processed once in each call of         *)
(* process, when the messages of the block have been sent: the call is a   *)
(* comment at the end of the loop body in context.rs (375-378), and is     *)
(* taken to belong behind the loop, as messageQueue is for "the next       *)
(* block" (DspObject.h:147).                                               *)
(***************************************************************************)
EXTENDS Context

CONSTANT MaxPending           \* bound: messages in messageQueue

ASSUME DspObjectAssumption == MaxPending \in Nat

VARIABLES messageQueue,       \* the timestamps of the messages
          process_function,   \* "default", "message", "scalar" or "signal"
          signals,            \* the inlets with an audio connection
          switched,           \* of the graph
          ranges,             \* history: what the last block ran, on which samples
          fromHost,           \* history: one of the messages that wait is of the host
          asleep              \* history: messages waited when the object was rewired, and
                              \* none has come since

dspVars == <<messageQueue, process_function, signals, switched, ranges, fromHost, asleep>>
allVars == <<vars, dspVars>>

process_functionNoMessage == "scalar"

Samples(fn, from, to) == [function |-> fn, from |-> from, to |-> to]

-----------------------------------------------------------------------------
(* Connections.  The objects choose their function by the audio connections  *)
(* at their two inlets; each connection made or cut, of messages too, asks   *)
(* them to.                                                                  *)

ConnectedFunction(inlets) == IF inlets = {0, 1} THEN "signal" ELSE "scalar"

DspInit ==
  /\ Init
  /\ messageQueue = << >>
  /\ switched = TRUE
  /\ ranges = << >>
  /\ fromHost = FALSE /\ asleep = FALSE
  /\ \/ signals = {} /\ process_function = "default"    \* never connected
     \/ signals \in SUBSET {0, 1} /\ process_function = ConnectedFunction(signals)

Reconnect ==
  /\ phase = "idle"
  /\ \E inlets \in SUBSET {0, 1} :
       /\ signals' = inlets
       /\ process_function' = ConnectedFunction(inlets)
  /\ asleep' = (messageQueue # << >>)
  /\ UNCHANGED <<vars, messageQueue, switched, ranges, fromHost>>

-----------------------------------------------------------------------------
(***************************************************************************)
(* receive_message: queued while the graph is on; the function for blocks  *)
(* with messages is taken only in place of the one for blocks without.     *)
(***************************************************************************)
Receive(ts) ==
  /\ IF switched
       THEN /\ Len(messageQueue) < MaxPending
            /\ messageQueue' = Append(messageQueue, ts)
            /\ process_function' = IF process_function = process_functionNoMessage
                                     THEN "message" ELSE process_function
            /\ asleep' = FALSE
       ELSE UNCHANGED <<messageQueue, process_function, asleep>>
  /\ UNCHANGED <<vars, signals, switched, ranges>>

\* one of the objects that the context's message reaches sends to this one
ReceiveInBlock == phase = "send" /\ Receive(current.ts) /\ UNCHANGED fromHost

\* zg_object_send_message
ReceiveFromHost ==
  /\ phase = "idle"
  /\ \E ts \in Times : Receive(ts)
  /\ fromHost' = (fromHost \/ switched)

\* a message to [switch~]
SetSwitch ==
  /\ phase # "messages"
  /\ switched' \in BOOLEAN
  /\ UNCHANGED <<vars, messageQueue, process_function, signals, ranges, fromHost, asleep>>

-----------------------------------------------------------------------------
Ceil(a, b) == -((-a) \div b)

\* ceil(getBlockIndex(message)); the timestamp is in milliseconds
BlockIndex(ts) == Ceil((ts - block_start_timestamp) * SampleRate, 1000)

\* mutant: the samples after the last message are left out
CutAtMessagesOnly(fn, q) ==
  [k \in 1..Len(q) |-> Samples(fn, IF k = 1 THEN 0 ELSE BlockIndex(q[k - 1]), BlockIndex(q[k]))]

\* the block cut at the messages of q: up to the first, between them, to the end
Cut(fn, q) ==
  [k \in 1..Len(q) + 1 |-> Samples(fn, IF k = 1 THEN 0 ELSE BlockIndex(q[k - 1]),
                                       IF k > Len(q) THEN BlockSize ELSE BlockIndex(q[k]))]

\* mutant: the function for blocks with messages stays
ProcessObjectStays ==
  IF process_function = "message"
    THEN /\ ranges' = Cut(process_functionNoMessage, messageQueue)
         /\ messageQueue' = << >>
         /\ UNCHANGED process_function
    ELSE /\ ranges' = << Samples(process_function, 0, BlockSize) >>
         /\ UNCHANGED <<messageQueue, process_function>>

\* the call of process_function: process_functionMessage, or one of the others
ProcessObject ==
  IF process_function = "message"
    THEN /\ ranges' = Cut(process_functionNoMessage, messageQueue)
         /\ messageQueue' = << >>
         /\ process_function' = process_functionNoMessage
    ELSE /\ ranges' = << Samples(process_function, 0, BlockSize) >>
         /\ UNCHANGED <<messageQueue, process_function>>

\* processGraph, at the end of the context's block
ProcessGraph ==
  /\ ProcessEnd
  /\ IF switched THEN ProcessObject
     ELSE ranges' = << >> /\ UNCHANGED <<messageQueue, process_function>>
  /\ fromHost' = (fromHost /\ messageQueue' # << >>)
  /\ UNCHANGED <<signals, switched, asleep>>

ContextNext ==
  /\ ProcessBegin \/ PopMessage \/ SendDone \/ ScheduleBetweenBlocks
       \/ ScheduleFromObject \/ Cancel
  /\ UNCHANGED dspVars

DspNext == ContextNext \/ ProcessGraph \/ ReceiveInBlock \/ ReceiveFromHost
          \/ SetSwitch \/ Reconnect

DspSpec == DspInit /\ [][DspNext]_allVars

-----------------------------------------------------------------------------
(***************************************************************************)
(* The object runs process_functionMessage, which needs a message in the   *)
(* queue, exactly when one waits, but for two cases.  With signals at both *)
(* inlets, and if it was never connected, messages wait without waking it, *)
(* however many ("assumed that messages should not be processed",          *)
(* receive_message).  And an object that is rewired while messages wait    *)
(* sleeps on, although the comment in DspMultiply.cpp:52 excludes it,      *)
(* until another one comes: not longer, and not if none waited.            *)
(***************************************************************************)
Deaf == signals = {0, 1} \/ process_function = "default"

AwakeWithMessages ==
  /\ process_function = "message" <=> messageQueue # << >> /\ ~Deaf /\ ~asleep
  /\ asleep => messageQueue # << >>

(***************************************************************************)
(* Cut at its messages, the block is still processed from the first sample *)
(* to the last without a gap, an overlap or a step back: the order in      *)
(* which the context sends, its clamp, the length of the block in          *)
(* milliseconds and the rounding to samples agree, whatever was rewired    *)
(* or switched before.  Two cases are excepted, in both of which a cut may *)
(* lie outside of the block: the first message is left from an earlier     *)
(* block, as one over which the object was rewired, or while its graph was *)
(* off; or one of those that wait was sent by the host, with any time.     *)
(***************************************************************************)
Tiles(rs) ==
  /\ rs # << >>
  /\ rs[1].from = 0
  /\ rs[Len(rs)].to = BlockSize
  /\ \A k \in 1..Len(rs) : rs[k].from <= rs[k].to
  /\ \A k \in 1..Len(rs) - 1 : rs[k].to = rs[k + 1].from

Stale == messageQueue # << >> /\ messageQueue[1] < block_start_timestamp

BlockIsTiled ==
  [][ProcessEnd /\ switched /\ ~Stale /\ ~fromHost => Tiles(ranges')]_allVars
=============================================================================
