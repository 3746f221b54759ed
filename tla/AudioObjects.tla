---------------------------- MODULE AudioObjects ----------------------------
(***************************************************************************)
(* A patch of audio objects, block by block (Context::process, DspObject,  *)
(* PdGraph::processGraph).  The messages of a block are sent first: an     *)
(* audio object puts those it hears into its queue.  Then each object of   *)
(* the process order processes its block, cut at the messages of its       *)
(* queue, with what the objects before it have written.                    *)
(*                                                                         *)
(* The objects are numbered in their process order (that of ProcessOrder), *)
(* and each outlet has a buffer of its own (BufferPool: no buffer is       *)
(* reused while it is read).  The graph is switched on.                    *)
(***************************************************************************)
EXTENDS AudioTime

LOCAL INSTANCE SequencesExt
LOCAL INSTANCE FiniteSets

CONSTANTS Patches,              \* records of class, arguments, wires, inputs, scores, tables
          MaxBlocks(_)          \* bound: the blocks that a patch plays

VARIABLES patch,                \* that which runs
          fields, buffers,      \* of each object
          queue,                \* of each object, messageQueue: <<time, inlet, message>>
          agenda,               \* the context's messages, for an inlet or from an outlet
          place,                \* -1 between blocks, 0 while messages are sent, the next object
          now,                  \* the first sample of the block
          input, output,        \* the channels of the host
          tables,
          heard, spoken,        \* history: all samples of the channels, out and in
          sent,                 \* history: <<time of the block, message from an outlet>>
          asked                 \* history: messages from the host

vars == <<patch, fields, buffers, queue, agenda, place, now, input, output, tables,
          heard, spoken, sent, asked>>

-----------------------------------------------------------------------------
Object(class, s, e, io) ==
  CASE class = "+~" -> DspAdd(s, e, io)
    [] class = "-~" -> DspSubtract(s, e, io)
    [] class = "*~" -> DspMultiply(s, e, io)
    [] class = "/~" -> DspDivide(s, e, io)
    [] class = "min~" -> DspMinimum(s, e, io)
    [] class = "log~" -> DspLog(s, e, io)
    [] class = "clip~" -> DspClip(s, e, io)
    [] class = "sig~" -> DspSignal(s, e, io)
    [] class = "sqrt~" -> DspSqrt(s, e, io)
    [] class = "rsqrt~" -> DspReciprocalSqrt(s, e, io)
    [] class = "wrap~" -> DspWrap(s, e, io)
    [] class = "cos~" -> DspCosine(s, e, io)
    [] class = "noise~" -> DspNoise(s, e, io)
    [] class = "rfft~" -> DspRfft(s, e, io)
    [] class = "rifft~" -> DspRifft(s, e, io)
    [] class = "vcf~" -> DspVCF(s, e, io)
    [] class = "osc~" -> DspOsc(s, e, io)
    [] class = "phasor~" -> DspPhasor(s, e, io)
    [] class = "lop~" -> DspLowpassFilter(s, e, io)
    [] class = "hip~" -> DspHighpassFilter(s, e, io)
    [] class = "bp~" -> DspBandpassFilter(s, e, io)
    [] class = "line~" -> DspLine(s, e, io)
    [] class = "vline~" -> DspVariableLine(s, e, io)
    [] class = "env~" -> DspEnvelope(s, e, io)
    [] class = "tabplay~" -> DspTablePlay(s, e, io)
    [] class = "tabread~" -> DspTableRead(s, e, io)
    [] class = "tabread4~" -> DspTableRead4(s, e, io)
    [] class = "delwrite~" -> DspDelayWrite(s, e, io)
    [] class = "delread~" -> DspDelayRead(s, e, io)
    [] class = "vd~" -> DspVariableDelay(s, e, io)
    [] class = "throw~" -> DspThrow(s, e, io)
    [] class = "catch~" -> DspCatch(s, e, io)
    [] class = "send~" -> DspSend(s, e, io)
    [] class = "receive~" -> DspReceive(s, e, io)
    [] class = "snapshot~" -> DspSnapshot(s, e, io)
    [] class = "print~" -> DspPrint(s, e, io)
    [] class = "bang~" -> DspBang(s, e, io)
    [] class = "dac~" -> DspDac(s, e, io)
    [] OTHER -> Idle(NoFields, io)                  \* adc~, inlet~, outlet~: no process function

(***************************************************************************)
(* The objects whose process function is the one for blocks without        *)
(* messages: a message makes them take the one for blocks with messages.   *)
(* In the others a message stays in the queue.                             *)
(***************************************************************************)
ForTwoSignals == {"+~", "-~", "*~", "/~", "min~", "log~"}
HandlesMessages(class, connected) ==
  CASE class \in ForTwoSignals -> connected # {1, 2}
    [] class = "phasor~" -> 1 \notin connected
    [] OTHER -> class \notin {"sqrt~", "rsqrt~", "wrap~", "cos~", "noise~", "rfft~", "env~", "delwrite~",
                              "delread~", "throw~", "catch~", "send~", "receive~", "dac~"}

-----------------------------------------------------------------------------
Objects == DOMAIN patch.class
Class(o) == patch.class[o]

\* what is heard at an inlet: zero, one outlet, or the sum of several
RECURSIVE Heard(_, _), Outlet(_)
Outlet(wire) ==
  CASE Class(wire[1]) = "adc~" -> DspAdc([input |-> input])[wire[2]]
    [] Class(wire[1]) = "inlet~" -> DspInlet([in |-> <<Heard(wire[1], 1)>>])
    [] Class(wire[1]) = "outlet~" -> DspOutlet([in |-> <<Heard(wire[1], 1)>>])
    [] OTHER -> buffers[wire[1]][wire[2]]
Heard(o, inlet) ==
  LET wires == patch.wires[o][inlet]
  IN  IF wires = << >> THEN Zero
      ELSE FoldLeft(LAMBDA sum, wire : DspImplicitAdd([in |-> <<sum, Outlet(wire)>>]),
                    Outlet(Head(wires)), Tail(wires))

\* objects of a name, as the context has registered them
Registered(class, name) == SelectSeq([n \in Objects |-> n],
                                     LAMBDA n : Class(n) = class /\ fields[n].name = name)
LineOf(o) ==
  LET n == Registered("delwrite~", fields[o].name)[1]
  IN  [buffer |-> buffers[n][1], head |-> fields[n].head, length |-> fields[n].length]
ThrowsTo(o) ==
  LET throws == Registered("throw~", fields[o].name)
  IN  [n \in DOMAIN throws |-> buffers[throws[n]][1]]
RemoteOf(o) ==
  LET sends == Registered("send~", fields[o].name)
  IN  IF sends = << >> THEN Zero ELSE buffers[sends[1]][1]

\* what is at the inlets and outlets of an object while it processes
Lets(o, random) ==
  [in |-> [n \in DOMAIN patch.wires[o] |-> Heard(o, n)],
   connected |-> {n \in DOMAIN patch.wires[o] : patch.wires[o][n] # << >>},
   out |-> IF Class(o) = "dac~" THEN output ELSE buffers[o],
   line |-> IF Class(o) \in {"delread~", "vd~"} THEN LineOf(o) ELSE << >>,
   throws |-> IF Class(o) = "catch~" THEN ThrowsTo(o) ELSE << >>,
   remote |-> IF Class(o) = "receive~" THEN RemoteOf(o) ELSE << >>,
   random |-> random, tables |-> tables, now |-> now]

\* buffers of the pool are cleared, those that an object allocates are not
NewBuffers(p, o) ==
  CASE p.class[o] \in {"send~", "receive~", "throw~"} -> <<[k \in Block |-> p.memory]>>
    [] OTHER -> <<Zero, Zero>>
Constructed(p, o) ==
  Object(p.class[o], NoFields, Construct(p.arguments[o], p.memory), [out |-> NewBuffers(p, o)])

Init ==
  /\ patch \in Patches
  /\ fields = [o \in Objects |-> Constructed(patch, o).state]
  /\ buffers = [o \in Objects |-> Constructed(patch, o).out]
  /\ queue = [o \in Objects |-> << >>]
  /\ agenda = << >>
  /\ place = -1
  /\ now = 0
  /\ input = <<Zero, Zero>> /\ output = <<Zero, Zero>>
  /\ tables = patch.tables
  /\ heard = << << >>, << >> >> /\ spoken = << << >>, << >> >>
  /\ sent = << >> /\ asked = << >>

-----------------------------------------------------------------------------
\* the context's queue: by time, first come first sent
Inserted(list, m) ==
  InsertAt(list, 1 + Cardinality({k \in DOMAIN list : list[k].at <= m.at}), m)

\* what object o asked of the context
Scheduling(list, o, does) ==
  FoldLeft(LAMBDA acc, d : CASE d[1] = "schedule" -> Inserted(acc, d[2] @@ [of |-> o])
                             [] d[1] = "cancel" -> RemoveFirst(acc, d[2] @@ [of |-> o])
                             [] OTHER -> acc, list, does)
Sending(o, does) ==
  LET sends == SelectSeq(does, LAMBDA d : d[1] = "send")
  IN  [n \in DOMAIN sends |-> [block |-> now, of |-> o, outlet |-> sends[n][2].outlet,
                               message |-> sends[n][2].message, at |-> sends[n][2].at]]

\* zg_context_process is called with the input; messages for this block were sent to objects before
BeginBlock ==
  /\ place = -1
  /\ now < MaxBlocks(patch) * BlockSize
  /\ \E samples \in patch.inputs, score \in patch.scores :
       /\ input' = samples
       /\ spoken' = [c \in 1..2 |-> spoken[c] \o [k \in 1..BlockSize |-> samples[c][k - 1]]]
       /\ LET messages == [n \in DOMAIN score |->
                [kind |-> "in", at |-> now + score[n][1], of |-> score[n][2],
                 inlet |-> score[n][3], message |-> score[n][4]]]
          IN  /\ agenda' = FoldLeft(Inserted, agenda, messages)
              /\ asked' = asked \o messages
  /\ output' = <<Zero, Zero>>
  /\ place' = 0
  /\ UNCHANGED <<patch, fields, buffers, queue, now, tables, heard, sent>>

\* the host writes to a table, or a message resizes one: once in a block, which is a bound
ChangeTable ==
  /\ place = -1 /\ now > 0
  /\ \A n \in DOMAIN asked : asked[n].kind = "table" => asked[n].at < now
  /\ \E change \in patch.changes :
       /\ tables[change[1]] # change[2]
       /\ tables' = [tables EXCEPT ![change[1]] = change[2]]
       /\ asked' = Append(asked, [kind |-> "table", at |-> now, of |-> 0, inlet |-> 0, message |-> change[2]])
  /\ UNCHANGED <<patch, fields, buffers, queue, agenda, place, now, input, output, heard, spoken, sent>>

Due == agenda # << >> /\ agenda[1].at < now + BlockSize

\* a message of an earlier time is sent at the start of the block
NotBefore(at) == IF at < now THEN now ELSE at

\* a message from an outlet is sent by its object, which may have its own way
SendMessage ==
  /\ place = 0 /\ Due
  /\ LET m == [agenda[1] EXCEPT !.at = NotBefore(@)] @@ [due |-> agenda[1].at]
         o == m.of
         r == Object(Class(o), fields[o], m, [out |-> buffers[o], tables |-> tables])
         own == Class(o) \in {"vline~", "tabplay~"}
     IN  IF m.kind = "in"
         THEN /\ queue' = [queue EXCEPT ![o] = Append(@, <<m.at, m.inlet, m.message>>)]
              /\ agenda' = Tail(agenda)
              /\ UNCHANGED <<fields, sent>>
         ELSE /\ fields' = [fields EXCEPT ![o] = IF own THEN r.state ELSE @]
              /\ sent' = sent \o Sending(o, IF own THEN r.does ELSE <<<<"send", m>>>>)
              /\ agenda' = Tail(agenda)
              /\ UNCHANGED queue
  /\ UNCHANGED <<patch, buffers, place, now, input, output, tables, heard, spoken, asked>>

AllSent ==
  /\ place = 0 /\ ~Due
  /\ place' = 1
  /\ UNCHANGED <<patch, fields, buffers, queue, agenda, now, input, output, tables, heard, spoken, sent, asked>>

\* process_functionMessage: the block up to each message, the message, and the rest of the block
Cut(q) ==
  FoldLeft(LAMBDA events, n :
             events \o <<Process(IF n = 1 THEN 0 ELSE q[n - 1][1] - now, q[n][1] - now),
                         Receive(q[n][2], q[n][3], q[n][1])>>,
           << >>, [n \in DOMAIN q |-> n])
    \o <<Process(IF q = << >> THEN 0 ELSE q[Len(q)][1] - now, BlockSize)>>

ProcessObject ==
  /\ place \in Objects
  /\ \E random \in (IF Class(place) = "noise~" THEN patch.noise ELSE {Zero}) :
       LET o == place
           io == Lets(o, random)
           handles == HandlesMessages(Class(o), io.connected)
           r == FoldLeft(LAMBDA acc, e :
                           LET next == Object(Class(o), acc.state, e, [io EXCEPT !.out = acc.out])
                           IN  [next EXCEPT !.does = acc.does \o @],
                         Idle(fields[o], io), Cut(IF handles THEN queue[o] ELSE << >>))
       IN  /\ fields' = [fields EXCEPT ![o] = r.state]
           /\ IF Class(o) = "dac~" THEN output' = r.out /\ UNCHANGED buffers
                                   ELSE buffers' = [buffers EXCEPT ![o] = r.out] /\ UNCHANGED output
           /\ queue' = IF handles THEN [queue EXCEPT ![o] = << >>] ELSE queue
           /\ agenda' = Scheduling(agenda, o, r.does)
           /\ sent' = sent \o Sending(o, r.does)
  /\ place' = place + 1
  /\ UNCHANGED <<patch, now, input, tables, heard, spoken, asked>>

EndBlock ==
  /\ place = Len(patch.class) + 1
  /\ heard' = [c \in 1..2 |-> heard[c] \o [k \in 1..BlockSize |-> output[c][k - 1]]]
  /\ now' = now + BlockSize
  /\ place' = -1
  /\ UNCHANGED <<patch, fields, buffers, queue, agenda, input, output, tables, spoken, sent, asked>>

Next == BeginBlock \/ ChangeTable \/ SendMessage \/ AllSent \/ ProcessObject \/ EndBlock

Spec == Init /\ [][Next]_vars

-----------------------------------------------------------------------------
=============================================================================
