# PureZen in TLA+

PureZen is a port of ZenGarden, a Pure Data runtime, from C++ to Rust. The
repository holds both halves: modules that have been ported (`src/*.rs`), C++
that has not, and files in between (`src/pd/graph.rs` still is C++). Names were
changed everywhere before the port (`getProcessOrder` became
`get_process_order`), so many headers and sources name one method in two ways;
the models read the two as one. Where a call is a comment that waits for the
port of its owner, the model performs the call the comment spells out, and the
module says so: the registries of `src/pd/context.rs`, and the test of a
connection's type in `src/message/object/mod.rs` (lines 232 and 246), without
which an audio object would look for its connections in lists of messages that
are empty. Paths below are relative to the repository.

## Inventory

| Component | Source | State | Operations | What makes it correct |
|---|---|---|---|---|
| Bounded list | `src/list.rs` | a `heapless::Vec` | append, push_back, insert_at, remove_at, peek, pop | it is a sequence; nothing lost or permuted; capacity respected |
| Ordered message queue | `src/message/queue.rs` | entries (object, outlet, message) | insert_message, remove_message, peek, pop | sorted by time, first come first among equals; removes what it is told to |
| Context | `src/pd/context.rs` | queue, block start, registries, value map | process, schedule_message, cancel_message, attach_graph | earliest first; times never step back; a message is sent inside its block and is not forgotten |
| Buffer pool | `src/BufferPool.cpp` | free stack, counts of reserved buffers | getBuffer, releaseBuffer, reserveBuffer | no buffer shared while it is read, none lost |
| Process order | `src/pd/graph.rs`, `src/DspObject.cpp`, `src/DspInlet.cpp`, `src/DspOutlet.cpp` | connections, is_ordered flags, inlet and outlet buffers, dspNodeList | addConnection, removeConnection, attach, order | each object that is asked for runs once a block and hears exactly its sources |
| Audio object and its messages | `src/DspObject.cpp`, `src/Dsp{Add,Subtract,Multiply,Divide}.cpp` | messageQueue, process_function | receive_message, process_functionMessage, connection updates | a block is cut at its messages and processed once from end to end |
| Array arithmetic | `src/ArrayArithmetic.h` | pointers and counters | add, subtract, multiply, divide, fill | all builds write what the plain loop writes |
| Send controller | `src/message/send/controller.rs` | receiver sets by name | add and remove a receiver, send | a message that waits reaches the receivers of its name |
| Graph: objects and registries | `src/pd/graph.rs`, `src/pd/context.rs`, `src/DeclareList.cpp` | nodeList, letlists, connections, attachment, registries by name | addObject, removeObject, addConnection, registerObject, attach | both ends of a connection agree; who shares a name meets; nothing points at what is gone |
| Patch files | `src/PdFileParser.cpp`, `src/PdAbstractionDataBase.cpp`, `src/ObjectFactoryMap.cpp` | place in each file, graph under construction, last array | nextMessage, execute | objects have the indices of the file; `$0` is private; tables hold their lines |
| Message object | `src/message/object/` | connections | receive_message, send_message | depth first, in the order of connections; every cascade ends |
| Timed message objects | `src/Message{Metro,Delay,Pipe,Line,Timer,Loadbang}.cpp` | the message they scheduled | process_message, send_message | at most one outstanding message; stop really stops; ramps do not jump |
| Control and arithmetic message objects | `src/Message*.cpp` | what each keeps | process_message | right to left; cold inlets keep; the values Pd gives |
| Tables, delay lines, named audio buses | `src/MessageTable*.cpp`, `src/DspTable*.cpp`, `src/DspDelay*.cpp`, `src/Dsp{Send,Receive,Throw,Catch}.cpp` | shared buffers | registrations, reads and writes | read positions and cut-offs |
| Other audio objects | `src/Dsp*.cpp` | phases, ramps, last samples | process_message, processSignal, processScalar | each sample is computed with the messages up to it, over pieces and blocks |
| Atoms and messages | `src/pd/message/` | | resolve_string, from_string, equality | |
| Allocator, host interface | `src/allocator/`, `src/ZenGarden.cpp` | | | |

**How they interact.** The host calls `Context::process` once per audio block.
`process` takes each due message from the queue and hands it to its object,
which sends it along connections; message objects reached that way schedule and
cancel further messages before `process` comes to the next one. Audio objects
only queue what they receive. When the messages of the block have been sent the
graphs are processed: each object of the process order runs on the buffers
that the ordering assigned to it from the pool, cutting the block at the
messages it holds. Between blocks the host schedules messages, sends to objects
directly, connects, attaches and detaches.

**What is hard here.** There is one thread (the context lock is a comment), but
everything re-enters: objects change the queue that `process` is emptying;
ordering recurses through graphs while it hands out and takes back buffers;
flags and counts of an earlier ordering are still there at the next; a graph may
be switched off between a message's arrival and its processing; indices taken
when a message is scheduled are used when it is sent. Bounds are fixed
(`MAX_LIST_SIZE`, `SEND_STACK_SIZE`), times are truncated to milliseconds and
rounded up to samples. `PROJECT.json` lists these hazards line by line.

## Modules

| Module | Models | Run |
|---|---|---|
| `PdList`, `AbstractList`, `ListOps` | the list; insert_at one loop iteration at a time | `PdListInsert.cfg` |
| `OrderedQueue` | the queue's operations on a sequence of entries | with `Context` |
| `Context`, `Agenda`, `MCContext` | the block clock and the callback queue; `Agenda` is what it promises | `Context.cfg` |
| `BufferPool` | the pool as operators on a record, and a client that keeps to the process order's rules | `BufferPool.cfg` |
| `ProcessOrder`, `MCProcessOrder` | ordering, buffer assignment and a block run with the result; uses `BufferPool`'s operators | `ProcessOrder.cfg` |
| `DspObject`, `MCDspObject` | one arithmetic object beside `Context`, which it extends | `DspObject.cfg` |
| `TimedObjects`, `AlarmClocks`, `MCTimedObjects` | metro, delay, pipe, line, timer and loadbang on the queue, with sends inside sends; uses `OrderedQueue`'s operators; `AlarmClocks` is what metro, delay and line promise | `TimedObjects.cfg` |
| `ArrayArithmetic` | the vector loops of the three builds | `ArrayArithmetic.cfg` |
| `SendController`, `MCSendController` | named receivers and messages that wait with an index | `SendController.cfg` |
| `Atoms` | atoms, `$`-arguments, the reading of strings | with the following |
| `MessageArithmetic`, `MessageControl`, `MessageLists` | the message objects, one operator for each class; each module extends the one before | with `MessageObjects` |
| `MessageObjects`, `MCMessageObjects` | a patch of them: connections and the stack of calls | `MessageObjects.cfg`, `ListDistribution.cfg` |
| `AudioSignals`, `AudioTime` | the audio objects, one operator for each class: those that compute a sample from a sample, and those that keep time | with `AudioObjects` |
| `AudioObjects`, `MCAudioObjects` | a patch of them: messages, blocks, cuts and the process order | `AudioObjects.cfg` |
| `PdGraph` | objects, connections and registries as operators on a heap | with `PatchFile` |
| `PatchFile`, `MCPatchFile` | the reading of patches into that heap, and the host that edits the result | `PatchFile.cfg` |
| `PdList_proof`, `OrderedQueue_proof`, `BufferPool_proof`, `DspObject_proof`, `TimedObjects_proof`, `ArrayArithmetic_proof`, `SendController_proof`, `AudioTime_proof` | theorems about the module each is named after; `DspObject_proof` is about `Context` too, which `DspObject` extends, and `AudioTime_proof` about the modules `AudioTime` extends. It, `DspObject_proof` and `TimedObjects_proof` use lemmas of `OrderedQueue_proof` | |

### State and actions against the code

* **PdList.** `items` is `self.0`, `i` the loop variable of `insert_at`. `asked`
  is a history variable: the position and the element of the last insertion
  that was accepted, so that the abstract list fixes where each element goes.
  `InsertAtBegin` is the bounds check and the push that may overflow,
  `InsertAtLoop` one `swap_remove` and `push`, `InsertAtEnd` the return. All
  other operations are one step. The range that `remove_at` reverses is
  `len..0`, written as the set it denotes.
* **OrderedQueue.** `InsertPosition` is the scan for the first strictly later
  entry, `Matches` the test of `remove_message`, with `Message::eq` comparing
  atoms as far as the shorter message goes. `id` numbers the calls and is not in
  the code. A full list refuses the entry and the caller of the C++ half is not
  told. Popping takes the first entry off, as the C++ list does: with
  `list.rs`'s own `pop` the first message would stop the program
  (`PdList!Pop`, whose loop runs over `RemoveLoopIndices`).
* **Context.** `phase` is the place inside `process`: at the top of its loop, or
  inside `send_message`, where any number of `ScheduleFromObject` and `Cancel`
  steps happen before `SendDone`. `PopMessage` is pop and clamp in one,
  `ProcessEnd` the step of the clock. Timestamps are whole milliseconds; an
  object never schedules before the message it handles (`Delays \subseteq Nat`:
  no object subtracts from a timestamp unless it is given a negative delay, which
  the code does not refuse). `None`, `sent`, `calls` and `blocks` are history
  and bounds.
* **BufferPool.** Buffers are numbers in the order of their allocation, `pool`
  is the stack, `reserved` the counts, unsigned of `CountRange` values. `Get`,
  `Release` and `Reserve` are what `get_process_order`, `inlet~` and `outlet~`
  do; `uses` is what they still owe. Each release has a use before it and a
  buffer has fewer than `CountRange` uses, so that in the hands of this client
  no count wraps around: what a stray release would do is not checked.
* **ProcessOrder.** A state holds the connections in the order they were made,
  and `dsp`, what ordering leaves in objects, graphs and pool. One operator per
  method; the splicing of returned lists becomes appending to the list of the
  graph an object belongs to. `Run` processes a block: what a buffer holds is
  the set of outlets whose signals are summed in it, so that hearing can be
  compared with the connections. Only audio connections are modelled.
* **DspObject.** `Receive` is `receive_message`, guarded by the graph's switch;
  `Cut` the ranges on which `process_functionMessage` calls the other function;
  `ProcessGraph` happens with `ProcessEnd`, when all messages of the block have
  been sent and before the clock steps (see the module's head on where the
  comment in `context.rs` stands). `process_function` starts as `"default"` in
  an object that was never connected, as the constructors leave it; the default
  function's two forms call each other without end, and the model records that
  it ran instead of the recursion. `ranges`, `fromHost` (one of the messages
  that wait is of the host) and `asleep` (messages waited when the object was
  rewired, and none has come since) are history.
* **TimedObjects.** `stack` holds the sends under way. While it is not empty any
  object may receive anything at the time of the innermost send, which stands
  for every patch, feedback included; when it is empty, the host (between
  blocks) or `process` is next. A handler is one step up to the send it makes;
  the flush of a pipe, which goes on after its sends, has steps of its own
  (`FlushNext`, `FlushEnd`). Pointers to messages are the numbers of the calls
  that made them; cancelling goes by value, as the queue does. Where the code
  uses an iterator or a message that is gone (`PipeReentered`, `FlushLost`),
  `undefined` is set and the model stops: the properties speak about what comes
  before. `started` is history. Times are whole milliseconds; the atom that is
  not a float stands for bangs and for symbols without a meaning of their own.
  `ramp` and `last` are a line's fields: its values are whole numbers, and a
  ramp is sent only where its slope is one (`LineRamp`, a bound); a duration of
  zero, which makes the slope infinite, is left out (`LineStep`). `patch` says
  which objects there are; its loadbangs were made in any order. As an alarm
  clock of `AlarmClocks`, a metro, delay or line is set for the time of the
  message it has in the queue (`Alarm`), its period is its interval, and what is
  being sent is the innermost send (`sentAt`); pipes, timers and loadbangs are
  sends that set no clock.
* **ArrayArithmetic.** `Head`, `Body`, `Tail` are the scalar head of the SSE
  build, the loop over `n4` and the scalar tail, with the pointers they move.
  A sample is untouched, right or wrong. The Apple build calls a library.
* **SendController.** `pending` holds the index that was found when a message
  was scheduled. `add_receiver` inserts the first receiver of a name twice;
  removing a receiver and overflowing a set stop the program, as does adding a
  receiver that is called `pd`, whose index lies outside of the stack. After a
  panic nothing happens, so that run does not check for deadlock.
* **MessageArithmetic, MessageControl, MessageLists.** `Class(s, i, m)` is
  `process_message` of that class with the fields `s`, message `m` and inlet
  `i`, and its constructor at the inlet `New`; an *outcome* holds the new fields
  and what is sent. A class that sends several times in one call, or goes on
  after a send, is called again with the number of sends behind it, since its
  fields may have changed in between. Floats are integers; `Math` is a table for
  the C library's functions and for quotients, with the domains in which it is
  asked (`InDomain`).
* **MessageObjects.** `todo` is the stack of C++ calls, innermost first, and a
  step runs the innermost one to its next send. `Distribute` is the whole of
  `receive_message`, with the range of its loop as the code writes it. Inlets
  are counted as the constructors say. `heap` holds what objects share: tables,
  values, the switch of the graph. A program that panics stops.
* **AudioSignals, AudioTime.** `Class(s, e, io)` with the event `e`: the
  construction, a message, or a piece of the block from one sample to another.
  The build is that of an x86 with SSE: heads and tails of the vector loops are
  those of `ArrayArithmetic`, and where they go wrong the patches are
  restricted (below). Samples are integers; what a filter computes is kept
  exactly for whole coefficients. An event may schedule, cancel or send.
* **AudioObjects.** A block is: the input, the messages that are due
  (`SendMessage`, one at a time), the objects in their process order
  (`ProcessObject`, the whole block with its cuts), the end. `agenda` is the
  context's queue, of which `Context` says more. Objects are numbered in their
  process order and have a buffer for each outlet: `ProcessOrder` and
  `BufferPool` are about how they get there.
* **PdGraph.** A heap holds the objects in the order of their creation, graphs
  among them, and the registries. Connection lists are kept by type, as
  `connection::Table` and the audio lists of `DspObject` are. `panicked` and
  `undefined` end a program.
* **PatchFile.** A line is a record of its words; `parsers` is the stack of
  `execute` calls, and a step is one message of the innermost file. `Host`
  attaches, detaches, deletes, connects and adds between reads, up to
  `MaxCalls`; it leaves `[inlet]` and `[outlet]` where the file put them.
  `written`, `where`, `private` and `missing` are history, as is `attachments`:
  the bag of how often each object has come into an attached graph (`Joined`),
  by an attachment or by being added.

## Runs

Deadlock is checked in `list_insert`, `context`, `buffer_pool`, `dsp_object` and
`array_arithmetic`. The others may stop: `send_controller` with a panic,
`process_order` at the bound on edits, `timed_objects` at the bounds on calls
and blocks or in undefined behaviour, `message_objects`, `list_distribution`,
`audio_objects` and `patch_file` when the host has sent its messages, the blocks
are over or the calls are made.

| Run | Shows | Bounds, and why they are enough |
|---|---|---|
| `list_insert` | the loop of `insert_at` implements insertion: `TypeOK`, `InsertsLikeAList` | three elements, a capacity of four: every index, a full and an empty list, every loop length |
| `context` | type, order, times, refinement of `Agenda`, and eventual sending under fairness: `TypeOK`, `QueueOrdered`, `SentWithinBlock`, `SendsInOrder`, `ImplementsAgenda`, `EventuallySent` | four messages in a queue of three: the queue overflows; blocks of 2 ms with times 0..4: late, current and future messages; three blocks reach every time |
| `buffer_pool` | sharing, loss and return of buffers: `TypeOK`, `NextIsUnused`, `EachInOnePlace`, `ReturnedWithLastUse` | counts up to three, fewer than the four values of a count, so that a buffer has several readers and none wraps; four buffers: reuse and allocation mix |
| `process_order` | hearing and running once, on first and repeated ordering: `HearsItsSources`, `DemandedOnce` | two sources, a mixer, a sink, a subgraph with an object and a bypass; three starting patches and every sequence of edits up to the bound: fan-in at inlets and through `inlet~`, fan-out, reordering after edits |
| `dsp_object` | when the object wakes and when it sleeps, and gapless cutting: `AwakeWithMessages`, `BlockIsTiled` | two scheduled messages, two blocks, messages of the host of any time, every switching and rewiring between |
| `timed_objects` | one outstanding message, stop stops, a flush leaves the queue complete and in order, a line goes by its slope, refinement of `AlarmClocks`: `KeptAreQueued`, `RunsWhenStarted`, `OrderedAtRest`, `RampsWithoutJumps`, `ImplementsAlarms` | three patches: metro, delay and pipe; line, loadbang and timer; line and delay. Three scheduled messages, sends two deep, two intervals, two levels, three blocks of 1 ms: messages that are late, due, and two blocks ahead; nothing is sent after the third block, when no block would hear of it; the queue has room for all, as the C++ list has |
| `array_arithmetic` | exactly which ranges each build gets right, and which loads are aligned: `RightWhereSupported`, `LoadsAreAligned` | twelve samples are three vectors: every start and end modulo four with none, one or two whole vectors between |
| `send_controller` | waiting messages keep their receivers: `ArrivesUnderItsName` | two receivers of one name, one of another, one called `pd`; stack and sets that overflow |
| `message_objects` | order of sends, cold inlets, loops that stop, lists, tables, remote messages, arithmetic; every cascade ends: `SendsInTurn`, `NumbersAgree`, `ListsArriveWhole`, `ReadsWhatWasWritten`, `EventuallyAtRest` | seventeen patches hold every class; three messages in every order and combination of each patch's inputs: one to set a state, one to change it, one to read it; `until` sends five times for ever; the print-out is cut far beyond what a patch prints |
| `list_distribution` (violation) | a list to `[+]` reaches no inlet: `ListAdds` | one patch, as above |
| `audio_objects` | what is heard is what the messages up to each sample ask for: `EachSampleByItsMessages`, `WrittenIsHeard`, `RampsArrive`, `SeamlessOverPieces`, `TablesAsTheyAre`, `ToldOfItsSamples` | sixteen patches hold every class; blocks of eight samples are two vectors; 500 Hz makes a block a whole number of milliseconds, so that truncation does not blur the other properties; three blocks: a delay, a ramp and a window reach over a block and end in one; four for `[env~]`, whose buffer of two blocks is filled and then half of it again; one or two messages a block at any of the patch's samples |
| `patch_file` | a patch is in memory what it is in the file up to a blank line, and stays consistent when the host edits it; who is read and who stays in the registries: `TypeOK`, `ReadAsWritten`, `ConnectionsAreWhole`, `RegistriesAreTrue`, `EventuallyLoaded` | fourteen sets of files, one for each thing that may go wrong between files, abstractions, graphs and registries; four calls of the host: attach two graphs, remove or detach, attach again |

The properties of the larger runs are conjunctions with one part for each hazard,
and most parts are about one patch, which they name:

| Property | Parts |
|---|---|
| `KeptAreQueued` (`timed_objects`) | `OneOutstanding`, `HeldAreQueued` |
| `SendsInTurn` (`message_objects`) | `CountsUp`, `SquaresItsInput`, `UntilStops`, `PackRoundTrip`, `LocalBeforeRemote` |
| `NumbersAgree` | `DivisionAgrees`, `ComparisonsAgree`, `InDomain`, `StaysInRange` |
| `ListsArriveWhole` | `RoutedOnce`, `ListsAreJoined` |
| `WrittenIsHeard` (`audio_objects`) | `DelayedExactly`, `BusesSum` |
| `RampsArrive` | `LineArrives`, `VlineArrives` |
| `SeamlessOverPieces` | `OscillatorsKeepPhase`, `FilterIsSeamless` |
| `TablesAsTheyAre` | `PlaysTheTable`, `BangsAtTheEnd`, `ReadsTheTable` |
| `ToldOfItsSamples` | `EnvelopeOfTheWindow`, `SnapshotIsOfItsSample`, `SentInItsBlock` |
| `ReadAsWritten` (`patch_file`) | `IndicesAsWritten`, `TablesAsWritten`, `PrivateNames`, `MissingIsMissing`, `ReadUpToABlank` |
| `ConnectionsAreWhole` | `BothEndsAgree`, `NothingSentToTheDead` |
| `RegistriesAreTrue` | `NamesMeet`, `SourcesAreRegistered`, `EntriesAsAttached` |

Every property of a passing run is broken by a plausible mistake in the code it
is about, a conjunction in one of its parts; these mutants stand before the
definitions they change, and `PROJECT.json` pairs them. `TypeOK` is checked where
it says more than which values a variable may have: in `PdList`, `Context` and
`BufferPool`, whose proofs rest on it, and in `PatchFile`.

### What the violation says

* `receive_message` is to hand the elements of a list to the inlets ("send to
  right-most inlet first"), but the range it reverses is empty: every object
  with several inlets ignores lists, but for those that take lists whole.

### Further deviations

These are in the models, where the named definition shows them, without a run
that singles them out.

The list and the context:

* `remove_at` iterates over an empty range and then unwraps `None`: `pop`
  ("Pop the first message off of the front of the list", `list.rs:127`) and
  `remove_message` panic, after the list was emptied (`PdList!RemoveAt`).
* `remove_message` ("Removes the given message", `queue.rs:136`) goes by value,
  and `Message::eq` ignores the atoms beyond the shorter message, so cancelling
  `[1 2(` may remove `[1(` of the same object, outlet and time (`Matches`).
* The clock advances by whole milliseconds (`block_duration`).
* Sets hold duplicates (`AddNew`).

Graphs and audio:

* An `inlet~` wired straight to an `outlet~` reserves its buffer more often than
  it is released, though `DspInlet.cpp:52` says that the reservation accounts
  for the outgoing connections (`ProcessOrder`).
* A graph switched off while a message waits, and on again in a later block,
  cuts the block at a negative sample (`Stale` in `DspObject`).
* A subgraph with an `outlet~` that nothing reads is not processed
  (`is_leaf_node`); connections made to an attached graph are not ordered, though
  the comment at `graph.rs:463` says they are (`addConnection`); with audio at
  both inlets the message queue is never emptied (`ProcessObject`).
* The constant forms of the vector loops apply the constant to the output in
  head and tail (`RangeIsSupported`). `[+~]` with a constant writes nothing:
  `processScalar` passes `fromIndex` twice (`AudioSignals!DspAdd`).
* The comment in `DspMultiply.cpp:52` rules out messages at connection time, and
  `zg_object_send_message` puts one there (`ReceiveFromHost` before
  `Reconnect`): the object takes the function for blocks without messages and
  sleeps over those it has until the next one comes (`asleep` in
  `AwakeWithMessages`). They may cut that later block at samples before its start.
* `[osc~]` loses its phase in blocks that are cut off its vector width, and
  `[phasor~]` reads an index that nothing has set; `[vline~]` writes no ramp
  in builds other than Apple's and starts delayed segments at the block's
  start; "clear" to a filter writes into the outlet and keeps its state; messages
  to `[bp~]` store neither frequency nor q; `[log~]` with two signals is a
  comment; `[vcf~]` is silent.
* `[env~]` weighs each sample by its place in the buffer and not by its age
  (`SumOfSquares`; `DspEnvelope.cpp:139`): the Hanning window lies right on the
  samples only when the buffer has just been filled to its end. With the
  default interval, half the window, it lies turned round in every second report:
  the newest and the oldest samples have the greatest weight.
* `[env~]` with two arguments rounds neither to blocks, which the comment at
  `DspEnvelope.cpp:118` and `DspEnvelope.h:37` ("reset to the nearest multiple")
  count on: with an interval that is not of whole blocks it never reports,
  and of a window that is not it leaves out the samples that stand in the buffer
  behind it (`EnvelopeOfTheWindow` states both). Its first reports read a buffer
  that was not cleared.
* `[tabplay~]` silences the whole block when nothing remains of the table, and
  its bang may be up to a block late, or come although the table was started
  again.
* `[delread~]`, `[receive~]` and others that always run their signal function
  never take messages from their queue. A `[delread~]` longer than its line reads
  before the buffer.

Messages:

* A message put into a pipe may change its delay, since the case of the left
  inlet runs on into that of the right one (`PipePut`); a pipe that hears of its
  own flush uses an iterator that is gone (`PipeReentered`); and the cancellation
  of a flushed message may take an equal one that the flush has not reached
  (`FlushLost`).
* A line that is sent on after its ramp is over, but before the message that
  says so, starts from beyond its target, since it interpolates without a look
  at the target (`ValueAt`); one with a duration of zero arrives a grain later,
  and if it is sent on before, its value is not a number.
* `Message::from_string` splits at `" ;"` as a whole (`mod.rs:104`): a text of
  several words is one symbol, also in message boxes and in `#X array`, whose
  table then has all of it as its name and the default length. A message box
  that begins with `;` sends a bang first.
* `[pack]` sends the message it keeps, not a copy: who changes it during the
  send changes what the other receivers read. `[value]` ends the program when it
  sets a name that is new (`context.rs:675`).

Patches (`PdGraph`, `PatchFile`):

* A connection of the wrong type to a graph's inlet is refused there and stored
  at the sender (`graph.rs:440`; `BothEndsAgree` has the receiving end know
  nothing of it): removing it panics, and after the graph is removed the sender
  keeps a pointer to it, which `NothingSentToTheDead` excepts.
* Removing a connection moves the last one of the list into its place: later
  messages are delivered in another order.
* Inlets and outlets are sorted by the place of their graph and not by their
  own, so those right of the canvas's edge come out in reverse, and one that is added later
  moves those that connections count (`addLetObjectToLetList`). Removing one
  leaves it in the list of the graph.
* `unregisterObject` leaves out tables, `catch~`, `throw~` and the delay
  objects, though the comment at `graph.rs:175` ("remove the object from any
  special lists if it is in any of them (e.g., receive, throw~, etc.)") names
  `throw~`. `EntriesAsAttached` says exactly who stays: there is an entry for
  each time such an object was attached, also when it was detached, removed or
  deleted since. So a `catch~` hears a `throw~` that is detached, reads one that
  is gone, and hears one twice that was attached twice. Attaching again
  a graph with a table, a `catch~` or a `delwrite~` panics. Removing or
  deleting an attached graph takes nothing of it out of the registries.
* The test in `register_dsp_send` is inverted: the first `send~` of a name
  panics. Removing a `[receive]` panics, as sets cannot erase.
* An abstraction that is not found adds no object: the connections behind it go
  elsewhere, or beyond the end of the list. A relative path that is declared in
  an abstraction reads the front of an empty list.
* A subpatch gets its parent's arguments shifted by one, its graph's id first.
* A blank line ends the reading of a patch, and a last line without a line break
  is lost (`ReadUpToABlank` says what is read and that nothing else is).
* The constructor of unknown objects panics in the comment at `context.rs:442`,
  where `PdFileParser.cpp:198` tests for `NULL`; the model follows the parser.

### Fairness

`FairSpec` of `Context` assumes weak fairness of `Process`: the host keeps
calling `process`, which is what an audio callback does, and a call that has
begun goes on, as there is one thread and no lock in it. Nothing is assumed
about objects scheduling or cancelling. An object that schedules itself without
delay would keep one call of `process` from ending; the bound on calls ends the
chain in the model, and the code has no such bound.

`Spec` of `MessageObjects` assumes weak fairness of the calls on the stack
(`Distribute`, `process_message`): a cascade is one call of one thread, which
nothing suspends. The host need not send. `Spec` of `PatchFile` assumes it of
`Load`, the reading of files: `zg_context_new_graph_from_file` is one call too.

## Proofs

TLAPS checks these for all values of the constants that satisfy the assumptions
in the modules (`MaxListSizeAssumption`, `ContextAssumption`, `NoneAssumption`,
`BufferPoolAssumption`, `DspObjectAssumption`, `TimedAssumption`,
`ArrayArithmeticAssumption`, `SendControllerAssumption`, `AudioAssumption`).

* **`PdList_proof`.** `TypeCorrect`, and `Refinement`: `InsertSpec` implements
  `AbstractList` under the mapping `Completed`, the list as it will be when the
  loop has run. The invariant adds that `i` lies in the list while the loop runs;
  a loop step leaves `Completed` unchanged because the element in the last slot
  and the one at `i` change places.
* **`OrderedQueue_proof`.** Lemmas: insertion and removal keep type, order and
  entries. That the position `CHOOSE` picks exists follows from a lemma about
  least elements of sets of natural numbers.
* **`BufferPool_proof`.** The invariant adds `CountsAreUses`: the count of each
  reserved buffer is the number of its uses that are not over, no other buffer
  has any, and all buffers are among `1..total`. Without it a release could
  return a buffer that is still read. The three invariants and
  `ReturnedWithLastUse` follow.
* **`DspObject_proof`**, about `Context`. The inductive invariant `IInv` adds to the checked
  invariants that ids in the queue were given out already (`NumbersGiven`;
  without it a new entry could come before an equal one), that nothing in the
  queue would be sent earlier than what was sent last (`NothingBehind`; without
  it time could step back), and that `process` is never under way beyond the
  bound (`BlocksLeft`). `TypeCorrect`, `QueueStaysOrdered`, `SentInside`,
  `InOrder` and `Refinement` follow from it.
* **`DspObject_proof`**, about `DspObject`. `WakesForMessages` and
  `NoSampleSkipped`, for every block size and sample rate: blocks that are not a
  whole number of milliseconds, or shorter than one, are among them. A step of
  `DspObject` is a step of `Context` or leaves it alone, so that `Context`'s
  `IInv` holds here. Beside it the invariant says which function is wired
  (`WiredFunction`), and that the messages that wait, unless one of them is of
  the host, wait in order and are none of them later than the last one sent
  (`ArrivedInOrder`). `WakesForMessages` follows from the first: the function
  for messages runs exactly when one waits, but for an object with signals at
  both inlets or never connected, which no message wakes, and for one that was
  rewired over a message, which sleeps until the next comes. `NoSampleSkipped`
  rests on the second: with `SentWithinBlock` it puts every cut between the ends
  of the block and behind the cut before; what is left is arithmetic: the index
  of a time inside the block is at most `BlockSize`, since the truncated
  duration times the rate does not exceed the block (`BlockIndexIs`), and a
  later time has no lower index.
* **`TimedObjects_proof`.** `PointersAgree`, `StartedMeansOutstanding`,
  `RestsInOrder`, `NeverJumps` and `RingLikeClocks`, for every patch, every depth of sends and any
  number of blocks. The parts of the invariant: messages are numbered apart, and
  in order but for those that a flush has moved (`Sound`); each timer's pointer
  names the one message it has (`Armed`) and agrees with what it was told
  (`Told`); the frames of the stack are of one time, one flush of a pipe at most
  is under way, and it stands at a queued message (`Frames`); the list of a pipe
  goes up, names only its own messages and covers what is queued for it
  (`Listed`, `Counted`); messages that a flush has moved are of the time of the
  sends under way (`MovedToNow`), so that an insertion meanwhile, which cannot
  be earlier, keeps its place among the others; and a line's message carries the
  value its slope leads to by then (`OnTheRamp`). Without `Listed` the
  cancellation by value could take another object's message unnoticed; without
  `MovedToNow` the order would not come back at the end of a flush; without
  `OnTheRamp` a line that was sent on could jump.
  `RingLikeClocks` is the refinement of `AlarmClocks`: one case for each handler
  and each send. It needs one thing more: what is being sent is of a time before
  the block's end (`OnTime`), as are the commands it leads to.
  A clock's alarm is the time of the one message its pointer names (`Armed`), so
  that cancelling, scheduling and popping another object's message leave it
  alone, and the head of a queue in order rings first.
  The theorems assume `[]Room`: the queue is not full as long as calls are to
  come. A message that is refused leaves its object with a pointer to nothing,
  as the hazard at `MessageMetro.cpp:88` says; the C++ list is never full, nor is
  one as long as the calls are many (`RoomSuffices`: `RoomForAll` implies
  `[]Room`; the run's instance is one). Intervals are natural numbers, zero
  included, while the run has 1 and 2: a message with a negative delay would be
  earlier than those a flush has moved.
* **`ArrayArithmetic_proof`.** `SupportedExactly` and `LoadsAlignedExactly`, for
  buffers of any size. The invariant gives pointers and counters in each loop as
  functions of the call (`Lead`, `Left`, `BodyStop`, `Lag`) and what was written
  behind the output pointer (`Written`). A range that ends inside its head has
  `Left < 0`: the count of the body starts below zero and only goes down, so that
  the loop ends nowhere but outside of the buffer.
* **`SendController_proof`.** `NeverMisdelivered` (and `TypeCorrect`). The
  invariant: a name has one set and `pd` none, a set has just the receivers
  registered under its name, and an index that waits is that of its name. The
  last needs the first two: an index keeps its meaning because sets are only
  appended.
* **`AudioTime_proof`**, about the operators of `MessageArithmetic`,
  `AudioSignals` and `AudioTime`, for every block size, sample rate and input,
  where the run has one of each. `DelaysToTheSample` and `DelaysBetweenSamples`:
  what a `[delread~]` or a `[vd~]` reads in any block is what came in that long
  before. `LineKeeps` is what each block keeps of the circular line: what stands
  at each index, on either side of the head, as a function of time, and that the
  place behind the end repeats the first; the invariant holds after n blocks by
  the least n where it does not. The proof found that the model had rounded a
  line's length down, where the code rounds up (`WholeSamples`): the run's rate,
  at which a millisecond has no fraction of a sample, could not tell.
  `FilterIsOneRecurrence`, `RampIsSeamless`, `PhaseIsKept` and
  `TablePlaysThrough` say of an object that has computed j samples what its
  fields are (`Remembered`, `OnRamp`, `InPhase`, `Playing`); a piece of any
  length leaves them so for the samples behind it, which makes the pieces of
  a block, and the blocks, one signal. `PhaseIsKept` is restricted to pieces of
  whole vectors: elsewhere the code loses the phase, as said above.
  `QuotientsAgree` says of `[mod]`, `[div]` and `[%]` what the run checks for one
  divisor.

Only model-checked: liveness (`EventuallySent`, `EventuallyAtRest`,
`EventuallyLoaded`), which is beyond this prover; `ProcessOrder`, `PatchFile` and
`PdGraph`, which rest on recursive operators, for which the prover has no
arithmetic backend, and on folds whose lemmas would need induction over data; and
the properties of `MessageObjects` and `AudioObjects`, which are about the
patches of their runs: what an object computes in one call is proved where
`AudioTime_proof` says so, what calls of many objects do together is not.

## Restrictions of the patches

The patches and inputs of the runs keep away from undefined behaviour that the
models do not describe: `[wrap]` with more than two arguments, a negative index
to `[list split]`, a bang inside a list to `[unpack]`, a negative number to
`[until]`, a symbol longer than its buffer, a sound file longer than its table, a
constant between -1 and 1 in `[mod]`; a delay longer than its line; messages to
`[osc~]` off eight samples and to `[phasor~]` off four, and to `[vline~]` at the
first sample of a block while a ramp runs (the deviations above). Receivers of
audio buses take the outlet's buffer, where `context.rs:470` would hand a
`[receive~]` that comes late the inlet's.

## Not modelled

* `[cputime]` reads the machine's clock; the random numbers of `MersenneTwister.h`
  are any of a set.
* `FixedSizeAllocator`: it takes the last free slot, nothing is freed, nothing
  uses it.
* Transforms (`[rfft~]`, `[rifft~]`): only Apple's build has them.
* Apple's build of the audio objects, which calls a library.
* The cutting of characters into words, the formatting of messages, printing and
  `[openpanel]`.
* An abstraction that names itself: reading never ends. External objects.
* What follows a panic or undefined behaviour.

## State of the work

All modules of the inventory that are not listed above as not modelled are
written and checked, and the theorems above proved. What is left is the process
order and the connections of `PdGraph`: that an order made from any patch lets
every object hear its sources, and that `addConnection` and `removeConnection`
keep both ends in agreement. Both need facts about sequences that are cut or
folded by an operator (`SelectSeq`, `FoldLeft`), whose proofs are inductions over
data. A sketch for the first: the items of a list stand behind all they read
from, and a buffer is not given out between its writer and its last reader,
which for the pool alone is `NeverSharedWhileUsed`.
