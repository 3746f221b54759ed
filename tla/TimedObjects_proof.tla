------------------------- MODULE TimedObjects_proof -------------------------
(***************************************************************************)
(* Proofs about TimedObjects, for every patch, every setting of intervals, *)
(* every depth of sends within sends and any number of blocks: what the    *)
(* objects keep and what is in the queue agree.                            *)
(***************************************************************************)
EXTENDS TimedObjects, OrderedQueue_proof, FiniteSetTheorems, FunctionTheorems

(***************************************************************************)
(* The theorems are about programs of which the queue refuses no message:  *)
(* it has room, as long as calls are to come.  (A message that is refused  *)
(* leaves its object with a pointer to what is not queued.)  The list of   *)
(* the C++ half is never full; nor is one that is as long as the calls are *)
(* many.                                                                   *)
(***************************************************************************)
Room == calls < MaxCalls => Len(queue) < MaxListSize
RoomForAll == MaxCalls <= MaxListSize

AtomLists == PipeAtoms \cup {<<Bang>>} \cup [{1} -> Int]

Message == [obj : Timed, outlet : {0}, ts : Nat, atoms : AtomLists, id : Nat]
Frame == [obj : Timed, at : Nat, it : Nat]

TypeOK ==
  /\ queue \in Seq(Message)
  /\ now \in Nat
  /\ stack \in Seq(Frame)
  /\ pending \in [Timers -> Nat]
  /\ held \in [Pipes -> Seq(Nat)]
  /\ interval \in [Timed -> Intervals]
  /\ ramp \in [Lines -> [current : Int, target : Int, slope : Int]]
  /\ last \in [Lines \cup Clocks -> Nat]
  /\ patch \subseteq Timed
  /\ calls \in Nat
  /\ started \in [Timers -> BOOLEAN]

-----------------------------------------------------------------------------
(* The inductive invariant *)

\* of n calls so far: pointers are given once, and those in the queue were given
Numbered(q, n) ==
  /\ \A j, k \in 1..Len(q) : q[j].id = q[k].id => j = k
  /\ \A j \in 1..Len(q) : q[j].id \in 1..n
  /\ Len(q) <= n

\* in order, but for the messages in X
OrderedBut(q, X) ==
  \A j, k \in 1..Len(q) : j < k /\ q[j].id \notin X /\ q[k].id \notin X => Before(q[j], q[k])

Sound(q, n, X) == q \in Seq(Message) /\ Numbered(q, n) /\ OrderedBut(q, X)

IdsOf(E, o) == {m.id : m \in {e \in E : e.obj = o}}

\* exactly the message that a timer points to is outstanding (OneOutstanding)
Armed ==
  \A o \in Timers : IdsOf(Entries(queue), o) = IF pending[o] = NULL THEN {} ELSE {pending[o]}

\* and there is one exactly when the timer was told so
Told == \A o \in Timers : started[o] <=> pending[o] # NULL

Flushes(j) == stack[j].it > 0

(***************************************************************************)
(* The frames of the stack: all sends under way are of one time; at most   *)
(* one flushes a given pipe, and it stands at a message of the pipe's list *)
(* that is in the queue.                                                   *)
(***************************************************************************)
Frames ==
  /\ \A j, k \in 1..Len(stack) : stack[j].at = stack[k].at
  /\ \A j, k \in 1..Len(stack) :
       Flushes(j) /\ Flushes(k) /\ stack[j].obj = stack[k].obj => j = k
  /\ \A j \in 1..Len(stack) : Flushes(j) =>
       /\ stack[j].obj \in Pipes
       /\ stack[j].it \in 1..Len(held[stack[j].obj])
       /\ held[stack[j].obj][stack[j].it] \in IdsOf(Entries(queue), stack[j].obj)

(***************************************************************************)
(* The list of a pipe is in the order of the calls and names messages of   *)
(* the pipe only; what the pipe has in the queue is in the list.           *)
(***************************************************************************)
ListedFor(p) ==
  /\ \A j \in 1..Len(held[p]) : held[p][j] \in 1..calls
  /\ \A j, k \in 1..Len(held[p]) : j < k => held[p][j] < held[p][k]
  /\ \A j \in 1..Len(held[p]) : \A m \in Entries(queue) : m.id = held[p][j] => m.obj = p
  /\ IdsOf(Entries(queue), p) \subseteq {held[p][j] : j \in 1..Len(held[p])}

Listed == \A p \in Pipes : ListedFor(p)

Flushers(p) == {j \in 1..Len(stack) : stack[j].obj = p /\ Flushes(j)}

\* a pipe has as much of its list in the queue as a flush has left
Counted ==
  \A p \in Pipes :
    LET queued == Cardinality(IdsOf(Entries(queue), p))
    IN  /\ \A j \in Flushers(p) : queued = Len(held[p]) - (stack[j].it - 1)
        /\ Flushers(p) = {} => queued = Len(held[p])

\* the messages whose time a flush has changed where they stood
MovedIds ==
  {x \in Nat : \E j \in 1..Len(stack) :
                 Flushes(j) /\ \E i \in 1..stack[j].it : x = held[stack[j].obj][i]}

\* they are of the time of the sends under way
MovedToNow ==
  \A m \in Entries(queue) : m.id \in MovedIds => \A j \in 1..Len(stack) : m.ts = stack[j].at

\* the message of a line carries the value that its slope leads to by then
OnTheRamp ==
  \A m \in Entries(queue) : m.obj \in Lines =>
    m.atoms = <<ramp[m.obj].current + ramp[m.obj].slope * (m.ts - last[m.obj])>>

IInv == /\ TypeOK /\ Sound(queue, calls, MovedIds) /\ Armed /\ Told
        /\ Frames /\ Listed /\ Counted /\ MovedToNow /\ OnTheRamp

-----------------------------------------------------------------------------
(* What the operations on a queue of numbered messages do to it. *)

LEMMA MessageFields ==
  ASSUME NEW m \in Message
  PROVE  m.obj \in Timed /\ m.outlet = 0 /\ m.ts \in Nat /\ m.id \in Nat /\ m.atoms \in AtomLists
BY DEF Message

(* The entries are told apart by their numbers. *)
LEMMA SoundEntries ==
  ASSUME NEW q, NEW n, NEW X, Sound(q, n, X)
  PROVE  /\ Entries(q) \subseteq Message
         /\ \A m \in Entries(q) : m.id \in 1..n
         /\ \A a, b \in Entries(q) : a.id = b.id => a = b
         /\ \A j \in 1..Len(q) : q[j] \in Entries(q) /\ q[j] \in Message
<1>1. \A j \in 1..Len(q) : q[j] \in Message
  BY ElementOfSeq DEF Sound
<1> QED  BY <1>1 DEF Entries, Sound, Numbered

(* Removal: the entry at the place is gone, the others stay as they were. *)
LEMMA RemoveAtSound ==
  ASSUME NEW q, NEW n \in Nat, NEW X, Sound(q, n, X), NEW p \in 1..Len(q)
  PROVE  /\ Sound(RemoveAt(q, p), n, X)
         /\ Entries(RemoveAt(q, p)) = Entries(q) \ {q[p]}
<1> DEFINE t == RemoveAt(q, p)
           from(x) == IF x < p THEN x ELSE x + 1
<1>0. q \in Seq(Message) /\ Numbered(q, n) /\ OrderedBut(q, X)
  BY DEF Sound
<1>1. /\ t \in Seq(Message) /\ Len(t) = Len(q) - 1
      /\ \A j \in 1..Len(q) - 1 : t[j] = IF j < p THEN q[j] ELSE q[j + 1]
      /\ Len(q) \in Nat
  BY <1>0, RemoveAtType
<1>2. \A j, k \in 1..Len(q) : q[j].id = q[k].id => j = k
  BY <1>0 DEF Numbered
<1> HIDE DEF t
<1>3. \A j \in 1..Len(t) : t[j] = q[from(j)] /\ from(j) \in 1..Len(q) /\ from(j) # p
  BY <1>1
<1>4. \A j, k \in 1..Len(t) : (from(j) = from(k) => j = k) /\ (j < k => from(j) < from(k))
  BY <1>1
<1>5. ASSUME NEW j \in 1..Len(q), j # p PROVE q[j] \in Entries(t)
  <2>1. CASE j < p
    <3>1. j \in 1..Len(t) /\ t[j] = q[j]  BY <1>1, <2>1
    <3> QED  BY <3>1 DEF Entries
  <2>2. CASE j > p
    <3>1. j - 1 \in 1..Len(t) /\ t[j - 1] = q[j]  BY <1>1, <2>2
    <3> QED  BY <3>1 DEF Entries
  <2> QED  BY <1>1, <1>5, <2>1, <2>2
<1> HIDE DEF from
<1>6. Entries(t) = Entries(q) \ {q[p]}
  <2>1. \A j \in 1..Len(t) : t[j] \in Entries(q) /\ t[j] # q[p]
    BY <1>2, <1>3 DEF Entries
  <2>2. Entries(t) \subseteq Entries(q) \ {q[p]}
    BY <2>1 DEF Entries
  <2>3. Entries(q) \ {q[p]} \subseteq Entries(t)
    BY <1>5 DEF Entries
  <2> QED  BY <2>2, <2>3
<1>7. Numbered(t, n)
  <2>1. \A j, k \in 1..Len(t) : t[j].id = t[k].id => j = k
    BY <1>2, <1>3, <1>4, SMTT(30)
  <2>2. \A j \in 1..Len(t) : t[j].id \in 1..n
    BY <1>0, <1>3 DEF Numbered
  <2>3. Len(t) <= n
    BY <1>0, <1>1 DEF Numbered
  <2> QED  BY <2>1, <2>2, <2>3 DEF Numbered
<1>8. OrderedBut(t, X)
  BY <1>0, <1>3, <1>4 DEF OrderedBut
<1> QED  BY <1>1, <1>6, <1>7, <1>8 DEF Sound, t

(***************************************************************************)
(* Insertion of the next call's message, where the scan of insert_message  *)
(* stops: it is not stopped by a message out of its place, as long as none *)
(* of those is later than the new one.                                     *)
(***************************************************************************)
LEMMA InsertSound ==
  ASSUME NEW q, NEW n \in Nat, NEW X, Sound(q, n, X),
         NEW e \in Message, e.id = n + 1, e.id \notin X, Len(q) < MaxListSize,
         \A m \in Entries(q) : m.id \in X => m.ts <= e.ts
  PROVE  /\ Sound(InsertMessage(q, e), n + 1, X)
         /\ Entries(InsertMessage(q, e)) = Entries(q) \cup {e}
<1> DEFINE p == InsertPosition(q, e.ts)
           t == InsertAt(q, p, e)
<1>0. q \in Seq(Message) /\ Numbered(q, n) /\ OrderedBut(q, X) /\ e.ts \in Nat
      /\ \A m \in Message : m.ts \in Nat /\ m.id \in Nat
  BY MessageFields DEF Sound
<1>1. /\ p \in 1..Len(q) + 1
      /\ p <= Len(q) => e.ts < q[p].ts
      /\ \A j \in 1..p - 1 : ~(e.ts < q[j].ts)
  BY <1>0, InsertPositionIs
<1> HIDE DEF p
<1>2. /\ t \in Seq(Message) /\ Len(t) = Len(q) + 1
      /\ \A j \in 1..Len(q) + 1 :
           t[j] = IF j < p THEN q[j] ELSE IF j = p THEN e ELSE q[j - 1]
      /\ Len(q) \in Nat
  BY <1>0, <1>1, InsertAtType
<1>3. InsertMessage(q, e) = t
  <2>1. Len(q) # MaxListSize
    BY <1>2, TimedAssumption
  <2> QED  BY <2>1 DEF InsertMessage, Full, p
<1>4. Entries(t) = Entries(q) \cup {e}
  BY <1>0, <1>1, InsertAtEntries
<1> HIDE DEF t
<1>5. \A j \in 1..Len(q) : q[j] \in Message /\ q[j].ts \in Nat /\ q[j].id \in 1..n /\ q[j] \in Entries(q)
  BY <1>0, SoundEntries, MessageFields DEF Numbered
<1> DEFINE from(x) == IF x < p THEN x ELSE x - 1
<1>6. \A j \in 1..Len(t) : j # p =>
        t[j] = q[from(j)] /\ from(j) \in 1..Len(q) /\ (j < p <=> from(j) < p)
  BY <1>1, <1>2
<1>7. /\ t[p] = e /\ p \in 1..Len(t)
      /\ \A j, k \in 1..Len(t) : j # p /\ k # p =>
           (from(j) = from(k) => j = k) /\ (j < k => from(j) < from(k))
  BY <1>1, <1>2
<1> HIDE DEF from
<1>8. Numbered(t, n + 1)
  <2>1. \A j \in 1..Len(t) : j # p => t[j].id \in 1..n
    BY <1>5, <1>6
  <2>2. \A j, k \in 1..Len(t) : t[j].id = t[k].id => j = k
    <3> TAKE j, k \in 1..Len(t)
    <3> HAVE t[j].id = t[k].id
    <3>1. CASE j # p /\ k # p
      <4>1. t[j] = q[from(j)] /\ from(j) \in 1..Len(q) /\ t[k] = q[from(k)] /\ from(k) \in 1..Len(q)
        BY <1>6, <3>1
      <4>2. from(j) = from(k)
        BY <1>0, <4>1 DEF Numbered
      <4> QED  BY <1>7, <3>1, <4>2
    <3>2. CASE j = p \/ k = p
      BY <1>7, <2>1, <3>2
    <3> QED  BY <3>1, <3>2
  <2>3. \A j \in 1..Len(t) : t[j].id \in 1..n + 1
    BY <1>7, <2>1
  <2>4. Len(t) <= n + 1
    BY <1>0, <1>2 DEF Numbered
  <2> QED  BY <2>2, <2>3, <2>4 DEF Numbered
<1>9. OrderedBut(t, X)
  <2> SUFFICES ASSUME NEW j \in 1..Len(t), NEW k \in 1..Len(t), j < k,
                      t[j].id \notin X, t[k].id \notin X
               PROVE  Before(t[j], t[k])
    BY DEF OrderedBut
  <2>1. CASE j # p /\ k # p
    BY <1>0, <1>6, <1>7, <2>1 DEF OrderedBut
  <2>2. CASE k = p
    <3>1. t[j] = q[from(j)] /\ from(j) \in 1..Len(q) /\ from(j) < p
      BY <1>1, <1>2, <1>6, <2>2
    <3>2. from(j) \in 1..p - 1
      BY <1>1, <1>2, <3>1
    <3>3. ~(e.ts < q[from(j)].ts) /\ q[from(j)].ts \in Nat /\ e.ts \in Nat
      BY <1>0, <1>1, <1>5, <3>1, <3>2
    <3>4. t[j].ts \in Nat /\ t[j].ts <= e.ts /\ t[k] = e
      BY <1>7, <2>2, <3>1, <3>3
    <3>5. t[j].id \in 1..n /\ e.id = n + 1
      BY <1>5, <3>1
    <3>6. t[j].id < e.id
      BY <3>5
    <3> QED  BY <3>3, <3>4, <3>6 DEF Before
  <2>3. CASE j = p
    <3> DEFINE i == from(k)
    <3>1. t[k] = q[i] /\ i \in 1..Len(q) /\ ~(i < p)
      BY <1>1, <1>2, <1>6, <2>3
    <3> HIDE DEF i
    <3>2. p \in 1..Len(q) /\ e.ts < q[p].ts /\ p <= i
      BY <1>1, <1>2, <3>1
    <3>3. q[p].id \notin X
      BY <1>0, <1>5, <3>2
    <3>4. p = i \/ Before(q[p], q[i])
      <4>1. i \in 1..Len(q) /\ q[i].id \notin X /\ (p # i => p < i)
        BY <1>2, <3>1, <3>2
      <4> QED  BY <1>0, <3>2, <3>3, <4>1 DEF OrderedBut
    <3>5. q[p].ts \in Nat /\ q[i].ts \in Nat /\ q[p].ts <= q[i].ts
      <4>1. q[p].ts \in Nat /\ q[i].ts \in Nat
        BY <1>5, <3>1, <3>2
      <4> QED  BY <3>4, <4>1, SMTT(30) DEF Before
    <3>6. e.ts < q[i].ts
      BY <1>0, <3>2, <3>5, SMTT(30)
    <3>7. t[j] = e
      BY <1>7, <2>3
    <3> QED  BY <3>1, <3>6, <3>7 DEF Before
  <2> QED  BY <2>1, <2>2, <2>3
<1> QED  BY <1>2, <1>3, <1>4, <1>8, <1>9 DEF Sound

(* A new time for a message that is in the queue: nothing else changes. *)
LEMMA SetTimestampSound ==
  ASSUME NEW q, NEW n \in Nat, NEW X, Sound(q, n, X), NEW ts \in Nat,
         NEW m \in Entries(q)
  PROVE  /\ Live(q, m.id)
         /\ Sound(SetTimestamp(q, m.id, ts), n, X \cup {m.id})
         /\ Entries(SetTimestamp(q, m.id, ts)) = (Entries(q) \ {m}) \cup {[m EXCEPT !.ts = ts]}
<1> DEFINE i == At(q, m.id)
           new == [m EXCEPT !.ts = ts]
           t == SetTimestamp(q, m.id, ts)
<1>0. q \in Seq(Message) /\ Numbered(q, n) /\ OrderedBut(q, X)
  BY DEF Sound
<1>1. PICK j \in 1..Len(q) : q[j] = m
  BY DEF Entries
<1>2. i = j
  <2>1. q[j].id = m.id /\ \A k \in 1..Len(q) : q[k].id = m.id => k = j
    BY <1>0, <1>1 DEF Numbered
  <2>2. i \in 1..Len(q) /\ q[i].id = m.id
    BY <2>1 DEF At
  <2> QED  BY <2>1, <2>2
<1>3. new \in Message /\ new.id = m.id
  <2>1. m \in Message
    BY SoundEntries
  <2> QED  BY <2>1 DEF Message
<1> HIDE DEF i, new
<1>4. t = [q EXCEPT ![j] = new]
  <2>1. t = [q EXCEPT ![i] = [q[i] EXCEPT !.ts = ts]]
    BY DEF SetTimestamp, i
  <2> QED  BY <1>1, <1>2, <2>1 DEF new
<1> HIDE DEF t
<1>5. /\ t \in Seq(Message) /\ Len(t) = Len(q)
      /\ \A k \in 1..Len(q) : t[k] = IF k = j THEN new ELSE q[k]
  BY <1>0, <1>3, <1>4, ExceptSeq
<1>6. \A k \in 1..Len(q) : t[k].id = q[k].id
  BY <1>1, <1>3, <1>5
<1>7. Numbered(t, n)
  BY <1>0, <1>5, <1>6 DEF Numbered
<1>8. OrderedBut(t, X \cup {m.id})
  <2>1. \A k \in 1..Len(q) : t[k].id \notin X \cup {m.id} => t[k] = q[k] /\ q[k].id \notin X
    BY <1>1, <1>3, <1>5
  <2> QED  BY <1>0, <1>5, <2>1 DEF OrderedBut
<1>9. Entries(t) = (Entries(q) \ {m}) \cup {new}
  <2>1. \A k \in 1..Len(q) : k # j => q[k] # m
    BY <1>0, <1>1 DEF Numbered
  <2>2. Entries(t) \subseteq (Entries(q) \ {m}) \cup {new}
    BY <1>5, <2>1 DEF Entries
  <2>3. \A k \in 1..Len(q) : q[k] # m => q[k] \in Entries(t)
    BY <1>1, <1>5 DEF Entries
  <2>4. Entries(q) \ {m} \subseteq Entries(t)
    BY <2>3 DEF Entries
  <2>5. new \in Entries(t)
    BY <1>5 DEF Entries
  <2> QED  BY <2>2, <2>4, <2>5
<1>10. Live(q, m.id)
  BY <1>1 DEF Live
<1> QED  BY <1>5, <1>7, <1>8, <1>9, <1>10 DEF Sound, new, t

(***************************************************************************)
(* cancel_message with a pointer to a queued message: it takes a message   *)
(* of the same object and time out of the queue, and it can be another one *)
(* only where that one is in front of it.                                  *)
(***************************************************************************)
LEMMA CancelPointerIs ==
  ASSUME NEW q, NEW n \in Nat, NEW X, Sound(q, n, X), NEW m \in Entries(q)
  PROVE  \E x \in Entries(q) :
           /\ x.obj = m.obj /\ x.ts = m.ts
           /\ x.id \notin X /\ m.id \notin X => x.id <= m.id
           /\ Sound(CancelPointer(q, m.id), n, X)
           /\ Entries(CancelPointer(q, m.id)) = Entries(q) \ {x}
<1>0. q \in Seq(Message) /\ Numbered(q, n) /\ OrderedBut(q, X) /\ Len(q) \in Nat
  BY LenProperties DEF Sound
<1>1. PICK j \in 1..Len(q) : q[j] = m
  BY DEF Entries
<1>2. At(q, m.id) = j /\ Live(q, m.id)
  <2>1. q[j].id = m.id /\ \A k \in 1..Len(q) : q[k].id = m.id => k = j
    BY <1>0, <1>1 DEF Numbered
  <2>2. At(q, m.id) \in 1..Len(q) /\ q[At(q, m.id)].id = m.id
    BY <2>1 DEF At
  <2> QED  BY <2>1, <2>2 DEF Live
<1>3. m \in Message
  BY SoundEntries
<1> DEFINE M(p) == Matches(q[p], m.obj, 0, m.ts, m.atoms)
           T == {p \in 1..Len(q) : M(p)}
<1>4. CancelPointer(q, m.id) = RemoveMessage(q, m.obj, 0, m.ts, m.atoms)
  BY <1>1, <1>2 DEF CancelPointer
<1>5. M(j)
  BY <1>1, <1>3, MessageFields DEF Matches, SameAtoms
<1>6. \A p \in 1..Len(q) : M(p) => q[p].obj = m.obj /\ q[p].ts = m.ts
  BY DEF Matches
<1> DEFINE p == CHOOSE p \in 1..Len(q) : M(p) /\ \A k \in 1..p - 1 : ~M(k)
<1>7. CancelPointer(q, m.id) = RemoveAt(q, p)
  BY <1>4, <1>5 DEF RemoveMessage
<1> HIDE DEF M
<1>8. p \in 1..Len(q) /\ M(p) /\ p <= j
  <2>1. T \in SUBSET Nat /\ T # {}
    BY <1>5
  <2>2. PICK x \in T : \A y \in T : x <= y
    <3> HIDE DEF T
    <3> QED  BY <2>1, LeastNatural
  <2>3. \A k \in 1..x - 1 : ~M(k)
    <3> TAKE k \in 1..x - 1
    <3>1. k \in 1..Len(q) /\ ~(x <= k)
      BY <1>0, <2>2
    <3> QED  BY <2>2, <3>1
  <2>4. p \in 1..Len(q) /\ M(p) /\ \A k \in 1..p - 1 : ~M(k)
    BY <2>2, <2>3
  <2> HIDE DEF p
  <2> QED  BY <1>0, <1>5, <2>4
<1> HIDE DEF p
<1>9. q[p].obj = m.obj /\ q[p].ts = m.ts
  BY <1>6, <1>8
<1>10. q[p] \in Entries(q)
  BY <1>8 DEF Entries
<1>11. q[p].id \notin X /\ m.id \notin X => q[p].id <= m.id
  <2>1. q[p].id \in Nat /\ m.id \in Nat /\ m.ts \in Nat
    BY <1>0, <1>3, <1>8, ElementOfSeq, MessageFields
  <2>2. CASE p = j
    BY <1>1, <2>1, <2>2
  <2>3. CASE p < j
    <3>1. q[p].id \notin X /\ m.id \notin X => Before(q[p], m)
      BY <1>0, <1>1, <1>8, <2>3 DEF OrderedBut
    <3> QED  BY <1>9, <2>1, <3>1 DEF Before
  <2> QED  BY <1>0, <1>8, <2>2, <2>3
<1>12. Sound(RemoveAt(q, p), n, X) /\ Entries(RemoveAt(q, p)) = Entries(q) \ {q[p]}
  BY <1>8, RemoveAtSound
<1> QED  BY <1>7, <1>9, <1>10, <1>11, <1>12

-----------------------------------------------------------------------------
(* The numbers of an object's messages, and how many there are. *)

LEMMA IdsOfIs ==
  ASSUME NEW E, NEW o
  PROVE  /\ \A x : x \in IdsOf(E, o) <=> \E m \in E : m.obj = o /\ m.id = x
         /\ \A e : IdsOf(E \cup {e}, o) = IF e.obj = o THEN IdsOf(E, o) \cup {e.id} ELSE IdsOf(E, o)
BY DEF IdsOf

LEMMA IdsOfRemoved ==
  ASSUME NEW E, NEW o, NEW e \in E, \A a, b \in E : a.id = b.id => a = b
  PROVE  IdsOf(E \ {e}, o) = IF e.obj = o THEN IdsOf(E, o) \ {e.id} ELSE IdsOf(E, o)
BY DEF IdsOf

(* It depends on that object's messages only. *)
LEMMA IdsOfOthers ==
  ASSUME NEW E, NEW D, NEW o, {e \in D : e.obj = o} = {e \in E : e.obj = o}
  PROVE  IdsOf(D, o) = IdsOf(E, o)
BY DEF IdsOf

LEMMA IdsFinite ==
  ASSUME NEW q, NEW n \in Nat, NEW X, Sound(q, n, X), NEW o
  PROVE  IsFiniteSet(IdsOf(Entries(q), o)) /\ Cardinality(IdsOf(Entries(q), o)) \in Nat
<1>1. IdsOf(Entries(q), o) \subseteq 1..n
  BY SoundEntries, IdsOfIs
<1>2. IsFiniteSet(1..n)
  BY FS_Interval
<1>3. IsFiniteSet(IdsOf(Entries(q), o))
  BY <1>1, <1>2, FS_Subset
<1> QED  BY <1>3, FS_CardinalityType

(* A list of increasing numbers has as many members as its length. *)
LEMMA IncreasingList ==
  ASSUME NEW s \in Seq(Nat), \A j, k \in 1..Len(s) : j < k => s[j] < s[k]
  PROVE  /\ IsFiniteSet({s[j] : j \in 1..Len(s)})
         /\ Cardinality({s[j] : j \in 1..Len(s)}) = Len(s)
         /\ \A j, k \in 1..Len(s) : s[j] = s[k] => j = k
<1> DEFINE T == {s[j] : j \in 1..Len(s)}
           f == [j \in 1..Len(s) |-> s[j]]
<1>1. Len(s) \in Nat /\ \A j \in 1..Len(s) : s[j] \in Nat
  BY ElementOfSeq, LenProperties
<1>2. \A j, k \in 1..Len(s) : s[j] = s[k] => j = k
  <2> SUFFICES ASSUME NEW j \in 1..Len(s), NEW k \in 1..Len(s), s[j] = s[k], j # k PROVE FALSE
    OBVIOUS
  <2>1. j < k \/ k < j
    BY <1>1
  <2> QED  BY <1>1, <2>1
<1>3. f \in Bijection(1..Len(s), T)
  <2>1. f \in [1..Len(s) -> T] /\ \A j \in 1..Len(s) : f[j] = s[j]
    OBVIOUS
  <2>2. \A t \in T : \E j \in 1..Len(s) : f[j] = t
    OBVIOUS
  <2> HIDE DEF f, T
  <2>3. \A j, k \in 1..Len(s) : f[j] = f[k] => j = k
    BY <1>2, <2>1
  <2> QED  BY <2>1, <2>2, <2>3 DEF Bijection, Surjection, Injection, IsInjective
<1> HIDE DEF f, T
<1>4. IsFiniteSet(1..Len(s)) /\ Cardinality(1..Len(s)) = Len(s)
  <2> DEFINE n == Len(s)
  <2>1. n \in Int /\ 1 \in Int /\ n >= 0
    BY <1>1
  <2> HIDE DEF n
  <2>2. IsFiniteSet(1..n) /\ Cardinality(1..n) = IF 1 > n THEN 0 ELSE n - 1 + 1
    BY <2>1, FS_Interval
  <2>3. Cardinality(1..n) = n
    BY <2>1, <2>2
  <2> QED  BY <2>2, <2>3 DEF n
<1>5. ExistsBijection(1..Len(s), T)
  BY <1>3 DEF ExistsBijection
<1>6. IsFiniteSet(T) /\ Cardinality(T) = Len(s)
  BY <1>4, <1>5, FS_Bijection
<1> QED  BY <1>2, <1>6 DEF T

(* Where as many are queued as are listed, every one that is listed is. *)
LEMMA AllQueued ==
  ASSUME NEW s \in Seq(Nat), \A j, k \in 1..Len(s) : j < k => s[j] < s[k],
         NEW U, U \subseteq {s[j] : j \in 1..Len(s)}, Cardinality(U) = Len(s)
  PROVE  U = {s[j] : j \in 1..Len(s)}
<1> DEFINE T == {s[j] : j \in 1..Len(s)}
<1>1. IsFiniteSet(T) /\ Cardinality(T) = Len(s)
  BY IncreasingList
<1> HIDE DEF T
<1>2. U \in SUBSET T
  BY DEF T
<1>3. U = T
  BY <1>1, <1>2, FS_Subset
<1> QED  BY <1>3 DEF T

-----------------------------------------------------------------------------
(* What a step that is no flush leaves as it was. *)

\* the sends under way that are flushes are the same, and stay of one time
SameFlushes ==
  /\ stack' \in Seq(Frame)
  /\ \A j, k \in 1..Len(stack') : stack'[j].at = stack'[k].at
  /\ \A j \in 1..Len(stack') : stack'[j].it > 0 => j \in 1..Len(stack) /\ stack'[j] = stack[j]
  /\ \A j \in 1..Len(stack) : stack[j].it > 0 => j \in 1..Len(stack') /\ stack'[j] = stack[j]

LEMMA StackSame ==
  ASSUME TypeOK, Frames, stack' = stack
  PROVE  SameFlushes
BY DEF TypeOK, Frames, SameFlushes

LEMMA FrameFields ==
  ASSUME TypeOK, NEW j \in 1..Len(stack)
  PROVE  stack[j] \in Frame /\ stack[j].obj \in Timed /\ stack[j].at \in Nat /\ stack[j].it \in Nat
<1>1. stack[j] \in Frame
  BY ElementOfSeq DEF TypeOK
<1> QED  BY <1>1 DEF Frame

LEMMA TopIs ==
  ASSUME TypeOK, stack # << >>
  PROVE  /\ Len(stack) \in 1..Len(stack) /\ Len(stack) \in Nat
         /\ Top = stack[Len(stack)] /\ Top \in Frame
         /\ Top.obj \in Timed /\ Top.at \in Nat /\ Top.it \in Nat
<1>1. Len(stack) \in 1..Len(stack) /\ Len(stack) \in Nat
  BY EmptySeq DEF TypeOK
<1> QED  BY <1>1, FrameFields DEF Top

(* A send begins, at the time of those under way. *)
LEMMA PushKeepsFlushes ==
  ASSUME TypeOK, Frames, NEW o \in Timed, NEW ts \in Nat, stack # << >> => ts = Top.at,
         Push(o, ts, 0)
  PROVE  SameFlushes
<1> DEFINE f == [obj |-> o, at |-> ts, it |-> 0]
<1>1. f \in Frame /\ stack \in Seq(Frame) /\ Len(stack) \in Nat
  BY LenProperties DEF Frame, TypeOK
<1>2. /\ stack' \in Seq(Frame) /\ Len(stack') = Len(stack) + 1
      /\ \A j \in 1..Len(stack) : stack'[j] = stack[j]
      /\ stack'[Len(stack) + 1] = f
  BY <1>1, AppendProperties DEF Push
<1>3. \A j \in 1..Len(stack) : stack[j].at = ts
  <2> TAKE j \in 1..Len(stack)
  <2>1. stack # << >>
    BY EmptySeq
  <2> QED  BY <2>1, TopIs DEF Frames
<1>4. f.at = ts /\ ~(f.it > 0)
  OBVIOUS
<1> HIDE DEF f
<1>5. \A j \in 1..Len(stack') : j \in 1..Len(stack) \/ j = Len(stack) + 1
  BY <1>1, <1>2
<1>6. \A j \in 1..Len(stack') : stack'[j].at = ts
  BY <1>2, <1>3, <1>4, <1>5
<1>7. \A j \in 1..Len(stack) : j \in 1..Len(stack')
  BY <1>1, <1>2
<1> QED  BY <1>2, <1>4, <1>5, <1>6, <1>7 DEF SameFlushes

(* A send other than a flush ends. *)
LEMMA ReturnedIs ==
  ASSUME TypeOK, stack # << >>
  PROVE  /\ Returned \in Seq(Frame) /\ Len(Returned) = Len(stack) - 1
         /\ \A j \in 1..Len(stack) - 1 : Returned[j] = stack[j]
<1>1. Len(stack) \in Nat /\ Len(stack) \in 1..Len(stack)
  BY TopIs
<1>2. \A j \in 1..Len(stack) - 1 : stack[j] \in Frame
  BY <1>1, FrameFields
<1>3. Len(stack) - 1 \in Int /\ 1 \in Int
  BY <1>1
<1>4. /\ Returned \in Seq(Frame)
      /\ Len(Returned) = IF 1 <= Len(stack) - 1 THEN Len(stack) - 1 - 1 + 1 ELSE 0
      /\ \A i \in 1..Len(stack) - 1 - 1 + 1 : Returned[i] = stack[1 + i - 1]
  BY <1>2, <1>3, SubSeqProperties DEF Returned
<1>5. Len(Returned) = Len(stack) - 1
  <2> DEFINE n == Len(stack)
             r == Len(Returned)
  <2>1. n \in Nat /\ n >= 1 /\ r = IF 1 <= n - 1 THEN n - 1 - 1 + 1 ELSE 0
    BY <1>1, <1>4
  <2> HIDE DEF n, r
  <2>2. r = n - 1
    BY <2>1
  <2> QED  BY <2>2 DEF n, r
<1>6. \A j \in 1..Len(stack) - 1 : Returned[j] = stack[j]
  BY <1>1, <1>4
<1> QED  BY <1>4, <1>5, <1>6

LEMMA ReturnKeepsFlushes ==
  ASSUME TypeOK, Frames, stack # << >>, Top.it = 0, stack' = Returned
  PROVE  SameFlushes
<1>1. /\ stack' \in Seq(Frame) /\ Len(stack') = Len(stack) - 1
      /\ \A j \in 1..Len(stack) - 1 : stack'[j] = stack[j]
      /\ Len(stack) \in Nat /\ stack[Len(stack)].it = 0
  BY ReturnedIs, TopIs
<1>2. \A j \in 1..Len(stack') : j \in 1..Len(stack) /\ stack'[j] = stack[j]
  BY <1>1
<1>3. \A j \in 1..Len(stack) : j # Len(stack) => j \in 1..Len(stack')
  BY <1>1
<1> QED  BY <1>1, <1>2, <1>3, SMTT(30) DEF SameFlushes, Frames

(* Only messages that were given before can have been moved. *)
LEMMA MovedAreListed ==
  ASSUME TypeOK, Frames, Listed, NEW x \in MovedIds
  PROVE  /\ x \in 1..calls
         /\ \E j \in 1..Len(stack) :
              /\ Flushes(j) /\ stack[j].obj \in Pipes
              /\ \E i \in 1..Len(held[stack[j].obj]) : x = held[stack[j].obj][i]
<1>1. PICK j \in 1..Len(stack) : Flushes(j) /\ \E i \in 1..stack[j].it : x = held[stack[j].obj][i]
  BY DEF MovedIds
<1>2. PICK i \in 1..stack[j].it : x = held[stack[j].obj][i]
  BY <1>1
<1>3. stack[j].obj \in Pipes /\ stack[j].it \in 1..Len(held[stack[j].obj])
  BY <1>1 DEF Frames
<1>4. i \in 1..Len(held[stack[j].obj])
  <2> DEFINE n == Len(held[stack[j].obj])
             k == stack[j].it
  <2>1. n \in Nat
    BY <1>3, LenProperties DEF TypeOK
  <2>2. k \in 1..n /\ i \in 1..k
    BY <1>2, <1>3
  <2> HIDE DEF n, k
  <2>3. i \in 1..n
    BY <2>1, <2>2
  <2> QED  BY <2>3 DEF n
<1> QED  BY <1>1, <1>2, <1>3, <1>4 DEF Listed, ListedFor

(* Without sends under way nothing is out of its place. *)
LEMMA NothingMoved ==
  ASSUME TypeOK, stack = << >>
  PROVE  MovedIds = {}
<1>1. 1..Len(stack) = {}
  BY EmptySeq
<1> QED  BY <1>1 DEF MovedIds

(***************************************************************************)
(* What is invariant about the pipes is kept by a step that leaves the     *)
(* lists, the flushes and the pipes' messages in the queue as they are.    *)
(***************************************************************************)
LEMMA PipesKept ==
  ASSUME TypeOK, Frames, Listed, Counted, MovedToNow, SameFlushes,
         held' = held, calls' \in Nat, calls <= calls',
         \A p \in Pipes : {e \in Entries(queue') : e.obj = p} = {e \in Entries(queue) : e.obj = p},
         \A m \in Entries(queue') : m \in Entries(queue) \/ m.id \notin 1..calls
  PROVE  Frames' /\ Listed' /\ Counted' /\ MovedToNow' /\ MovedIds' = MovedIds
<1>1. \A p \in Pipes : IdsOf(Entries(queue'), p) = IdsOf(Entries(queue), p)
  BY IdsOfOthers
<1>2. \A x \in 1..calls : x \in 1..calls'
  BY DEF TypeOK
<1>3. MovedIds' = MovedIds
  <2>1. ASSUME NEW x \in MovedIds' PROVE x \in MovedIds
    <3>1. PICK j \in 1..Len(stack') :
            stack'[j].it > 0 /\ \E i \in 1..stack'[j].it : x = held[stack'[j].obj][i]
      BY <2>1 DEF MovedIds, Flushes
    <3>2. j \in 1..Len(stack) /\ stack[j] = stack'[j] /\ x \in Nat
      BY <2>1, <3>1 DEF SameFlushes, MovedIds
    <3> QED  BY <3>1, <3>2 DEF MovedIds, Flushes
  <2>2. ASSUME NEW x \in MovedIds PROVE x \in MovedIds'
    <3>1. PICK j \in 1..Len(stack) :
            stack[j].it > 0 /\ \E i \in 1..stack[j].it : x = held[stack[j].obj][i]
      BY <2>2 DEF MovedIds, Flushes
    <3>2. j \in 1..Len(stack') /\ stack'[j] = stack[j] /\ x \in Nat
      BY <2>2, <3>1 DEF SameFlushes, MovedIds
    <3> QED  BY <3>1, <3>2 DEF MovedIds, Flushes
  <2> QED  BY <2>1, <2>2
<1>4. Frames'
  <2>1. \A j, k \in 1..Len(stack') :
          stack'[j].it > 0 /\ stack'[k].it > 0 /\ stack'[j].obj = stack'[k].obj => j = k
    BY DEF Frames, SameFlushes, Flushes
  <2>2. \A j \in 1..Len(stack') : stack'[j].it > 0 =>
          /\ stack'[j].obj \in Pipes
          /\ stack'[j].it \in 1..Len(held'[stack'[j].obj])
          /\ held'[stack'[j].obj][stack'[j].it] \in IdsOf(Entries(queue'), stack'[j].obj)
    BY <1>1 DEF Frames, SameFlushes, Flushes
  <2> QED  BY <2>1, <2>2 DEF Frames, SameFlushes, Flushes
<1>5. Listed'
  <2> SUFFICES ASSUME NEW p \in Pipes
               PROVE  /\ \A j \in 1..Len(held[p]) : held[p][j] \in 1..calls'
                      /\ \A j, k \in 1..Len(held[p]) : j < k => held[p][j] < held[p][k]
                      /\ \A j \in 1..Len(held[p]) : \A m \in Entries(queue') :
                           m.id = held[p][j] => m.obj = p
                      /\ IdsOf(Entries(queue'), p) \subseteq {held[p][j] : j \in 1..Len(held[p])}
    BY DEF Listed, ListedFor
  <2>1. \A j \in 1..Len(held[p]) : held[p][j] \in 1..calls
    BY DEF Listed, ListedFor
  <2>2. \A j \in 1..Len(held[p]) : \A m \in Entries(queue') : m.id = held[p][j] => m.obj = p
    BY <2>1 DEF Listed, ListedFor
  <2>3. IdsOf(Entries(queue'), p) \subseteq {held[p][j] : j \in 1..Len(held[p])}
    BY <1>1 DEF Listed, ListedFor
  <2>4. \A j, k \in 1..Len(held[p]) : j < k => held[p][j] < held[p][k]
    BY DEF Listed, ListedFor
  <2> QED  BY <1>2, <2>1, <2>2, <2>3, <2>4
<1>6. Counted'
  <2>1. \A p : Flushers(p)' = Flushers(p)
    BY DEF Flushers, SameFlushes, Flushes
  <2>2. \A p : \A j \in Flushers(p) : stack'[j] = stack[j]
    BY DEF Flushers, SameFlushes, Flushes
  <2> QED  BY <1>1, <2>1, <2>2 DEF Counted
<1>7. MovedToNow'
  <2> SUFFICES ASSUME NEW m \in Entries(queue'), m.id \in MovedIds, NEW k \in 1..Len(stack')
               PROVE  m.ts = stack'[k].at
    BY <1>3 DEF MovedToNow
  <2>1. PICK j \in 1..Len(stack) : Flushes(j)
    BY MovedAreListed
  <2>2. j \in 1..Len(stack') /\ stack'[j] = stack[j]
    BY <2>1 DEF SameFlushes, Flushes
  <2>3. m \in Entries(queue)
    BY MovedAreListed
  <2>4. m.ts = stack[j].at
    BY <2>3 DEF MovedToNow
  <2> QED  BY <2>2, <2>4 DEF SameFlushes
<1> QED  BY <1>3, <1>4, <1>5, <1>6, <1>7

(* The timers, where a step leaves them and their messages as they are. *)
LEMMA TimersKept ==
  ASSUME Armed, Told, OnTheRamp, pending' = pending, started' = started, ramp' = ramp,
         \A l \in Lines : last'[l] = last[l],
         \A o \in Timers : {e \in Entries(queue') : e.obj = o} = {e \in Entries(queue) : e.obj = o}
  PROVE  Armed' /\ Told' /\ OnTheRamp'
<1>1. \A o \in Timers : IdsOf(Entries(queue'), o) = IdsOf(Entries(queue), o)
  BY IdsOfOthers
<1>2. Armed' /\ Told'
  BY <1>1 DEF Armed, Told
<1>3. \A m \in Entries(queue') : m.obj \in Lines => m \in Entries(queue)
  BY DEF Timers
<1>4. OnTheRamp'
  BY <1>3 DEF OnTheRamp
<1> QED  BY <1>2, <1>4

-----------------------------------------------------------------------------
(* The steps that leave every timer and pipe as it is. *)

LEMMA QuietStep ==
  ASSUME IInv, SameFlushes, held' = held, calls' = calls, pending' = pending, started' = started,
         now' \in Nat, interval' \in [Timed -> Intervals], patch' = patch, ramp' = ramp,
         last' \in [Lines \cup Clocks -> Nat], \A l \in Lines : last'[l] = last[l],
         Sound(queue', calls, MovedIds), Entries(queue') \subseteq Entries(queue),
         \A e \in Entries(queue) : e.obj \in Timers \cup Pipes => e \in Entries(queue')
  PROVE  IInv'
<1>1. \A o \in Timers \cup Pipes :
        {e \in Entries(queue') : e.obj = o} = {e \in Entries(queue) : e.obj = o}
  OBVIOUS
<1>2. Frames' /\ Listed' /\ Counted' /\ MovedToNow' /\ MovedIds' = MovedIds
  <2>1. calls' \in Nat /\ calls <= calls'
    BY DEF IInv, TypeOK
  <2> QED  BY <1>1, <2>1, PipesKept DEF IInv
<1>3. Armed' /\ Told' /\ OnTheRamp'
  BY <1>1, TimersKept DEF IInv
<1>4. TypeOK'
  BY DEF TypeOK, IInv, SameFlushes, Sound
<1> QED  BY <1>2, <1>3, <1>4 DEF IInv

OthersOf(o) == {e \in Entries(queue) : e.obj # o}

(***************************************************************************)
(* The steps of a timer: it ends with no message in the queue, or with the *)
(* one it has just scheduled, whatever it had before.                      *)
(***************************************************************************)
TimerEnds(o, q) ==
  \/ /\ calls' = calls
     /\ Sound(q, calls, MovedIds)
     /\ Entries(q) = OthersOf(o)
     /\ pending' = [pending EXCEPT ![o] = NULL]
     /\ started' = [started EXCEPT ![o] = FALSE]
  \/ /\ calls' = calls + 1
     /\ Sound(q, calls + 1, MovedIds)
     /\ \E m \in Message :
          /\ m.obj = o /\ m.id = calls + 1
          /\ Entries(q) = OthersOf(o) \cup {m}
          /\ o \in Lines =>
               m.atoms = <<ramp'[o].current + ramp'[o].slope * (m.ts - last'[o])>>
     /\ pending' = [pending EXCEPT ![o] = calls + 1]
     /\ started' = [started EXCEPT ![o] = TRUE]

LEMMA TimerStep ==
  ASSUME IInv, NEW o \in Timers, SameFlushes, held' = held, patch' = patch,
         now' \in Nat, interval' \in [Timed -> Intervals],
         ramp' \in [Lines -> [current : Int, target : Int, slope : Int]],
         last' \in [Lines \cup Clocks -> Nat],
         \A l \in Lines : l # o => ramp'[l] = ramp[l] /\ last'[l] = last[l],
         TimerEnds(o, queue')
  PROVE  IInv'
<1>1. calls \in Nat /\ calls' \in Nat /\ calls <= calls'
  BY DEF IInv, TypeOK, TimerEnds
<1>2. \A p \in Pipes : p # o
  BY TimedAssumption DEF Timers
<1>3. \A u : u # o => {e \in Entries(queue') : e.obj = u} = {e \in Entries(queue) : e.obj = u}
  BY DEF TimerEnds, OthersOf
<1>4. \A m \in Entries(queue') : m \in Entries(queue) \/ m.id \notin 1..calls
  BY <1>1 DEF TimerEnds, OthersOf
<1>5. Frames' /\ Listed' /\ Counted' /\ MovedToNow' /\ MovedIds' = MovedIds
  BY <1>1, <1>2, <1>3, <1>4, PipesKept DEF IInv
<1>6. \A u \in Timers : u # o => IdsOf(Entries(queue'), u) = IdsOf(Entries(queue), u)
  BY <1>3, IdsOfOthers, SMTT(30)
<1>7. IdsOf(OthersOf(o), o) = {}
  BY DEF IdsOf, OthersOf
<1>8. Armed' /\ Told'
  <2>1. CASE calls' = calls /\ Entries(queue') = OthersOf(o)
             /\ pending' = [pending EXCEPT ![o] = NULL] /\ started' = [started EXCEPT ![o] = FALSE]
    <3>1. IdsOf(Entries(queue'), o) = {}
      BY <1>7, <2>1
    <3>2. pending'[o] = NULL /\ ~started'[o]
      BY <2>1 DEF IInv, TypeOK
    <3>3. \A u \in Timers : u # o => pending'[u] = pending[u] /\ started'[u] = started[u]
      BY <2>1 DEF IInv, TypeOK
    <3> QED  BY <1>6, <3>1, <3>2, <3>3 DEF Armed, Told, IInv
  <2>2. CASE /\ calls' = calls + 1
             /\ \E m \in Message : m.obj = o /\ m.id = calls + 1 /\ Entries(queue') = OthersOf(o) \cup {m}
             /\ pending' = [pending EXCEPT ![o] = calls + 1] /\ started' = [started EXCEPT ![o] = TRUE]
    <3>1. IdsOf(Entries(queue'), o) = {calls + 1}
      <4>1. PICK m \in Message : m.obj = o /\ m.id = calls + 1 /\ Entries(queue') = OthersOf(o) \cup {m}
        BY <2>2
      <4>2. IdsOf(Entries(queue'), o) = IdsOf(OthersOf(o), o) \cup {m.id}
        BY <4>1, IdsOfIs
      <4> QED  BY <1>7, <4>1, <4>2
    <3>2. pending'[o] = calls + 1 /\ pending'[o] # NULL /\ started'[o]
      BY <1>1, <2>2 DEF IInv, TypeOK, NULL
    <3>3. \A u \in Timers : u # o => pending'[u] = pending[u] /\ started'[u] = started[u]
      BY <2>2 DEF IInv, TypeOK
    <3> QED  BY <1>6, <3>1, <3>2, <3>3 DEF Armed, Told, IInv
  <2> QED  BY <2>1, <2>2 DEF TimerEnds
<1>9. OnTheRamp'
  <2> SUFFICES ASSUME NEW m \in Entries(queue'), m.obj \in Lines
               PROVE  m.atoms = <<ramp'[m.obj].current
                                    + ramp'[m.obj].slope * (m.ts - last'[m.obj])>>
    BY DEF OnTheRamp
  <2>1. CASE m.obj = o
    BY <2>1 DEF TimerEnds, OthersOf
  <2>2. CASE m.obj # o
    <3>1. m \in Entries(queue)
      BY <1>3, <2>2
    <3> QED  BY <2>2, <3>1 DEF IInv, OnTheRamp
  <2> QED  BY <2>1, <2>2
<1>10. TypeOK'
  <2>1. queue' \in Seq(Message)
    BY DEF TimerEnds, Sound
  <2>2. pending' \in [Timers -> Nat] /\ started' \in [Timers -> BOOLEAN]
    <3>1. \E x \in Nat, b \in BOOLEAN :
            pending' = [pending EXCEPT ![o] = x] /\ started' = [started EXCEPT ![o] = b]
      <4>1. NULL \in Nat /\ calls + 1 \in Nat
        BY <1>1 DEF NULL
      <4> HIDE DEF NULL
      <4>2. CASE calls' = calls /\ pending' = [pending EXCEPT ![o] = NULL]
                 /\ started' = [started EXCEPT ![o] = FALSE]
        BY <4>1, <4>2
      <4>3. CASE pending' = [pending EXCEPT ![o] = calls + 1]
                 /\ started' = [started EXCEPT ![o] = TRUE]
        BY <4>1, <4>3
      <4> QED  BY <4>2, <4>3 DEF TimerEnds
    <3> QED  BY <3>1 DEF IInv, TypeOK
  <2> QED  BY <1>1, <2>1, <2>2 DEF IInv, TypeOK, SameFlushes
<1>11. Sound(queue', calls', MovedIds)
  BY DEF TimerEnds
<1> QED  BY <1>5, <1>8, <1>9, <1>10, <1>11 DEF IInv

-----------------------------------------------------------------------------
(* How the timers come to that: cancelling, taking off the queue, scheduling. *)

(* In the queue, nothing of a timer but its pending message. *)
LEMMA OnlyPending ==
  ASSUME IInv, NEW o \in Timers, NEW m \in Entries(queue), m.obj = o
  PROVE  /\ pending[o] = m.id /\ pending[o] # NULL
         /\ Entries(queue) \ {m} = OthersOf(o)
         /\ \A e \in Entries(queue) : e.obj = o => e = m
<1>1. m.id \in IdsOf(Entries(queue), o)
  BY IdsOfIs
<1>2. pending[o] # NULL /\ IdsOf(Entries(queue), o) = {pending[o]}
  BY <1>1 DEF IInv, Armed
<1>3. \A e \in Entries(queue) : e.obj = o => e.id = m.id
  BY <1>1, <1>2, IdsOfIs
<1>4. \A e \in Entries(queue) : e.obj = o => e = m
  BY <1>3, SoundEntries DEF IInv
<1> QED  BY <1>1, <1>2, <1>4 DEF OthersOf

LEMMA DisarmedIs ==
  ASSUME IInv, NEW o \in Timers
  PROVE  Sound(Disarmed(o), calls, MovedIds) /\ Entries(Disarmed(o)) = OthersOf(o)
<1>1. CASE pending[o] = NULL
  <2>1. IdsOf(Entries(queue), o) = {}
    BY <1>1 DEF IInv, Armed
  <2>2. Entries(queue) = OthersOf(o)
    BY <2>1 DEF IdsOf, OthersOf
  <2> QED  BY <1>1, <2>2 DEF Disarmed, IInv
<1>2. CASE pending[o] # NULL
  <2>1. pending[o] \in IdsOf(Entries(queue), o)
    BY <1>2 DEF IInv, Armed
  <2>2. PICK m \in Entries(queue) : m.obj = o /\ m.id = pending[o]
    BY <2>1, IdsOfIs
  <2>3. calls \in Nat /\ Sound(queue, calls, MovedIds)
    BY DEF IInv, TypeOK
  <2>4. PICK x \in Entries(queue) :
          /\ x.obj = m.obj
          /\ Sound(CancelPointer(queue, m.id), calls, MovedIds)
          /\ Entries(CancelPointer(queue, m.id)) = Entries(queue) \ {x}
    BY <2>3, CancelPointerIs
  <2>5. x = m /\ Entries(queue) \ {m} = OthersOf(o)
    BY <2>2, <2>4, OnlyPending
  <2> QED  BY <1>2, <2>2, <2>4, <2>5 DEF Disarmed
<1> QED  BY <1>1, <1>2

LEMMA FirstIs ==
  ASSUME IInv, queue # << >>
  PROVE  /\ First(queue) \in Entries(queue) /\ First(queue) \in Message
         /\ Sound(Popped(queue), calls, MovedIds)
         /\ Entries(Popped(queue)) = Entries(queue) \ {First(queue)}
<1>1. Len(queue) \in Nat /\ 1 \in 1..Len(queue) /\ calls \in Nat /\ Sound(queue, calls, MovedIds)
  BY EmptySeq DEF IInv, TypeOK
<1> QED  BY <1>1, SoundEntries, RemoveAtSound DEF First, Popped

(* A queue with no other entries is not longer. *)
LEMMA ShorterQueue ==
  ASSUME NEW q, NEW r, NEW n, NEW X, Sound(q, n, X), Sound(r, n, X), Entries(q) \subseteq Entries(r)
  PROVE  Len(q) <= Len(r) /\ Len(q) \in Nat /\ Len(r) \in Nat
<1> DEFINE Q == 1..Len(q)
           R == 1..Len(r)
           place == [j \in Q |-> CHOOSE k \in R : r[k] = q[j]]
<1>1. Len(q) \in Nat /\ Len(r) \in Nat
  BY LenProperties DEF Sound
<1>2. \A j \in Q : \E k \in R : r[k] = q[j]
  BY DEF Entries
<1>3. \A j, k \in Q : q[j] = q[k] => j = k
  BY DEF Sound, Numbered
<1> HIDE DEF Q, R
<1>4. \A j \in Q : place[j] \in R /\ r[place[j]] = q[j]
  BY <1>2
<1>5. place \in [Q -> R] /\ \A j, k \in Q : place[j] = place[k] => j = k
  BY <1>3, <1>4
<1>6. DOMAIN place = Q
  OBVIOUS
<1> HIDE DEF place
<1>7. place \in Injection(Q, R)
  BY <1>5, <1>6 DEF Injection, IsInjective
<1>8. ExistsInjection(Q, R)
  BY <1>7 DEF ExistsInjection
<1> QED  BY <1>1, <1>8, Fun_NatInjLeq DEF Q, R

LEMMA ScheduleIs ==
  ASSUME Room, IInv, calls < MaxCalls, NEW q, Sound(q, calls, MovedIds),
         Entries(q) \subseteq Entries(queue),
         NEW o \in Timed, NEW ts \in Nat, stack # << >> => Top.at <= ts,
         NEW atoms \in AtomLists
  PROVE  LET e == [obj |-> o, outlet |-> 0, ts |-> ts, atoms |-> atoms, id |-> calls + 1]
         IN  /\ e \in Message
             /\ Sound(Schedule(q, o, ts, atoms), calls + 1, MovedIds)
             /\ Entries(Schedule(q, o, ts, atoms)) = Entries(q) \cup {e}
<1> DEFINE e == [obj |-> o, outlet |-> 0, ts |-> ts, atoms |-> atoms, id |-> calls + 1]
<1>1. calls \in Nat /\ e \in Message /\ e.id = calls + 1 /\ e.ts = ts
  BY DEF IInv, TypeOK, Message
<1>2. e.id \notin MovedIds
  BY <1>1, MovedAreListed DEF IInv
<1>3. Len(q) < MaxListSize
  <2>1. Len(queue) < MaxListSize
    BY DEF Room
  <2>2. Len(q) <= Len(queue) /\ Len(q) \in Nat /\ Len(queue) \in Nat
    BY <1>1, ShorterQueue DEF IInv
  <2> QED  BY <2>1, <2>2, TimedAssumption
<1>4. ASSUME NEW m \in Entries(q), m.id \in MovedIds PROVE m.ts <= e.ts
  <2>1. PICK j \in 1..Len(stack) : TRUE
    BY <1>4 DEF MovedIds
  <2>2. stack # << >>
    BY <2>1, EmptySeq
  <2>3. m.ts = Top.at /\ Top.at \in Nat
    BY <1>4, <2>2, TopIs DEF IInv, MovedToNow
  <2> QED  BY <1>1, <2>2, <2>3
<1>5. Schedule(q, o, ts, atoms) = InsertMessage(q, e)
  BY DEF Schedule
<1> HIDE DEF e
<1>6. Sound(InsertMessage(q, e), calls + 1, MovedIds)
      /\ Entries(InsertMessage(q, e)) = Entries(q) \cup {e}
  BY <1>1, <1>2, <1>3, <1>4, InsertSound
<1> QED  BY <1>1, <1>5, <1>6 DEF e

(* Rearm, from a queue without a message of the timer. *)
LEMMA RearmEnds ==
  ASSUME Room, IInv, NEW o \in Timers, NEW q, Sound(q, calls, MovedIds),
         Entries(q) = OthersOf(o), NEW ts \in Nat, stack # << >> => Top.at <= ts,
         NEW atoms \in AtomLists, Rearm(q, o, ts, atoms),
         started' = [started EXCEPT ![o] = TRUE],
         o \in Lines => atoms = <<ramp'[o].current + ramp'[o].slope * ((ts + interval[o]) - last'[o])>>
  PROVE  TimerEnds(o, queue')
<1> DEFINE t == ts + interval[o]
           e == [obj |-> o, outlet |-> 0, ts |-> t, atoms |-> atoms, id |-> calls + 1]
<1>1. o \in Timed /\ Entries(q) \subseteq Entries(queue) /\ calls < MaxCalls
  BY DEF Timed, OthersOf, Rearm
<1>2. t \in Nat /\ (stack # << >> => Top.at <= t)
  <2>1. interval[o] \in Nat
    BY <1>1, TimedAssumption DEF IInv, TypeOK
  <2>2. stack # << >> => Top.at \in Nat
    BY TopIs DEF IInv
  <2>3. \A a \in Nat : a <= ts => a <= t
    BY <2>1
  <2> QED  BY <2>1, <2>2, <2>3
<1>3. o \in Lines => atoms = <<ramp'[o].current + ramp'[o].slope * (t - last'[o])>>
  OBVIOUS
<1>4. queue' = Schedule(q, o, t, atoms)
      /\ pending' = [pending EXCEPT ![o] = calls + 1] /\ calls' = calls + 1
  BY DEF Rearm
<1> HIDE DEF t
<1>5. /\ e \in Message
      /\ Sound(Schedule(q, o, t, atoms), calls + 1, MovedIds)
      /\ Entries(Schedule(q, o, t, atoms)) = Entries(q) \cup {e}
  BY <1>1, <1>2, ScheduleIs
<1>6. e.obj = o /\ e.id = calls + 1 /\ e.atoms = atoms /\ e.ts = t
  OBVIOUS
<1> HIDE DEF e
<1>7. \E m \in Message :
        /\ m.obj = o /\ m.id = calls + 1
        /\ Entries(queue') = OthersOf(o) \cup {m}
        /\ o \in Lines => m.atoms = <<ramp'[o].current + ramp'[o].slope * (m.ts - last'[o])>>
  BY <1>3, <1>4, <1>5, <1>6
<1>8. Sound(queue', calls + 1, MovedIds)
  BY <1>4, <1>5
<1> QED  BY <1>4, <1>7, <1>8 DEF TimerEnds

(* send_message of a line, from such a queue. *)
LEMMA LineSendsEnds ==
  ASSUME Room, IInv, NEW l \in Lines, NEW q, Sound(q, calls, MovedIds),
         Entries(q) = OthersOf(l), NEW ts \in Nat, stack # << >> => Top.at <= ts,
         NEW r \in [current : Int, target : Int, slope : Int],
         LineSends(q, l, ts, r)
  PROVE  /\ TimerEnds(l, queue')
         /\ ramp' \in [Lines -> [current : Int, target : Int, slope : Int]]
         /\ last' \in [Lines \cup Clocks -> Nat]
         /\ \A k \in Lines : k # l => ramp'[k] = ramp[k] /\ last'[k] = last[k]
<1>1. last' = [last EXCEPT ![l] = ts] /\ last'[l] = ts /\ last' \in [Lines \cup Clocks -> Nat]
      /\ \A k \in Lines : k # l => last'[k] = last[k]
  BY DEF LineSends, IInv, TypeOK
<1>2. r.current \in Int /\ r.slope \in Int /\ r.target \in Int
  OBVIOUS
<1>3. l \in Timers /\ l \in Timed
  BY DEF Timers, Timed
<1>4. interval[l] \in Nat
  BY <1>3, TimedAssumption DEF IInv, TypeOK
<1>5. CASE /\ Rearm(q, l, ts, <<r.current + r.slope * interval[l]>>)
           /\ ramp' = [ramp EXCEPT ![l] = r]
           /\ started' = [started EXCEPT ![l] = TRUE]
  <2>1. ramp'[l] = r /\ ramp' \in [Lines -> [current : Int, target : Int, slope : Int]]
        /\ \A k \in Lines : k # l => ramp'[k] = ramp[k]
    BY <1>5 DEF IInv, TypeOK
  <2>2. r.current + r.slope * interval[l] \in Int
    BY <1>2, <1>4
  <2> DEFINE v == r.current + r.slope * interval[l]
  <2>3. <<v>> \in AtomLists
    <3> HIDE DEF v
    <3>1. <<v>> \in [{1} -> Int]
      BY <2>2 DEF v
    <3> QED  BY <3>1 DEF AtomLists
  <2>4. (ts + interval[l]) - last'[l] = interval[l]
    BY <1>1, <1>4
  <2>5. <<v>> = <<ramp'[l].current + ramp'[l].slope * ((ts + interval[l]) - last'[l])>>
    BY <2>1, <2>4
  <2> HIDE DEF v
  <2>6. Rearm(q, l, ts, <<v>>)
    BY <1>5 DEF v
  <2>7. TimerEnds(l, queue')
    BY <1>3, <1>5, <2>3, <2>5, <2>6, RearmEnds
  <2> QED  BY <1>1, <2>1, <2>7
<1>6. CASE /\ ramp' = [ramp EXCEPT ![l] = IF r.slope = 0 THEN r ELSE [r EXCEPT !.current = r.target]]
           /\ queue' = q
           /\ pending' = [pending EXCEPT ![l] = NULL]
           /\ started' = [started EXCEPT ![l] = FALSE]
           /\ UNCHANGED calls
  <2> DEFINE s == IF r.slope = 0 THEN r ELSE [r EXCEPT !.current = r.target]
  <2>1. s \in [current : Int, target : Int, slope : Int]
    BY <1>2
  <2> HIDE DEF s
  <2>2. ramp' = [ramp EXCEPT ![l] = s]
    BY <1>6 DEF s
  <2>3. ramp' \in [Lines -> [current : Int, target : Int, slope : Int]]
        /\ \A k \in Lines : k # l => ramp'[k] = ramp[k]
    BY <2>1, <2>2 DEF IInv, TypeOK
  <2>4. TimerEnds(l, queue')
    BY <1>6 DEF TimerEnds
  <2> QED  BY <1>1, <2>3, <2>4
<1> QED  BY <1>5, <1>6 DEF LineSends

-----------------------------------------------------------------------------
(* The handlers of the timers. *)

LEMMA ArrivalTimes ==
  ASSUME IInv, NEW ts \in Arrivals
  PROVE  ts \in Nat /\ (stack # << >> => ts = Top.at /\ Top.at <= ts)
<1>1. CASE undefined \/ (processing /\ stack = << >>)
  BY <1>1 DEF Arrivals
<1>2. CASE ~undefined /\ stack # << >>
  BY <1>2, TopIs DEF Arrivals, IInv
<1>3. CASE ~undefined /\ stack = << >> /\ ~processing
  <2>1. Arrivals = 0..now + Tick - 1
    BY <1>3 DEF Arrivals
  <2> QED  BY <1>3, <2>1, TimedAssumption DEF IInv, TypeOK
<1> QED  BY <1>1, <1>2, <1>3

LEMMA BangIsAtoms ==
  <<Bang>> \in AtomLists
BY DEF AtomLists

LEMMA MetroStartKeeps ==
  ASSUME Room, IInv, NEW m \in Metros, NEW ts \in Arrivals, MetroStart(m, ts),
         UNCHANGED <<ramps, patch>>
  PROVE  IInv'
<1>1. m \in Timers /\ m \in Timed /\ m \notin Lines
  BY TimedAssumption DEF Timers, Timed
<1>2. TimerEnds(m, queue')
  BY <1>1, ArrivalTimes, BangIsAtoms, DisarmedIs, RearmEnds DEF MetroStart
<1>3. SameFlushes
  BY <1>1, ArrivalTimes, PushKeepsFlushes DEF MetroStart, IInv
<1> QED  BY <1>1, <1>2, <1>3, TimerStep DEF MetroStart, IInv, TypeOK, ramps

LEMMA DelayStartKeeps ==
  ASSUME Room, IInv, NEW d \in DelayObjects, NEW ts \in Arrivals, DelayStart(d, ts),
         UNCHANGED <<ramps, patch>>
  PROVE  IInv'
<1>1. d \in Timers /\ d \in Timed /\ d \notin Lines
  BY TimedAssumption DEF Timers, Timed
<1>2. TimerEnds(d, queue')
  BY <1>1, ArrivalTimes, BangIsAtoms, DisarmedIs, RearmEnds DEF DelayStart
<1>3. SameFlushes
  BY StackSame DEF DelayStart, IInv
<1> QED  BY <1>1, <1>2, <1>3, TimerStep DEF DelayStart, IInv, TypeOK, ramps

LEMMA StopEnds ==
  ASSUME IInv, NEW o \in Timers, queue' = Disarmed(o), pending' = [pending EXCEPT ![o] = NULL],
         started' = [started EXCEPT ![o] = FALSE], calls' = calls
  PROVE  TimerEnds(o, queue')
BY DisarmedIs DEF TimerEnds

LEMMA TimerStopKeeps ==
  ASSUME IInv, NEW o \in Timers, NEW ts, TimerStop(o, ts), UNCHANGED <<ramps, patch>>
  PROVE  IInv'
<1>1. TimerEnds(o, queue')
  BY StopEnds DEF TimerStop
<1>2. SameFlushes
  BY StackSame DEF TimerStop, IInv
<1> QED  BY <1>1, <1>2, TimerStep DEF TimerStop, IInv, TypeOK, ramps

LEMMA DelaySetKeeps ==
  ASSUME IInv, NEW d \in DelayObjects, NEW ts, NEW ms \in Intervals, DelaySet(d, ts, ms),
         UNCHANGED <<ramps, patch>>
  PROVE  IInv'
<1>1. d \in Timers /\ d \in Timed
  BY DEF Timers, Timed
<1>2. TimerEnds(d, queue')
  BY <1>1, StopEnds DEF DelaySet, SetInterval
<1>3. SameFlushes
  BY StackSame DEF DelaySet, SetInterval, IInv
<1>4. interval' \in [Timed -> Intervals]
  BY <1>1 DEF DelaySet, SetInterval, IInv, TypeOK
<1> QED  BY <1>1, <1>2, <1>3, <1>4, TimerStep DEF DelaySet, SetInterval, IInv, TypeOK, ramps

RampType == [current : Int, target : Int, slope : Int]

LEMMA RampOf ==
  ASSUME IInv, NEW l \in Lines
  PROVE  /\ ramp[l] \in RampType /\ last[l] \in Nat
         /\ ramp[l].current \in Int /\ ramp[l].target \in Int /\ ramp[l].slope \in Int
<1>1. ramp[l] \in RampType /\ last[l] \in Nat
  BY DEF IInv, TypeOK, RampType
<1> QED  BY <1>1 DEF RampType

LEMMA ValueAtType ==
  ASSUME IInv, NEW l \in Lines, NEW ts \in Nat
  PROVE  ValueAt(l, ts) \in Int
BY RampOf DEF ValueAt

(* A line that sends at once: a jump, or the first value of a ramp. *)
LEMMA LineSendsKeeps ==
  ASSUME Room, IInv, NEW l \in Lines, NEW ts \in Arrivals, NEW r \in RampType,
         LineSends(Disarmed(l), l, ts, r), Push(l, ts, 0),
         UNCHANGED <<now, processing, held, interval, blocks, undefined, patch>>
  PROVE  IInv'
<1>1. l \in Timers /\ l \in Timed
  BY DEF Timers, Timed
<1>2. ts \in Nat /\ (stack # << >> => ts = Top.at /\ Top.at <= ts)
  BY ArrivalTimes
<1>3. Sound(Disarmed(l), calls, MovedIds) /\ Entries(Disarmed(l)) = OthersOf(l)
  BY <1>1, DisarmedIs
<1>4. /\ TimerEnds(l, queue')
      /\ ramp' \in [Lines -> [current : Int, target : Int, slope : Int]]
      /\ last' \in [Lines \cup Clocks -> Nat]
      /\ \A k \in Lines : k # l => ramp'[k] = ramp[k] /\ last'[k] = last[k]
  BY <1>2, <1>3, LineSendsEnds DEF RampType
<1>5. SameFlushes
  BY <1>1, <1>2, PushKeepsFlushes DEF IInv
<1> QED  BY <1>1, <1>4, <1>5, TimerStep DEF IInv, TypeOK

LEMMA LineJumpKeeps ==
  ASSUME Room, IInv, NEW l \in Lines, NEW ts \in Arrivals, NEW x \in Levels,
         LineJump(l, ts, x), UNCHANGED patch
  PROVE  IInv'
<1>1. Ramp(x, x, ramp[l].slope) \in RampType
  BY RampOf, TimedAssumption DEF Ramp, RampType
<1> QED  BY <1>1, LineSendsKeeps DEF LineJump

LEMMA LineRampKeeps ==
  ASSUME Room, IInv, NEW l \in Lines, NEW ts \in Arrivals, NEW x \in Levels,
         NEW duration \in Intervals \ {0}, LineRamp(l, ts, x, duration), UNCHANGED patch
  PROVE  IInv'
<1> DEFINE way == x - ValueAt(l, ts)
           r   == Ramp(ValueAt(l, ts), x, way \div duration)
<1>1. ValueAt(l, ts) \in Int /\ x \in Int /\ duration \in Nat \ {0}
  BY ArrivalTimes, ValueAtType, TimedAssumption
<1>2. way \div duration \in Int
  BY <1>1
<1>3. r \in RampType
  BY <1>1, <1>2 DEF Ramp, RampType
<1> QED  BY <1>3, LineSendsKeeps DEF LineRamp

(* "set", or a ramp to where it is: it is over. *)
LEMMA LineStays ==
  ASSUME IInv, NEW l \in Lines, NEW ts, TimerStop(l, ts), NEW r \in RampType,
         ramp' = [ramp EXCEPT ![l] = r], UNCHANGED <<last, patch>>
  PROVE  IInv'
<1>1. l \in Timers
  BY DEF Timers
<1>2. TimerEnds(l, queue')
  BY <1>1, StopEnds DEF TimerStop
<1>3. SameFlushes
  BY StackSame DEF TimerStop, IInv
<1>4. ramp' \in [Lines -> [current : Int, target : Int, slope : Int]]
      /\ \A k \in Lines : k # l => ramp'[k] = ramp[k]
  BY DEF IInv, TypeOK, RampType
<1> QED  BY <1>1, <1>2, <1>3, <1>4, TimerStep DEF TimerStop, IInv, TypeOK

LEMMA LineSetKeeps ==
  ASSUME IInv, NEW l \in Lines, NEW ts \in Arrivals, NEW x \in Levels,
         LineSet(l, ts, x) \/ LineFlat(l, ts, x), UNCHANGED patch
  PROVE  IInv'
<1>1. x \in Int
  BY TimedAssumption
<1>2. CASE LineSet(l, ts, x)
  <2> DEFINE r == [ramp[l] EXCEPT !.current = x]
  <2>1. r \in RampType
    BY <1>1, RampOf DEF RampType
  <2>2. ramp' = [ramp EXCEPT ![l] = r]
    BY <1>2 DEF LineSet
  <2> HIDE DEF r
  <2> QED  BY <1>2, <2>1, <2>2, LineStays DEF LineSet
<1>3. CASE LineFlat(l, ts, x)
  <2>1. Ramp(x, x, 0) \in RampType
    BY <1>1 DEF Ramp, RampType
  <2> QED  BY <1>3, <2>1, LineStays DEF LineFlat
<1> QED  BY <1>2, <1>3

-----------------------------------------------------------------------------
(* The sends of Context::process. *)

LEMMA SendsIs ==
  ASSUME IInv, NEW o \in Timed, Sends(o)
  PROVE  /\ queue # << >> /\ stack = << >> /\ MovedIds = {}
         /\ SendTime \in Nat /\ SameFlushes
         /\ First(queue) \in Entries(queue) /\ First(queue) \in Message
         /\ First(queue).obj = o /\ First(queue).ts \in Nat
         /\ Sound(Popped(queue), calls, MovedIds)
         /\ Entries(Popped(queue)) = Entries(queue) \ {First(queue)}
<1>1. queue # << >> /\ stack = << >> /\ First(queue).obj = o
  BY DEF Sends, Due
<1>2. /\ First(queue) \in Entries(queue) /\ First(queue) \in Message
      /\ Sound(Popped(queue), calls, MovedIds)
      /\ Entries(Popped(queue)) = Entries(queue) \ {First(queue)}
  BY <1>1, FirstIs
<1>3. First(queue).ts \in Nat
  BY <1>2, MessageFields
<1>4. SendTime \in Nat
  BY <1>3 DEF SendTime, IInv, TypeOK
<1>5. SameFlushes
  BY <1>1, <1>4, PushKeepsFlushes DEF Sends, IInv
<1> QED  BY <1>1, <1>2, <1>3, <1>4, <1>5, NothingMoved DEF IInv

LEMMA TimerSends ==
  ASSUME IInv, NEW o \in Timers, Sends(o)
  PROVE  /\ Entries(Popped(queue)) = OthersOf(o)
         /\ pending[o] = First(queue).id /\ started[o]
<1>1. o \in Timed
  BY DEF Timed
<1> QED  BY <1>1, SendsIs, OnlyPending DEF IInv, Told

LEMMA MetroSendKeeps ==
  ASSUME Room, IInv, NEW m \in Metros, MetroSend(m), UNCHANGED <<ramps, patch>>
  PROVE  IInv'
<1>1. m \in Timers /\ m \in Timed /\ m \notin Lines
  BY TimedAssumption DEF Timers, Timed
<1>2. Sends(m)
  BY DEF MetroSend
<1>3. started' = [started EXCEPT ![m] = TRUE]
  <2>1. started[m] = TRUE /\ started' = started
    BY <1>1, <1>2, TimerSends DEF MetroSend, IInv, TypeOK
  <2> QED  BY <1>1, <2>1 DEF IInv, TypeOK
<1>4. TimerEnds(m, queue')
  BY <1>1, <1>2, <1>3, SendsIs, TimerSends, BangIsAtoms, RearmEnds DEF MetroSend
<1> QED  BY <1>1, <1>2, <1>4, SendsIs, TimerStep DEF MetroSend, Sends, IInv, TypeOK, ramps

LEMMA DelaySendKeeps ==
  ASSUME IInv, NEW d \in DelayObjects, DelaySend(d), UNCHANGED <<ramps, patch>>
  PROVE  IInv'
<1>1. d \in Timers /\ d \in Timed
  BY DEF Timers, Timed
<1>2. Sends(d)
  BY DEF DelaySend
<1>3. pending' = [pending EXCEPT ![d] = NULL]
  BY <1>1, <1>2, TimerSends DEF DelaySend, IInv, TypeOK
<1>4. TimerEnds(d, queue')
  BY <1>1, <1>2, <1>3, SendsIs, TimerSends DEF DelaySend, TimerEnds
<1> QED  BY <1>1, <1>2, <1>4, SendsIs, TimerStep DEF DelaySend, Sends, IInv, TypeOK, ramps

(* The value in a line's message is the one its slope leads to by then. *)
LEMMA LineMessageIs ==
  ASSUME IInv, NEW l \in Lines, Sends(l)
  PROVE  /\ First(queue).atoms[1]
              = ramp[l].current + ramp[l].slope * (First(queue).ts - last[l])
         /\ First(queue).atoms[1] \in Int
<1>1. l \in Timed
  BY DEF Timed, Timers
<1>2. First(queue) \in Entries(queue) /\ First(queue).obj = l /\ First(queue).ts \in Nat
  BY <1>1, SendsIs
<1>3. First(queue).atoms = <<ramp[l].current + ramp[l].slope * (First(queue).ts - last[l])>>
  BY <1>2 DEF IInv, OnTheRamp
<1> DEFINE v == ramp[l].current + ramp[l].slope * (First(queue).ts - last[l])
<1>4. v \in Int
  BY <1>2, RampOf
<1> HIDE DEF v
<1>5. First(queue).atoms[1] = v
  BY <1>3 DEF v
<1> QED  BY <1>4, <1>5 DEF v

LEMMA LineSendKeeps ==
  ASSUME Room, IInv, NEW l \in Lines, LineSend(l), UNCHANGED patch
  PROVE  IInv'
<1> DEFINE r == [ramp[l] EXCEPT !.current = First(queue).atoms[1]]
<1>1. l \in Timers /\ l \in Timed
  BY DEF Timers, Timed
<1>2. Sends(l) /\ LineSends(Popped(queue), l, SendTime, r)
  BY DEF LineSend
<1>3. r \in RampType
  BY <1>2, LineMessageIs, RampOf DEF RampType
<1> HIDE DEF r
<1>4. /\ Sound(Popped(queue), calls, MovedIds) /\ Entries(Popped(queue)) = OthersOf(l)
      /\ SendTime \in Nat /\ SameFlushes /\ stack = << >>
  BY <1>1, <1>2, SendsIs, TimerSends
<1>5. /\ TimerEnds(l, queue')
      /\ ramp' \in [Lines -> [current : Int, target : Int, slope : Int]]
      /\ last' \in [Lines \cup Clocks -> Nat]
      /\ \A k \in Lines : k # l => ramp'[k] = ramp[k] /\ last'[k] = last[k]
  BY <1>2, <1>3, <1>4, LineSendsEnds DEF RampType
<1> QED  BY <1>1, <1>2, <1>4, <1>5, TimerStep DEF LineSend, Sends, IInv, TypeOK

LEMMA LoadbangSendKeeps ==
  ASSUME IInv, NEW o \in Loadbangs, LoadbangSend(o), UNCHANGED <<ramps, patch>>
  PROVE  IInv'
<1>1. o \in Timed /\ o \notin Timers \cup Pipes
  BY TimedAssumption DEF Timed, Timers
<1>2. Sends(o)
  BY DEF LoadbangSend
<1>3. /\ Sound(queue', calls, MovedIds) /\ Entries(queue') = Entries(queue) \ {First(queue)}
      /\ First(queue).obj = o /\ SameFlushes
  BY <1>1, <1>2, SendsIs DEF LoadbangSend
<1> QED  BY <1>1, <1>2, <1>3, QuietStep DEF LoadbangSend, Sends, IInv, TypeOK, ramps

-----------------------------------------------------------------------------
(* Steps that touch no message. *)

LEMMA IdleStep ==
  ASSUME IInv, SameFlushes, UNCHANGED <<queue, pending, held, calls, started, ramp, patch>>,
         now' \in Nat, interval' \in [Timed -> Intervals],
         last' \in [Lines \cup Clocks -> Nat], \A l \in Lines : last'[l] = last[l]
  PROVE  IInv'
BY QuietStep DEF IInv

LEMMA IntervalKeeps ==
  ASSUME IInv, NEW o \in Timed, NEW ms \in Intervals, SetInterval(o, ms),
         UNCHANGED <<queue, pending, started, ramps, patch>>
  PROVE  IInv'
<1>1. interval' \in [Timed -> Intervals] /\ SameFlushes
  BY StackSame DEF SetInterval, IInv, TypeOK
<1> QED  BY <1>1, IdleStep DEF SetInterval, IInv, TypeOK, ramps

LEMMA ClockKeeps ==
  ASSUME IInv, NEW o \in Clocks, NEW ts \in Arrivals, ClockStart(o, ts) \/ ClockRead(o, ts),
         UNCHANGED patch
  PROVE  IInv'
<1>1. o \in Timed /\ o \notin Lines
  BY TimedAssumption DEF Timed, Timers
<1>2. ts \in Nat /\ (stack # << >> => ts = Top.at)
  BY ArrivalTimes
<1>3. CASE ClockStart(o, ts)
  <2>1. last' \in [Lines \cup Clocks -> Nat] /\ \A l \in Lines : last'[l] = last[l]
    BY <1>1, <1>2, <1>3 DEF ClockStart, IInv, TypeOK
  <2>2. SameFlushes
    BY <1>3, StackSame DEF ClockStart, IInv
  <2> QED  BY <1>3, <2>1, <2>2, IdleStep DEF ClockStart, IInv, TypeOK, objects
<1>4. CASE ClockRead(o, ts)
  <2>1. SameFlushes
    BY <1>1, <1>2, <1>4, PushKeepsFlushes DEF ClockRead, IInv
  <2> QED  BY <1>4, <2>1, IdleStep DEF ClockRead, IInv, TypeOK, objects, ramps
<1> QED  BY <1>3, <1>4

LEMMA ControlKeeps ==
  ASSUME IInv, SendDone \/ ProcessBegin \/ ProcessEnd \/ FlushLost, UNCHANGED <<ramps, patch>>
  PROVE  IInv'
<1>1. CASE SendDone
  <2>1. SameFlushes
    BY <1>1, ReturnKeepsFlushes DEF SendDone, IInv
  <2> QED  BY <1>1, <2>1, IdleStep DEF SendDone, IInv, TypeOK, objects, ramps
<1>2. CASE ProcessBegin \/ FlushLost
  <2>1. SameFlushes
    BY <1>2, StackSame DEF ProcessBegin, FlushLost, IInv
  <2> QED  BY <1>2, <2>1, IdleStep DEF ProcessBegin, FlushLost, IInv, TypeOK, objects, ramps
<1>3. CASE ProcessEnd
  <2>1. SameFlushes
    BY <1>3, StackSame DEF ProcessEnd, IInv
  <2>2. now' \in Nat
    BY <1>3, TimedAssumption DEF ProcessEnd, IInv, TypeOK
  <2> QED  BY <1>3, <2>1, <2>2, IdleStep DEF ProcessEnd, IInv, TypeOK, objects, ramps
<1> QED  BY <1>1, <1>2, <1>3

LEMMA ReenteredKeeps ==
  ASSUME IInv, NEW p \in Pipes, NEW ts, PipeReentered(p, ts), UNCHANGED <<ramps, patch>>
  PROVE  IInv'
<1>1. SameFlushes
  BY StackSame DEF PipeReentered, IInv
<1> QED  BY <1>1, IdleStep DEF PipeReentered, IInv, TypeOK, objects, ramps

-----------------------------------------------------------------------------
(* "clear" of a pipe: the messages of its list are cancelled one by one. *)

LEMMA CancelAllIs ==
  ASSUME NEW q, NEW n \in Nat, NEW X, Sound(q, n, X), NEW p, NEW s \in Seq(Nat),
         \A j, k \in 1..Len(s) : j < k => s[j] < s[k],
         IdsOf(Entries(q), p) = {s[j] : j \in 1..Len(s)},
         \A j \in 1..Len(s) : s[j] \notin X
  PROVE  /\ Sound(CancelAll(q, s), n, X)
         /\ Entries(CancelAll(q, s)) = {e \in Entries(q) : e.obj # p}
<1> DEFINE N == Len(s)
           Step(f, k) == IF k = 0 THEN q ELSE CancelPointer(f[k - 1], s[k])
           Rec(f, j) == f = [k \in 0..j |-> Step(f, k)]
           Left(k) == {e \in Entries(q) : e.obj # p \/ \A i \in 1..k : e.id # s[i]}
           After(r, k) == Sound(r, n, X) /\ Entries(r) = Left(k)
           F == CHOOSE f : Rec(f, N)
<1>0. N \in Nat /\ \A j \in 1..N : s[j] \in Nat
  BY ElementOfSeq, LenProperties
<1>1. CancelAll(q, s) = F[N]
  BY DEF CancelAll
<1>2. \E f : Rec(f, N)
  <2> SUFFICES ASSUME ~\E f : Rec(f, N) PROVE FALSE
    OBVIOUS
  <2> DEFINE T == {j \in Nat : ~\E f : Rec(f, j)}
  <2>1. PICK j \in T : \A y \in T : j <= y
    <3>1. T \in SUBSET Nat /\ T # {}
      BY <1>0
    <3> HIDE DEF T
    <3> QED  BY <3>1, LeastNatural
  <2>2. j # 0
    <3> DEFINE f == [k \in 0..0 |-> q]
    <3>1. f = [k \in 0..0 |-> Step(f, k)]
      OBVIOUS
    <3>2. Rec(f, 0)
      BY <3>1
    <3> QED  BY <2>1, <3>2
  <2>3. j - 1 \in Nat /\ j \in Nat /\ j - 1 \notin T
    <3>1. j \in Nat
      BY <2>1
    <3>2. j - 1 \in Nat /\ ~(j <= j - 1)
      BY <2>2, <3>1
    <3> HIDE DEF T
    <3> QED  BY <2>1, <3>1, <3>2
  <2>4. PICK g : Rec(g, j - 1)
    BY <2>3
  <2> DEFINE f == [k \in 0..j |-> IF k = j THEN Step(g, j) ELSE g[k]]
  <2>5. \A k \in 0..j - 1 : f[k] = g[k] /\ g[k] = Step(g, k)
    <3>1. \A k \in 0..j - 1 : k \in 0..j /\ k # j
      BY <2>3
    <3>2. \A k \in 0..j - 1 : f[k] = g[k]
      <4> HIDE DEF Step
      <4> QED  BY <3>1
    <3>3. g = [k \in 0..j - 1 |-> Step(g, k)]
      BY <2>4
    <3> HIDE DEF Step, f
    <3>4. \A k \in 0..j - 1 : g[k] = Step(g, k)
      BY <3>3
    <3> QED  BY <3>2, <3>4
  <2>6. \A k \in 0..j : f[k] = Step(f, k)
    <3> TAKE k \in 0..j
    <3>1. CASE k = 0
      <4>1. 0 \in 0..j - 1
        BY <2>3
      <4>2. f[0] = Step(g, 0)
        <5> HIDE DEF f, Step
        <5> QED  BY <2>5, <4>1
      <4>3. Step(g, 0) = q /\ Step(f, 0) = q
        OBVIOUS
      <4> QED  BY <3>1, <4>2, <4>3
    <3>2. CASE k # 0
      <4>1. k - 1 \in 0..j - 1
        BY <2>3, <3>2
      <4>2. f[k - 1] = g[k - 1]
        BY <2>5, <4>1
      <4>3. Step(f, k) = Step(g, k)
        BY <4>2
      <4>4. f[k] = Step(g, k)
        <5>1. CASE k = j
          BY <5>1
        <5>2. CASE k # j
          <6>1. k \in 0..j - 1
            BY <2>3, <5>2
          <6> QED  BY <2>5, <6>1
        <5> QED  BY <5>1, <5>2
      <4> QED  BY <4>3, <4>4
    <3> QED  BY <3>1, <3>2
  <2>7. Rec(f, j)
    <3>1. f = [k \in 0..j |-> f[k]]
      OBVIOUS
    <3> HIDE DEF f, Step
    <3>2. [k \in 0..j |-> f[k]] = [k \in 0..j |-> Step(f, k)]
      BY <2>6
    <3> QED  BY <3>1, <3>2
  <2> QED  BY <2>1, <2>7
<1>3. Rec(F, N)
  <2> HIDE DEF Rec
  <2> QED  BY <1>2
<1> HIDE DEF F
<1>4. F[0] = q /\ \A k \in 1..N : F[k] = CancelPointer(F[k - 1], s[k])
  <2>1. \A k \in 0..N : F[k] = Step(F, k)
    <3> HIDE DEF Step
    <3> QED  BY <1>3
  <2> QED  BY <1>0, <2>1
<1> HIDE DEF Rec, Step
<1>5. After(q, 0)
  OBVIOUS
<1>6. ASSUME NEW k \in 1..N, After(F[k - 1], k - 1) PROVE After(F[k], k)
  <2> DEFINE r == F[k - 1]
  <2>1. Sound(r, n, X) /\ Entries(r) = Left(k - 1)
    BY <1>6
  <2> HIDE DEF r
  <2>2. s[k] \in IdsOf(Entries(q), p)
    BY <1>0
  <2>3. PICK m \in Entries(q) : m.obj = p /\ m.id = s[k]
    BY <2>2, Zenon DEF IdsOf
  <2>4. \A i \in 1..k - 1 : s[k] # s[i]
    <3> TAKE i \in 1..k - 1
    <3>1. i \in 1..N /\ i < k
      BY <1>0
    <3>2. s[i] < s[k] /\ s[i] \in Nat /\ s[k] \in Nat
      BY <1>0, <3>1
    <3> QED  BY <3>2
  <2>5. m \in Entries(r)
    BY <2>1, <2>3, <2>4
  <2>6. PICK x \in Entries(r) :
          /\ x.obj = m.obj /\ x.ts = m.ts
          /\ x.id \notin X /\ m.id \notin X => x.id <= m.id
          /\ Sound(CancelPointer(r, m.id), n, X)
          /\ Entries(CancelPointer(r, m.id)) = Entries(r) \ {x}
    <3> HIDE DEF Left
    <3> QED  BY <2>1, <2>5, CancelPointerIs
  <2>7. x = m
    <3>1. x \in Entries(q) /\ x.obj = p /\ \A i \in 1..k - 1 : x.id # s[i]
      BY <2>1, <2>3, <2>6
    <3>2. x.id \in IdsOf(Entries(q), p)
      BY <3>1, IdsOfIs
    <3>3. PICK i \in 1..N : x.id = s[i]
      BY <3>2
    <3>4. x.id <= s[k] /\ s[i] <= s[k]
      BY <2>3, <2>6, <3>3
    <3>5. ~(i < k)
      BY <1>0, <3>1, <3>3
    <3>6. ~(k < i)
      <4> SUFFICES ASSUME k < i PROVE FALSE
        OBVIOUS
      <4>1. s[k] < s[i] /\ s[k] \in Nat /\ s[i] \in Nat
        BY <1>0
      <4> QED  BY <3>4, <4>1
    <3>7. i = k
      BY <1>0, <3>5, <3>6
    <3> QED  BY <2>3, <3>1, <3>3, <3>7, SoundEntries
  <2>8. F[k] = CancelPointer(r, m.id)
    BY <1>4, <2>3 DEF r
  <2>9. Left(k) = Left(k - 1) \ {m}
    <3>1. \A e \in Entries(q) : e.id = s[k] <=> e = m
      BY <2>3, SoundEntries
    <3>2. \A i : i \in 1..k <=> i \in 1..k - 1 \/ i = k
      BY <1>0
    <3>3. \A e \in Entries(q) :
            (\A i \in 1..k : e.id # s[i]) <=> (\A i \in 1..k - 1 : e.id # s[i]) /\ e # m
      BY <3>1, <3>2
    <3> QED  BY <2>3, <3>3
  <2> QED  BY <2>1, <2>6, <2>7, <2>8, <2>9
<1> HIDE DEF After
<1>7. After(F[N], N)
  <2> SUFFICES ASSUME ~After(F[N], N) PROVE FALSE
    OBVIOUS
  <2> DEFINE T == {j \in 0..N : ~After(F[j], j)}
  <2>1. PICK j \in T : \A y \in T : j <= y
    <3>1. T \in SUBSET Nat /\ T # {}
      BY <1>0
    <3> HIDE DEF T
    <3> QED  BY <3>1, LeastNatural
  <2>2. j \in 1..N
    BY <1>0, <1>4, <1>5, <2>1
  <2>3. j - 1 \in 0..N /\ ~(j <= j - 1)
    BY <1>0, <2>2
  <2>4. After(F[j - 1], j - 1)
    BY <2>1, <2>3
  <2> QED  BY <1>6, <2>1, <2>2, <2>4
<1>8. Left(N) = {e \in Entries(q) : e.obj # p}
  <2>1. \A e \in Entries(q) : e.obj = p => \E i \in 1..N : e.id = s[i]
    <3> TAKE e \in Entries(q)
    <3> HAVE e.obj = p
    <3>1. e.id \in IdsOf(Entries(q), p)
      BY IdsOfIs
    <3> QED  BY <3>1
  <2> QED  BY <2>1
<1> QED  BY <1>1, <1>7, <1>8 DEF After

-----------------------------------------------------------------------------
(* The handlers of a pipe. *)

LEMMA HeldIs ==
  ASSUME IInv, NEW p \in Pipes
  PROVE  /\ held[p] \in Seq(Nat) /\ Len(held[p]) \in Nat
         /\ \A j \in 1..Len(held[p]) : held[p][j] \in 1..calls /\ held[p][j] \in Nat
         /\ \A j, k \in 1..Len(held[p]) : j < k => held[p][j] < held[p][k]
         /\ \A j \in 1..Len(held[p]) : \A m \in Entries(queue) : m.id = held[p][j] => m.obj = p
         /\ IdsOf(Entries(queue), p) \subseteq {held[p][j] : j \in 1..Len(held[p])}
<1>1. held[p] \in Seq(Nat)
  BY DEF IInv, TypeOK
<1>2. ListedFor(p)
  BY DEF IInv, Listed
<1> QED  BY <1>1, <1>2, ElementOfSeq, LenProperties DEF ListedFor

(* What the steps of a pipe leave as it was: timers and the other pipes. *)
LEMMA PipeLeaves ==
  ASSUME IInv, NEW p \in Pipes, NEW s \in Seq(Nat), held' = [held EXCEPT ![p] = s],
         calls' \in Nat, calls <= calls', UNCHANGED <<pending, started, ramp, last, patch>>,
         now' \in Nat, interval' \in [Timed -> Intervals], stack' \in Seq(Frame),
         queue' \in Seq(Message),
         \A u : u # p => {e \in Entries(queue') : e.obj = u} = {e \in Entries(queue) : e.obj = u},
         \A m \in Entries(queue') :
           m.obj = p => m.id \in IdsOf(Entries(queue), p) \/ m.id \notin 1..calls
  PROVE  /\ TypeOK' /\ Armed' /\ Told' /\ OnTheRamp' /\ held'[p] = s
         /\ \A u \in Pipes : u # p =>
              /\ held'[u] = held[u]
              /\ IdsOf(Entries(queue'), u) = IdsOf(Entries(queue), u)
              /\ ListedFor(u)'
<1>1. \A u : u # p => IdsOf(Entries(queue'), u) = IdsOf(Entries(queue), u)
  BY IdsOfOthers
<1>2. \A o \in Timers : o # p
  BY TimedAssumption
<1>3. Armed' /\ Told' /\ OnTheRamp'
  BY <1>2, TimersKept DEF IInv
<1>4. held'[p] = s /\ \A u \in Pipes : u # p => held'[u] = held[u]
  BY DEF IInv, TypeOK
<1>5. held' \in [Pipes -> Seq(Nat)]
  BY DEF IInv, TypeOK
<1>6. TypeOK'
  BY <1>5 DEF IInv, TypeOK
<1>7. ASSUME NEW u \in Pipes, u # p PROVE ListedFor(u)'
  <2>1. held'[u] = held[u] /\ IdsOf(Entries(queue'), u) = IdsOf(Entries(queue), u)
    BY <1>1, <1>4, <1>7
  <2>2. \A j \in 1..Len(held[u]) : held[u][j] \in 1..calls'
    BY HeldIs, SMTT(30) DEF IInv, TypeOK
  <2>3. \A j \in 1..Len(held[u]) : \A m \in Entries(queue') : m.id = held[u][j] => m.obj = u
    <3> SUFFICES ASSUME NEW j \in 1..Len(held[u]), NEW m \in Entries(queue'), m.id = held[u][j]
                 PROVE  m.obj = u
      OBVIOUS
    <3>1. CASE m.obj = p
      <4>1. m.id \in IdsOf(Entries(queue), p)
        BY <3>1, HeldIs
      <4>2. PICK e \in Entries(queue) : e.obj = p /\ e.id = m.id
        BY <4>1, IdsOfIs
      <4> QED  BY <1>7, <4>2, HeldIs
    <3>2. CASE m.obj # p
      <4>1. m \in Entries(queue)
        BY <3>2
      <4> QED  BY <4>1, HeldIs
    <3> QED  BY <3>1, <3>2
  <2>4. \A j, k \in 1..Len(held[u]) : j < k => held[u][j] < held[u][k]
    BY HeldIs
  <2>5. IdsOf(Entries(queue'), u) \subseteq {held[u][j] : j \in 1..Len(held[u])}
    BY <2>1, HeldIs
  <2> QED  BY <2>1, <2>2, <2>3, <2>4, <2>5 DEF ListedFor
<1> QED  BY <1>1, <1>3, <1>4, <1>6, <1>7

(* A message put into a pipe. *)
LEMMA PipePutKeeps ==
  ASSUME Room, IInv, NEW p \in Pipes, NEW ts \in Arrivals, NEW atoms \in PipeAtoms,
         PipePut(p, ts, atoms), UNCHANGED <<ramps, patch>>
  PROVE  IInv'
<1> DEFINE t == ts + interval[p]
           e == [obj |-> p, outlet |-> 0, ts |-> t, atoms |-> atoms, id |-> calls + 1]
           s == Append(held[p], calls + 1)
           n == Len(held[p])
<1>1. p \in Timed /\ calls < MaxCalls /\ calls \in Nat /\ atoms \in AtomLists /\ interval[p] \in Nat
  BY TimedAssumption DEF Timed, PipePut, IInv, TypeOK, AtomLists
<1>2. t \in Nat /\ (stack # << >> => Top.at <= t)
  <2>1. ts \in Nat /\ (stack # << >> => ts = Top.at)
    BY ArrivalTimes
  <2>2. ts <= t /\ t \in Nat
    BY <1>1, <2>1
  <2> QED  BY <2>1, <2>2
<1>3. /\ queue' = Schedule(queue, p, t, atoms) /\ held' = [held EXCEPT ![p] = s]
      /\ calls' = calls + 1 /\ stack' = stack /\ now' = now
      /\ UNCHANGED <<pending, started, ramp, last, patch>>
  BY DEF PipePut, ramps, IInv, TypeOK
<1>4. interval' \in [Timed -> Intervals]
  BY <1>1 DEF PipePut, IInv, TypeOK
<1> HIDE DEF t
<1>5. /\ e \in Message /\ e.obj = p /\ e.id = calls + 1
      /\ Sound(queue', calls', MovedIds)
      /\ Entries(queue') = Entries(queue) \cup {e}
  BY <1>1, <1>2, <1>3, ScheduleIs DEF IInv
<1> HIDE DEF e
<1>6. /\ s \in Seq(Nat) /\ Len(s) = n + 1 /\ n \in Nat
      /\ \A j \in 1..n : s[j] = held[p][j]
      /\ s[n + 1] = calls + 1
  BY <1>1, HeldIs, AppendProperties
<1> HIDE DEF s
<1>7. /\ TypeOK' /\ Armed' /\ Told' /\ OnTheRamp' /\ held'[p] = s
      /\ \A u \in Pipes : u # p =>
           /\ held'[u] = held[u]
           /\ IdsOf(Entries(queue'), u) = IdsOf(Entries(queue), u)
           /\ ListedFor(u)'
  <2>1. \A u : u # p => {x \in Entries(queue') : x.obj = u} = {x \in Entries(queue) : x.obj = u}
    BY <1>5
  <2>2. \A m \in Entries(queue') :
          m.obj = p => m.id \in IdsOf(Entries(queue), p) \/ m.id \notin 1..calls
    BY <1>1, <1>5, IdsOfIs
  <2>3. queue' \in Seq(Message) /\ stack' \in Seq(Frame) /\ now' \in Nat
        /\ calls' \in Nat /\ calls <= calls'
    BY <1>1, <1>3, <1>5 DEF Sound, IInv, TypeOK
  <2> QED  BY <1>3, <1>4, <1>6, <2>1, <2>2, <2>3, PipeLeaves
<1>8. IdsOf(Entries(queue'), p) = IdsOf(Entries(queue), p) \cup {calls + 1}
  BY <1>5, IdsOfIs
<1>9. \A u \in Pipes : \A j \in 1..Len(held[u]) : j \in 1..Len(held'[u]) /\ held'[u][j] = held[u][j]
  BY <1>6, <1>7, SMTT(30)
<1>10. MovedIds' = MovedIds
  <2>1. \A j \in 1..Len(stack) : Flushes(j) =>
          \A i \in 1..stack[j].it : held'[stack[j].obj][i] = held[stack[j].obj][i]
    <3> SUFFICES ASSUME NEW j \in 1..Len(stack), Flushes(j), NEW i \in 1..stack[j].it
                 PROVE  held'[stack[j].obj][i] = held[stack[j].obj][i]
      OBVIOUS
    <3> DEFINE u == stack[j].obj
               k == stack[j].it
               l == Len(held[u])
    <3>1. u \in Pipes /\ k \in 1..l
      BY DEF IInv, Frames
    <3>2. l \in Nat
      BY <3>1, HeldIs
    <3>3. i \in 1..k
      OBVIOUS
    <3> HIDE DEF k, l
    <3>4. i \in 1..l
      BY <3>1, <3>2, <3>3
    <3> QED  BY <1>9, <3>1, <3>4 DEF l
  <2> QED  BY <1>3, <2>1 DEF MovedIds, Flushes
<1>11. Frames'
  <2>1. \A j \in 1..Len(stack) : Flushes(j) =>
          /\ stack[j].obj \in Pipes
          /\ stack[j].it \in 1..Len(held'[stack[j].obj])
          /\ held'[stack[j].obj][stack[j].it] \in IdsOf(Entries(queue'), stack[j].obj)
    BY <1>7, <1>8, <1>9 DEF IInv, Frames
  <2> QED  BY <1>3, <2>1 DEF IInv, Frames, Flushes
<1>12. ListedFor(p)'
  <2>0. \A j \in 1..n : held[p][j] \in 1..calls
    BY HeldIs
  <2>1. \A j \in 1..n + 1 : s[j] \in 1..calls + 1
    <3> TAKE j \in 1..n + 1
    <3>1. CASE j = n + 1
      BY <1>1, <1>6, <3>1
    <3>2. CASE j # n + 1
      <4>1. j \in 1..n
        BY <1>6, <3>2
      <4>2. s[j] \in 1..calls
        BY <1>6, <2>0, <4>1
      <4> QED  BY <1>1, <4>2
    <3> QED  BY <3>1, <3>2
  <2>2. \A j, k \in 1..n + 1 : j < k => s[j] < s[k]
    <3> TAKE j, k \in 1..n + 1
    <3> HAVE j < k
    <3>1. CASE k = n + 1
      <4>1. j \in 1..n
        BY <1>6, <3>1
      <4>2. s[j] = held[p][j] /\ s[j] \in 1..calls /\ s[k] = calls + 1
        BY <1>6, <2>0, <3>1, <4>1
      <4> QED  BY <1>1, <4>2
    <3>2. CASE k # n + 1
      <4>1. j \in 1..n /\ k \in 1..n
        BY <1>6, <3>2
      <4> QED  BY <1>6, <4>1, HeldIs
    <3> QED  BY <3>1, <3>2
  <2>3. \A j \in 1..n + 1 : \A m \in Entries(queue') : m.id = s[j] => m.obj = p
    <3> SUFFICES ASSUME NEW j \in 1..n + 1, NEW m \in Entries(queue'), m.id = s[j] PROVE m.obj = p
      OBVIOUS
    <3>1. CASE m = e
      BY <1>5, <3>1
    <3>2. CASE m \in Entries(queue) /\ j \in 1..n
      BY <1>6, <3>2, HeldIs
    <3>3. CASE m \in Entries(queue) /\ j = n + 1
      BY <1>1, <1>6, <3>3, SoundEntries DEF IInv
    <3> QED  BY <1>5, <1>6, <3>1, <3>2, <3>3
  <2>4. IdsOf(Entries(queue'), p) \subseteq {s[j] : j \in 1..n + 1}
    <3>1. IdsOf(Entries(queue), p) \subseteq {held[p][j] : j \in 1..n}
      BY HeldIs
    <3>2. \A j \in 1..n : j \in 1..n + 1 /\ n + 1 \in 1..n + 1
      BY <1>6
    <3>3. n + 1 \in 1..n + 1
      BY <1>6
    <3> HIDE DEF n
    <3> QED  BY <1>6, <1>8, <3>1, <3>2, <3>3
  <2> QED  BY <1>3, <1>6, <1>7, <2>1, <2>2, <2>3, <2>4 DEF ListedFor
<1>13. Listed'
  BY <1>7, <1>12 DEF Listed
<1>14. Counted'
  <2>1. \A u : Flushers(u)' = Flushers(u)
    BY <1>3 DEF Flushers, Flushes
  <2>2. Cardinality(IdsOf(Entries(queue'), p)) = Cardinality(IdsOf(Entries(queue), p)) + 1
    <3>1. calls + 1 \notin IdsOf(Entries(queue), p)
      <4>1. \A x \in IdsOf(Entries(queue), p) : x \in 1..calls
        BY SoundEntries, IdsOfIs DEF IInv
      <4> QED  BY <1>1, <4>1
    <3>2. IsFiniteSet(IdsOf(Entries(queue), p))
      BY <1>1, IdsFinite DEF IInv
    <3> QED  BY <1>8, <3>1, <3>2, FS_AddElement
  <2>3. ASSUME NEW j \in Flushers(p) PROVE stack[j].it \in Nat
    BY <2>3, FrameFields DEF Flushers, IInv
  <2>4. /\ \A j \in Flushers(p) : Cardinality(IdsOf(Entries(queue), p)) = n - (stack[j].it - 1)
        /\ Flushers(p) = {} => Cardinality(IdsOf(Entries(queue), p)) = n
    BY DEF IInv, Counted
  <2>5. Len(held'[p]) = n + 1
    BY <1>6, <1>7
  <2>6. /\ \A j \in Flushers(p) :
             Cardinality(IdsOf(Entries(queue'), p)) = Len(held'[p]) - (stack[j].it - 1)
        /\ Flushers(p) = {} => Cardinality(IdsOf(Entries(queue'), p)) = Len(held'[p])
    <3> DEFINE C == Cardinality(IdsOf(Entries(queue), p))
               D == Cardinality(IdsOf(Entries(queue'), p))
               h == Len(held'[p])
    <3>1. /\ \A j \in Flushers(p) : C = n - (stack[j].it - 1)
          /\ Flushers(p) = {} => C = n
      BY <2>4
    <3>2. D = C + 1 /\ h = n + 1 /\ n \in Nat
      BY <1>6, <2>2, <2>5
    <3> HIDE DEF n, C, D, h
    <3>3. ASSUME NEW j \in Flushers(p) PROVE D = h - (stack[j].it - 1)
      <4>1. stack[j].it \in Nat /\ C = n - (stack[j].it - 1)
        BY <2>3, <3>1
      <4> QED  BY <3>2, <4>1
    <3>4. (\A j \in Flushers(p) : D = h - (stack[j].it - 1)) /\ (Flushers(p) = {} => D = h)
      BY <3>1, <3>2, <3>3
    <3> QED  BY <3>4 DEF D, h
  <2>7. \A u \in Pipes : u # p =>
          /\ \A j \in Flushers(u) :
               Cardinality(IdsOf(Entries(queue'), u)) = Len(held'[u]) - (stack[j].it - 1)
          /\ Flushers(u) = {} => Cardinality(IdsOf(Entries(queue'), u)) = Len(held'[u])
    BY <1>7 DEF IInv, Counted
  <2> QED  BY <1>3, <2>1, <2>6, <2>7 DEF Counted
<1>15. MovedToNow'
  <2>1. e.id \notin MovedIds
    BY <1>1, <1>5, MovedAreListed DEF IInv
  <2> QED  BY <1>3, <1>5, <1>10, <2>1 DEF IInv, MovedToNow
<1> QED  BY <1>5, <1>7, <1>10, <1>11, <1>13, <1>14, <1>15 DEF IInv

(* Outside a flush of the pipe, all that is in its list is in the queue, in order. *)
LEMMA OutsideFlush ==
  ASSUME IInv, NEW p \in Pipes, Flushers(p) = {}
  PROVE  /\ IdsOf(Entries(queue), p) = {held[p][j] : j \in 1..Len(held[p])}
         /\ \A j \in 1..Len(held[p]) : held[p][j] \notin MovedIds
<1>1. IdsOf(Entries(queue), p) = {held[p][j] : j \in 1..Len(held[p])}
  <2>1. Cardinality(IdsOf(Entries(queue), p)) = Len(held[p])
    BY DEF IInv, Counted
  <2> QED  BY <2>1, HeldIs, AllQueued
<1>2. ASSUME NEW i \in 1..Len(held[p]), held[p][i] \in MovedIds PROVE FALSE
  <2>1. held[p][i] \in IdsOf(Entries(queue), p)
    BY <1>1
  <2>2. PICK m \in Entries(queue) : m.obj = p /\ m.id = held[p][i]
    BY <2>1, Zenon DEF IdsOf
  <2>3. PICK j \in 1..Len(stack) :
          /\ Flushes(j) /\ stack[j].obj \in Pipes
          /\ \E k \in 1..Len(held[stack[j].obj]) : held[p][i] = held[stack[j].obj][k]
    BY <1>2, MovedAreListed DEF IInv
  <2>4. m.obj = stack[j].obj
    BY <2>2, <2>3, HeldIs
  <2>5. j \in Flushers(p)
    BY <2>2, <2>3, <2>4 DEF Flushers
  <2> QED  BY <2>5
<1> QED  BY <1>1, <1>2

(* A list of increasing numbers without one of them. *)
LEMMA ShortenedList ==
  ASSUME NEW s \in Seq(Nat), \A j, k \in 1..Len(s) : j < k => s[j] < s[k],
         NEW p \in 1..Len(s)
  PROVE  /\ RemoveAt(s, p) \in Seq(Nat) /\ Len(RemoveAt(s, p)) = Len(s) - 1
         /\ \A j, k \in 1..Len(RemoveAt(s, p)) :
              j < k => RemoveAt(s, p)[j] < RemoveAt(s, p)[k]
         /\ {RemoveAt(s, p)[j] : j \in 1..Len(RemoveAt(s, p))}
              = {s[j] : j \in 1..Len(s)} \ {s[p]}
<1> DEFINE t == RemoveAt(s, p)
           from(j) == IF j < p THEN j ELSE j + 1
<1>2. /\ t \in Seq(Nat) /\ Len(t) = Len(s) - 1 /\ Len(s) \in Nat
      /\ \A j \in 1..Len(s) - 1 : t[j] = IF j < p THEN s[j] ELSE s[j + 1]
  BY RemoveAtType
<1> HIDE DEF t
<1>3. \A j \in 1..Len(t) : t[j] = s[from(j)] /\ from(j) \in 1..Len(s) /\ from(j) # p
  <2> SUFFICES ASSUME NEW j \in 1..Len(t)
               PROVE  t[j] = s[from(j)] /\ from(j) \in 1..Len(s) /\ from(j) # p
    OBVIOUS
  <2>1. j \in 1..Len(s) - 1
    BY <1>2
  <2>2. CASE j < p
    BY <1>2, <2>1, <2>2
  <2>3. CASE ~(j < p)
    BY <1>2, <2>1, <2>3
  <2> QED  BY <2>2, <2>3
<1>4. \A j, k \in 1..Len(t) : j < k => from(j) < from(k)
  <2> SUFFICES ASSUME NEW j \in 1..Len(t), NEW k \in 1..Len(t), j < k
               PROVE  from(j) < from(k)
    OBVIOUS
  <2>1. j \in Nat /\ k \in Nat /\ p \in Nat
    BY <1>2
  <2> QED  BY <2>1
<1>5. \A i \in 1..Len(s) : i # p => \E j \in 1..Len(t) : t[j] = s[i]
  <2> SUFFICES ASSUME NEW i \in 1..Len(s), i # p PROVE \E j \in 1..Len(t) : t[j] = s[i]
    OBVIOUS
  <2>1. CASE i < p
    <3>1. i \in 1..Len(t) /\ t[i] = s[i]
      BY <1>2, <2>1
    <3> QED  BY <3>1
  <2>2. CASE i > p
    <3>1. i - 1 \in 1..Len(t) /\ t[i - 1] = s[i]
      BY <1>2, <2>2
    <3> QED  BY <3>1
  <2> QED  BY <1>2, <2>1, <2>2
<1> HIDE DEF from
<1>6. \A j, k \in 1..Len(t) : j < k => t[j] < t[k]
  BY <1>3, <1>4
<1>7. \A i, j \in 1..Len(s) : s[i] = s[j] => i = j
  BY IncreasingList
<1>8. {t[j] : j \in 1..Len(t)} = {s[j] : j \in 1..Len(s)} \ {s[p]}
  <2>1. \A j \in 1..Len(t) : \E i \in 1..Len(s) : t[j] = s[i] /\ s[i] # s[p]
    BY <1>3, <1>7
  <2>2. \A i \in 1..Len(s) : s[i] # s[p] => \E j \in 1..Len(t) : t[j] = s[i]
    BY <1>5
  <2>3. {t[j] : j \in 1..Len(t)} \subseteq {s[j] : j \in 1..Len(s)} \ {s[p]}
    BY <2>1
  <2>4. {s[j] : j \in 1..Len(s)} \ {s[p]} \subseteq {t[j] : j \in 1..Len(t)}
    BY <2>2
  <2> QED  BY <2>3, <2>4
<1> QED  BY <1>2, <1>6, <1>8 DEF t

(* list::remove takes the one place out that the pointer has in the list. *)
LEMMA UnlistedIs ==
  ASSUME NEW s, NEW x, \E j \in 1..Len(s) : s[j] = x
  PROVE  \E p \in 1..Len(s) : s[p] = x /\ Unlisted(s, x) = RemoveAt(s, p)
<1> DEFINE p == CHOOSE k \in 1..Len(s) : s[k] = x
<1>1. p \in 1..Len(s) /\ s[p] = x
  OBVIOUS
<1>2. Unlisted(s, x) = RemoveAt(s, p)
  BY DEF Unlisted
<1> HIDE DEF p
<1> QED  BY <1>1, <1>2

LEMMA PipeSendKeeps ==
  ASSUME IInv, NEW p \in Pipes, PipeSend(p), UNCHANGED <<ramps, patch>>
  PROVE  IInv'
<1> DEFINE m == First(queue)
           s == Unlisted(held[p], m.id)
           E == Entries(queue)
<1>1. p \in Timed /\ Sends(p) /\ calls \in Nat
  BY DEF Timed, PipeSend, IInv, TypeOK
<1>2. /\ stack = << >> /\ MovedIds = {} /\ SameFlushes
      /\ m \in E /\ m \in Message /\ m.obj = p
      /\ Sound(Popped(queue), calls, MovedIds)
      /\ Entries(Popped(queue)) = E \ {m}
  BY <1>1, SendsIs
<1> HIDE DEF m
<1>3. /\ queue' = Popped(queue) /\ calls' = calls /\ now' = now /\ interval' = interval
      /\ held' = [held EXCEPT ![p] = s] /\ UNCHANGED <<pending, started, ramp, last, patch>>
  BY DEF PipeSend, Sends, ramps, m, IInv, TypeOK
<1>4. 1..Len(stack) = {}
  BY <1>2, EmptySeq
<1>5. \A j \in 1..Len(stack') : ~(stack'[j].it > 0)
  BY <1>2, <1>4 DEF SameFlushes
<1>6. Flushers(p) = {} /\ \A u : Flushers(u)' = {}
  BY <1>4, <1>5 DEF Flushers, Flushes
<1>7. IdsOf(E, p) = {held[p][j] : j \in 1..Len(held[p])}
  BY <1>6, OutsideFlush
<1>8. m.id \in IdsOf(E, p)
  BY <1>2, IdsOfIs
<1>9. /\ s \in Seq(Nat) /\ Len(s) = Len(held[p]) - 1
      /\ \A j, k \in 1..Len(s) : j < k => s[j] < s[k]
      /\ {s[j] : j \in 1..Len(s)} = {held[p][j] : j \in 1..Len(held[p])} \ {m.id}
  <2>1. \E j \in 1..Len(held[p]) : held[p][j] = m.id
    BY <1>7, <1>8
  <2>2. PICK k \in 1..Len(held[p]) : held[p][k] = m.id /\ s = RemoveAt(held[p], k)
    BY <2>1, UnlistedIs
  <2>3. /\ held[p] \in Seq(Nat)
        /\ \A i, j \in 1..Len(held[p]) : i < j => held[p][i] < held[p][j]
    BY HeldIs
  <2> DEFINE h == held[p]
  <2> HIDE DEF s
  <2>4. k \in 1..Len(h) /\ h[k] = m.id /\ s = RemoveAt(h, k) /\ h \in Seq(Nat)
        /\ \A i, j \in 1..Len(h) : i < j => h[i] < h[j]
    BY <2>2, <2>3
  <2> HIDE DEF h
  <2>5. /\ RemoveAt(h, k) \in Seq(Nat) /\ Len(RemoveAt(h, k)) = Len(h) - 1
        /\ \A i, j \in 1..Len(RemoveAt(h, k)) :
             i < j => RemoveAt(h, k)[i] < RemoveAt(h, k)[j]
        /\ {RemoveAt(h, k)[j] : j \in 1..Len(RemoveAt(h, k))} = {h[j] : j \in 1..Len(h)} \ {h[k]}
    BY <2>4, ShortenedList
  <2>6. /\ s \in Seq(Nat) /\ Len(s) = Len(h) - 1
        /\ \A i, j \in 1..Len(s) : i < j => s[i] < s[j]
        /\ {s[j] : j \in 1..Len(s)} = {h[j] : j \in 1..Len(h)} \ {m.id}
    BY <2>4, <2>5
  <2> QED  BY <2>6 DEF h
<1> HIDE DEF s
<1>10. Sound(queue', calls, MovedIds) /\ Entries(queue') = E \ {m}
  BY <1>2, <1>3
<1>11. IdsOf(Entries(queue'), p) = IdsOf(E, p) \ {m.id}
  <2>1. \A a, b \in E : a.id = b.id => a = b
    BY SoundEntries DEF IInv
  <2> HIDE DEF E
  <2> QED  BY <1>2, <1>10, <2>1, IdsOfRemoved
<1>12. /\ TypeOK' /\ Armed' /\ Told' /\ OnTheRamp' /\ held'[p] = s
       /\ \A u \in Pipes : u # p =>
            /\ held'[u] = held[u]
            /\ IdsOf(Entries(queue'), u) = IdsOf(E, u)
            /\ ListedFor(u)'
  <2>1. \A u : u # p => {x \in Entries(queue') : x.obj = u} = {x \in E : x.obj = u}
    BY <1>2, <1>10
  <2>2. \A x \in Entries(queue') :
          x.obj = p => x.id \in IdsOf(Entries(queue), p) \/ x.id \notin 1..calls
    BY <1>10, IdsOfIs
  <2>3. queue' \in Seq(Message) /\ stack' \in Seq(Frame) /\ now' \in Nat
        /\ calls' \in Nat /\ calls <= calls' /\ interval' \in [Timed -> Intervals]
    BY <1>1, <1>2, <1>3, <1>10 DEF Sound, IInv, TypeOK, SameFlushes
  <2> QED  BY <1>3, <1>9, <2>1, <2>2, <2>3, PipeLeaves
<1>13. MovedIds' = {}
  BY <1>5 DEF MovedIds, Flushes
<1>14. Frames'
  <2>1. \A j, k \in 1..Len(stack') : stack'[j].at = stack'[k].at
    BY <1>2 DEF SameFlushes
  <2> QED  BY <1>5, <2>1 DEF Frames, Flushes
<1>15. ListedFor(p)'
  <2>1. \A j \in 1..Len(s) : s[j] \in IdsOf(E, p)
    BY <1>7, <1>9
  <2>2. \A j \in 1..Len(s) : s[j] \in 1..calls
    <3>1. \A x \in IdsOf(E, p) : x \in 1..calls
      BY <1>7, HeldIs
    <3> QED  BY <2>1, <3>1
  <2>3. \A j \in 1..Len(s) : \A x \in Entries(queue') : x.id = s[j] => x.obj = p
    <3> TAKE j \in 1..Len(s)
    <3> TAKE x \in Entries(queue')
    <3> HAVE x.id = s[j]
    <3>1. PICK i \in 1..Len(held[p]) : s[j] = held[p][i]
      BY <1>7, <2>1
    <3> QED  BY <1>10, <3>1, HeldIs
  <2>4. IdsOf(Entries(queue'), p) \subseteq {s[j] : j \in 1..Len(s)}
    BY <1>7, <1>9, <1>11
  <2> QED  BY <1>3, <1>9, <1>12, <2>2, <2>3, <2>4, SMTT(30) DEF ListedFor
<1>16. Listed'
  BY <1>12, <1>15 DEF Listed
<1>17. Counted'
  <2>1. Cardinality(IdsOf(Entries(queue'), p)) = Cardinality(IdsOf(E, p)) - 1
    <3>1. IsFiniteSet(IdsOf(E, p))
      BY <1>1, IdsFinite DEF IInv
    <3> QED  BY <1>8, <1>11, <3>1, FS_RemoveElement
  <2>2. Cardinality(IdsOf(E, p)) = Len(held[p])
    BY <1>6 DEF IInv, Counted
  <2>3. Cardinality(IdsOf(Entries(queue'), p)) = Len(held'[p])
    BY <1>9, <1>12, <2>1, <2>2
  <2>4. \A u \in Pipes : u # p => Cardinality(IdsOf(Entries(queue'), u)) = Len(held'[u])
    <3> TAKE u \in Pipes
    <3> HAVE u # p
    <3>1. Flushers(u) = {}
      BY <1>4 DEF Flushers
    <3> QED  BY <1>12, <3>1 DEF IInv, Counted
  <2> QED  BY <1>6, <2>3, <2>4 DEF Counted
<1>18. MovedToNow'
  BY <1>13 DEF MovedToNow
<1>19. Sound(queue', calls', MovedIds')
  BY <1>2, <1>3, <1>10, <1>13
<1> QED  BY <1>12, <1>14, <1>16, <1>17, <1>18, <1>19 DEF IInv

\* a clear takes the messages of the pipe off the queue, and no other
LEMMA ClearedIs ==
  ASSUME IInv, NEW p \in Pipes, NEW ts, PipeClear(p, ts)
  PROVE  Sound(queue', calls, MovedIds) /\ Entries(queue') = {e \in Entries(queue) : e.obj # p}
<1>0. Flushers(p) = {} /\ calls \in Nat /\ queue' = CancelAll(queue, held[p])
  BY DEF PipeClear, Flushing, Flushers, Flushes, IInv, TypeOK
<1>1. Sound(queue, calls, MovedIds)
  BY DEF IInv
<1>2. /\ held[p] \in Seq(Nat)
      /\ \A j, k \in 1..Len(held[p]) : j < k => held[p][j] < held[p][k]
  BY HeldIs
<1>3. /\ IdsOf(Entries(queue), p) = {held[p][j] : j \in 1..Len(held[p])}
      /\ \A j \in 1..Len(held[p]) : held[p][j] \notin MovedIds
  BY <1>0, OutsideFlush
<1> DEFINE h == held[p]
<1>4. queue' = CancelAll(queue, h) /\ h \in Seq(Nat)
  BY <1>0, <1>2
<1>5. \A j, k \in 1..Len(h) : j < k => h[j] < h[k]
  BY <1>2
<1>6. /\ IdsOf(Entries(queue), p) = {h[j] : j \in 1..Len(h)}
      /\ \A j \in 1..Len(h) : h[j] \notin MovedIds
  BY <1>3
<1> HIDE DEF h
<1>7. Sound(CancelAll(queue, h), calls, MovedIds)
      /\ Entries(CancelAll(queue, h)) = {e \in Entries(queue) : e.obj # p}
  <2>1. calls \in Nat
    BY <1>0
  <2>2. h \in Seq(Nat)
    BY <1>4
  <2> QED  BY ONLY <1>1, <1>5, <1>6, <2>1, <2>2, CancelAllIs, SMTT(90)
<1> QED  BY <1>4, <1>7

LEMMA PipeClearKeeps ==
  ASSUME IInv, NEW p \in Pipes, NEW ts, PipeClear(p, ts), UNCHANGED <<ramps, patch>>
  PROVE  IInv'
<1> DEFINE E == Entries(queue)
<1>1. Flushers(p) = {} /\ calls \in Nat
  BY DEF PipeClear, Flushing, Flushers, Flushes, IInv, TypeOK
<1>2. /\ queue' = CancelAll(queue, held[p]) /\ calls' = calls /\ now' = now
      /\ interval' = interval /\ stack' = stack /\ held' = [held EXCEPT ![p] = << >>]
      /\ UNCHANGED <<pending, started, ramp, last, patch>>
  BY DEF PipeClear, ramps
<1>3. Sound(queue', calls, MovedIds) /\ Entries(queue') = {e \in E : e.obj # p}
  BY ClearedIs
<1>4. /\ TypeOK' /\ Armed' /\ Told' /\ OnTheRamp' /\ held'[p] = << >>
      /\ \A u \in Pipes : u # p =>
           /\ held'[u] = held[u]
           /\ IdsOf(Entries(queue'), u) = IdsOf(E, u)
           /\ ListedFor(u)'
  <2>1. \A u : u # p => {x \in Entries(queue') : x.obj = u} = {x \in E : x.obj = u}
    BY <1>3
  <2>2. \A x \in Entries(queue') :
          x.obj = p => x.id \in IdsOf(Entries(queue), p) \/ x.id \notin 1..calls
    BY <1>3
  <2>3. queue' \in Seq(Message) /\ stack' \in Seq(Frame) /\ now' \in Nat /\ << >> \in Seq(Nat)
        /\ calls' \in Nat /\ calls <= calls' /\ interval' \in [Timed -> Intervals]
    BY <1>1, <1>2, <1>3, EmptySeq DEF Sound, IInv, TypeOK
  <2> QED  BY <1>2, <2>1, <2>2, <2>3, PipeLeaves
<1>5. \A j \in 1..Len(stack) : Flushes(j) => stack[j].obj # p /\ stack[j].obj \in Pipes
  BY <1>1 DEF Flushers, IInv, Frames
<1>6. MovedIds' = MovedIds
  <2>1. \A j \in 1..Len(stack) : Flushes(j) => held'[stack[j].obj] = held[stack[j].obj]
    BY <1>4, <1>5
  <2> QED  BY <1>2, <2>1 DEF MovedIds, Flushes
<1>7. Frames'
  <2>1. \A j \in 1..Len(stack) : Flushes(j) =>
          /\ stack[j].obj \in Pipes
          /\ stack[j].it \in 1..Len(held'[stack[j].obj])
          /\ held'[stack[j].obj][stack[j].it] \in IdsOf(Entries(queue'), stack[j].obj)
    BY <1>4, <1>5 DEF IInv, Frames
  <2> QED  BY <1>2, <2>1 DEF IInv, Frames, Flushes
<1>8. IdsOf(Entries(queue'), p) = {}
  BY <1>3 DEF IdsOf
<1>9. Listed'
  <2>1. Len(held'[p]) = 0 /\ 1..Len(held'[p]) = {}
    BY <1>4, EmptySeq
  <2>2. ListedFor(p)'
    BY <1>8, <2>1 DEF ListedFor
  <2> QED  BY <1>4, <2>2 DEF Listed
<1>10. Counted'
  <2>1. \A u : Flushers(u)' = Flushers(u)
    BY <1>2 DEF Flushers, Flushes
  <2>2. Cardinality(IdsOf(Entries(queue'), p)) = Len(held'[p])
    BY <1>4, <1>8, EmptySeq, FS_EmptySet
  <2>3. \A u \in Pipes : u # p =>
          /\ \A j \in Flushers(u) :
               Cardinality(IdsOf(Entries(queue'), u)) = Len(held'[u]) - (stack[j].it - 1)
          /\ Flushers(u) = {} => Cardinality(IdsOf(Entries(queue'), u)) = Len(held'[u])
    BY <1>4 DEF IInv, Counted
  <2> QED  BY <1>1, <1>2, <2>1, <2>2, <2>3 DEF Counted
<1>11. MovedToNow'
  BY <1>2, <1>3, <1>6 DEF IInv, MovedToNow
<1> QED  BY <1>2, <1>3, <1>4, <1>6, <1>7, <1>9, <1>10, <1>11 DEF IInv

-----------------------------------------------------------------------------
(* "flush" of a pipe *)

(***************************************************************************)
(* A flush comes to the message m, in the place i of the list of p, in a   *)
(* queue q that has what is left of the list: the message is given the     *)
(* time of the flush where it stands, and the frame J of the stack holds   *)
(* the place.                                                              *)
(***************************************************************************)
FlushReaches(p, i, m, at, q, J) ==
  /\ p \in Pipes /\ i \in 1..Len(held[p]) /\ at \in Nat
  /\ Sound(q, calls, MovedIds)
  /\ Entries(q) \subseteq Entries(queue)
  /\ \A e \in Entries(queue) : e.obj # p => e \in Entries(q)
  /\ Cardinality(IdsOf(Entries(q), p)) = Len(held[p]) - (i - 1)
  /\ m \in Entries(q) /\ m.id = held[p][i]
  /\ queue' = SetTimestamp(q, m.id, at)
  /\ stack' \in Seq(Frame)
  /\ J \in 1..Len(stack') /\ stack'[J] = [obj |-> p, at |-> at, it |-> i]
  /\ \A j \in 1..Len(stack') : stack'[j].at = at
  /\ \A j \in 1..Len(stack') : stack'[j].it > 0 /\ j # J =>
       j \in 1..Len(stack) /\ stack'[j] = stack[j] /\ stack[j].obj # p
  /\ \A j \in 1..Len(stack) : stack[j].it > 0 /\ stack[j].obj # p =>
       j \in 1..Len(stack') /\ stack'[j] = stack[j] /\ j # J
  /\ MovedIds' = MovedIds \cup {m.id}
  /\ \A e \in Entries(queue) : e.id \in MovedIds => e.ts = at
  /\ UNCHANGED <<now, objects, ramps, patch>>

LEMMA FlushGoesOn ==
  ASSUME IInv, NEW p, NEW i, NEW m, NEW at, NEW q, NEW J, FlushReaches(p, i, m, at, q, J)
  PROVE  IInv'
<1> USE DEF FlushReaches
<1> DEFINE new == [m EXCEPT !.ts = at]
<1>1. calls \in Nat /\ m \in Message /\ m \in Entries(queue) /\ m.obj = p
  <2>1. m \in Entries(queue)
    OBVIOUS
  <2>2. m.obj = p
    BY <2>1, HeldIs
  <2> QED  BY <2>1, <2>2, SoundEntries DEF IInv, TypeOK
<1>2. new.obj = p /\ new.id = m.id /\ new.ts = at
  BY <1>1 DEF Message
<1>3. Sound(queue', calls, MovedIds') /\ Entries(queue') = (Entries(q) \ {m}) \cup {new}
  <2>1. /\ Sound(SetTimestamp(q, m.id, at), calls, MovedIds \cup {m.id})
        /\ Entries(SetTimestamp(q, m.id, at)) = (Entries(q) \ {m}) \cup {new}
    <3>1. calls \in Nat /\ Sound(q, calls, MovedIds) /\ at \in Nat /\ m \in Entries(q)
      BY <1>1
    <3> QED  BY ONLY <3>1, SetTimestampSound
  <2> QED  BY <2>1
<1> HIDE DEF new
<1>4. UNCHANGED <<held, calls, pending, started, interval, ramp, last, patch>>
  BY DEF objects, ramps
<1>5. IdsOf(Entries(queue'), p) = IdsOf(Entries(q), p)
  BY <1>1, <1>2, <1>3 DEF IdsOf
<1>6. /\ TypeOK' /\ Armed' /\ Told' /\ OnTheRamp'
      /\ \A u \in Pipes : u # p =>
           /\ IdsOf(Entries(queue'), u) = IdsOf(Entries(queue), u)
           /\ ListedFor(u)'
  <2>1. \A u : u # p => {x \in Entries(queue') : x.obj = u} = {x \in Entries(queue) : x.obj = u}
    BY <1>1, <1>2, <1>3
  <2>2. IdsOf(Entries(queue'), p) \subseteq IdsOf(Entries(queue), p)
    BY <1>5 DEF IdsOf
  <2>3. \A x \in Entries(queue') :
          x.obj = p => x.id \in IdsOf(Entries(queue), p) \/ x.id \notin 1..calls
    BY <2>2, IdsOfIs
  <2>4. /\ queue' \in Seq(Message) /\ now' \in Nat /\ calls' \in Nat /\ calls <= calls'
        /\ interval' \in [Timed -> Intervals] /\ held[p] \in Seq(Nat)
        /\ held' = [held EXCEPT ![p] = held[p]]
    BY <1>3, <1>4 DEF Sound, IInv, TypeOK
  <2> QED  BY <1>4, <2>1, <2>3, <2>4, PipeLeaves
<1>7. ListedFor(p)'
  <2>1. IdsOf(Entries(queue'), p) \subseteq {held[p][j] : j \in 1..Len(held[p])}
    <3>1. IdsOf(Entries(q), p) \subseteq IdsOf(Entries(queue), p)
      BY DEF IdsOf
    <3> QED  BY <1>5, <3>1, HeldIs
  <2>2. \A j \in 1..Len(held[p]) : \A x \in Entries(queue') : x.id = held[p][j] => x.obj = p
    <3>1. \A x \in Entries(queue') : x \in Entries(queue) \/ x.obj = p
      BY <1>2, <1>3
    <3> QED  BY <3>1, HeldIs
  <2>3. /\ \A j \in 1..Len(held[p]) : held[p][j] \in 1..calls
        /\ \A j, k \in 1..Len(held[p]) : j < k => held[p][j] < held[p][k]
    BY HeldIs
  <2> QED  BY <1>4, <2>1, <2>2, <2>3 DEF ListedFor
<1>8. Listed'
  BY <1>6, <1>7 DEF Listed
<1>9. Len(held[p]) \in Nat /\ i \in Nat /\ i > 0
  BY HeldIs
<1>10. stack'[J].obj = p /\ stack'[J].it = i
  OBVIOUS
<1>11. Frames'
  <2>1. \A j, k \in 1..Len(stack') :
          stack'[j].it > 0 /\ stack'[k].it > 0 /\ stack'[j].obj = stack'[k].obj => j = k
    <3> TAKE j, k \in 1..Len(stack')
    <3> HAVE stack'[j].it > 0 /\ stack'[k].it > 0 /\ stack'[j].obj = stack'[k].obj
    <3>1. CASE j # J /\ k # J
      <4>1. /\ j \in 1..Len(stack) /\ k \in 1..Len(stack)
            /\ stack[j].it > 0 /\ stack[k].it > 0 /\ stack[j].obj = stack[k].obj
        BY <3>1
      <4> QED  BY <4>1 DEF IInv, Frames, Flushes
    <3>2. CASE j = J \/ k = J
      BY <1>10, <3>2
    <3> QED  BY <3>1, <3>2
  <2>2. \A j \in 1..Len(stack') : stack'[j].it > 0 =>
          /\ stack'[j].obj \in Pipes
          /\ stack'[j].it \in 1..Len(held[stack'[j].obj])
          /\ held[stack'[j].obj][stack'[j].it] \in IdsOf(Entries(queue'), stack'[j].obj)
    <3> TAKE j \in 1..Len(stack')
    <3> HAVE stack'[j].it > 0
    <3>1. CASE j = J
      <4>1. held[p][i] \in IdsOf(Entries(q), p)
        BY <1>1, IdsOfIs
      <4> QED  BY <1>5, <1>10, <3>1, <4>1
    <3>2. CASE j # J
      <4>1. j \in 1..Len(stack) /\ stack'[j] = stack[j] /\ stack[j].obj # p /\ Flushes(j)
        BY <3>2 DEF Flushes
      <4>2. /\ stack[j].obj \in Pipes /\ stack[j].it \in 1..Len(held[stack[j].obj])
            /\ held[stack[j].obj][stack[j].it] \in IdsOf(Entries(queue), stack[j].obj)
        BY <4>1 DEF IInv, Frames
      <4> QED  BY <1>6, <4>1, <4>2
    <3> QED  BY <3>1, <3>2
  <2>3. \A j, k \in 1..Len(stack') : stack'[j].at = stack'[k].at
    OBVIOUS
  <2> QED  BY <1>4, <2>1, <2>2, <2>3 DEF Frames, Flushes
<1>12. Counted'
  <2>1. Flushers(p)' = {J}
    BY <1>9, <1>10 DEF Flushers, Flushes
  <2>2. Cardinality(IdsOf(Entries(queue'), p)) = Len(held[p]) - (stack'[J].it - 1)
    BY <1>5, <1>10
  <2>3. ASSUME NEW u \in Pipes, u # p
        PROVE  /\ Flushers(u)' = Flushers(u)
               /\ \A j \in Flushers(u) : stack'[j] = stack[j]
    <3>1. stack'[J].obj # u
      BY <1>10, <2>3
    <3> QED  BY <2>3, <3>1 DEF Flushers, Flushes
  <2>4. \A u \in Pipes : u # p =>
          /\ \A j \in Flushers(u) :
               Cardinality(IdsOf(Entries(queue'), u)) = Len(held[u]) - (stack[j].it - 1)
          /\ Flushers(u) = {} => Cardinality(IdsOf(Entries(queue'), u)) = Len(held[u])
    BY <1>6 DEF IInv, Counted
  <2>5. held' = held
    BY <1>4
  <2>6. ASSUME NEW u \in Pipes
        PROVE  /\ \A j \in Flushers(u)' :
                    Cardinality(IdsOf(Entries(queue'), u)) = Len(held'[u]) - (stack'[j].it - 1)
               /\ Flushers(u)' = {} => Cardinality(IdsOf(Entries(queue'), u)) = Len(held'[u])
    <3>1. CASE u = p
      BY ONLY <2>1, <2>2, <2>5, <3>1
    <3>2. CASE u # p
      BY ONLY <2>3, <2>4, <2>5, <3>2, u \in Pipes
    <3> QED  BY <3>1, <3>2
  <2> QED  BY ONLY <2>6 DEF Counted
<1>13. MovedToNow'
  <2> SUFFICES ASSUME NEW e \in Entries(queue'), e.id \in MovedIds' PROVE e.ts = at
    BY DEF MovedToNow
  <2>1. CASE e = new
    BY <1>2, <2>1
  <2>2. CASE e \in Entries(q) /\ e # m
    <3>1. e.id # m.id
      BY <2>2, SoundEntries
    <3> QED  BY <2>2, <3>1
  <2> QED  BY <1>3, <2>1, <2>2
<1> QED  BY <1>3, <1>4, <1>6, <1>8, <1>11, <1>12, <1>13 DEF IInv

LEMMA PipeFlushKeeps ==
  ASSUME IInv, NEW p \in Pipes, NEW ts \in Arrivals, PipeFlush(p, ts), UNCHANGED <<ramps, patch>>
  PROVE  IInv'
<1> DEFINE f == [obj |-> p, at |-> ts, it |-> 1]
           J == Len(stack) + 1
<1>1. /\ p \in Timed /\ ts \in Nat /\ f \in Frame /\ stack \in Seq(Frame) /\ Len(stack) \in Nat
      /\ stack # << >> => ts = Top.at
  BY ArrivalTimes, LenProperties DEF Timed, Frame, IInv, TypeOK
<1>2. Flushers(p) = {}
  BY DEF PipeFlush, Flushing, Flushers, Flushes
<1>3. 1 \in 1..Len(held[p]) /\ Len(held[p]) \in Nat
  <2>1. held[p] # << >> /\ held[p] \in Seq(Nat)
    BY HeldIs DEF PipeFlush
  <2> QED  BY <2>1, EmptySeq
<1>4. IdsOf(Entries(queue), p) = {held[p][j] : j \in 1..Len(held[p])}
  BY <1>2, OutsideFlush
<1>5. PICK m \in Entries(queue) : m.obj = p /\ m.id = held[p][1]
  <2>1. held[p][1] \in IdsOf(Entries(queue), p)
    BY <1>3, <1>4
  <2> QED  BY <2>1, Zenon DEF IdsOf
<1>6. Cardinality(IdsOf(Entries(queue), p)) = Len(held[p]) - (1 - 1)
  BY <1>2, <1>3 DEF IInv, Counted
<1>7. /\ stack' \in Seq(Frame) /\ Len(stack') = Len(stack) + 1
      /\ \A j \in 1..Len(stack) : stack'[j] = stack[j]
      /\ stack'[J] = f
  BY <1>1, AppendProperties DEF PipeFlush, Push
<1>8. \A j \in 1..Len(stack) : stack[j].at = ts
  <2> TAKE j \in 1..Len(stack)
  <2>1. stack # << >>
    BY EmptySeq
  <2> QED  BY <1>1, <2>1, TopIs DEF IInv, Frames
<1>9. \A j : j \in 1..Len(stack') <=> j \in 1..Len(stack) \/ j = J
  BY <1>1, <1>7
<1>10. J \notin 1..Len(stack)
  BY <1>1
<1>11. f.at = ts /\ f.it = 1 /\ f.obj = p
  OBVIOUS
<1>12. \A j \in 1..Len(stack) : stack[j].it > 0 => stack[j].obj # p
  BY <1>2 DEF Flushers, Flushes
<1> HIDE DEF J
<1>13. held' = held /\ queue' = SetTimestamp(queue, held[p][1], ts)
  BY DEF PipeFlush, objects
<1>14. MovedIds' = MovedIds \cup {m.id}
  <2>1. \A i : i \in 1..f.it <=> i = 1
    BY <1>11
  <2>2. m.id \in Nat /\ m.id = held[p][1]
    BY <1>3, <1>5, HeldIs
  <2>3. \A x \in Nat :
          (\E j \in 1..Len(stack') :
             stack'[j].it > 0 /\ \E i \in 1..stack'[j].it : x = held[stack'[j].obj][i])
          <=> \/ x = m.id
              \/ \E j \in 1..Len(stack) :
                   stack[j].it > 0 /\ \E i \in 1..stack[j].it : x = held[stack[j].obj][i]
    <3> TAKE x \in Nat
    <3> DEFINE Old(j) == stack[j].it > 0 /\ \E i \in 1..stack[j].it : x = held[stack[j].obj][i]
               New(j) == stack'[j].it > 0 /\ \E i \in 1..stack'[j].it : x = held[stack'[j].obj][i]
    <3>1. \A j \in 1..Len(stack) : New(j) <=> Old(j)
      BY <1>7
    <3>2. New(J) <=> x = m.id
      BY <1>7, <1>11, <2>1, <2>2
    <3> HIDE DEF Old, New
    <3>3. (\E j \in 1..Len(stack') : New(j)) <=> (x = m.id \/ \E j \in 1..Len(stack) : Old(j))
      BY <1>9, <3>1, <3>2
    <3> QED  BY <3>3 DEF Old, New
  <2>4. MovedIds' = {x \in Nat : \E j \in 1..Len(stack') :
           stack'[j].it > 0 /\ \E i \in 1..stack'[j].it : x = held[stack'[j].obj][i]}
    BY <1>13 DEF MovedIds, Flushes
  <2>5. MovedIds = {x \in Nat : \E j \in 1..Len(stack) :
           stack[j].it > 0 /\ \E i \in 1..stack[j].it : x = held[stack[j].obj][i]}
    BY DEF MovedIds, Flushes
  <2> QED  BY ONLY <2>2, <2>3, <2>4, <2>5
<1>15. \A e \in Entries(queue) : e.id \in MovedIds => e.ts = ts
  <2> TAKE e \in Entries(queue)
  <2> HAVE e.id \in MovedIds
  <2>1. PICK j \in 1..Len(stack) : TRUE
    BY DEF MovedIds
  <2> QED  BY <1>8, <2>1 DEF IInv, MovedToNow
<1>16. UNCHANGED <<now, objects, ramps, patch>>
  BY DEF PipeFlush
<1>17. \A j \in 1..Len(stack') : stack'[j].at = ts
  BY <1>7, <1>8, <1>9, <1>11
<1>18. \A j \in 1..Len(stack') : stack'[j].it > 0 /\ j # J =>
         j \in 1..Len(stack) /\ stack'[j] = stack[j] /\ stack[j].obj # p
  BY <1>7, <1>9, <1>12
<1>19. \A j \in 1..Len(stack) : stack[j].it > 0 /\ stack[j].obj # p =>
         j \in 1..Len(stack') /\ stack'[j] = stack[j] /\ j # J
  BY <1>7, <1>9, <1>10
<1>20. J \in 1..Len(stack') /\ stack'[J] = f
  BY <1>7, <1>9
<1>21. Sound(queue, calls, MovedIds) /\ m.id = held[p][1] /\ queue' = SetTimestamp(queue, m.id, ts)
  BY <1>5, <1>13 DEF IInv
<1>22. stack'[J] = [obj |-> p, at |-> ts, it |-> 1]
  BY <1>20
<1> HIDE DEF f
<1>23. FlushReaches(p, 1, m, ts, queue, J)
  BY <1>1, <1>3, <1>6, <1>7, <1>14, <1>15, <1>16, <1>17, <1>18, <1>19, <1>20, <1>21, <1>22
     DEF FlushReaches
<1> QED  BY <1>23, FlushGoesOn

(* The message a flush has sent is cancelled, or one of the same time instead: the *)
(* pipe has one message fewer in the queue.                                        *)
LEMMA AfterFlushedIs ==
  ASSUME IInv, InFlush
  PROVE  /\ Top.obj \in Pipes /\ Top.it \in 1..Len(held[Top.obj]) /\ Top.at \in Nat
         /\ Flushers(Top.obj) = {Len(stack)}
         /\ Len(stack) \in 1..Len(stack) /\ Top = stack[Len(stack)]
         /\ held[Top.obj][Top.it] \in IdsOf(Entries(queue), Top.obj)
         /\ Sound(AfterFlushed, calls, MovedIds)
         /\ \E x \in Entries(queue) :
              x.obj = Top.obj /\ Entries(AfterFlushed) = Entries(queue) \ {x}
         /\ Cardinality(IdsOf(Entries(AfterFlushed), Top.obj)) = Len(held[Top.obj]) - Top.it
         /\ Cardinality(IdsOf(Entries(queue), Top.obj)) = Len(held[Top.obj]) - (Top.it - 1)
<1> DEFINE J == Len(stack)
           p == Top.obj
           i == Top.it
           E == Entries(queue)
<1>1. stack # << >> /\ i > 0
  BY DEF InFlush
<1>2. J \in 1..Len(stack) /\ Top = stack[J] /\ Top.at \in Nat /\ i \in Nat
  BY <1>1, TopIs DEF IInv
<1> HIDE DEF J
<1>3. Flushes(J) /\ stack[J].obj = p /\ stack[J].it = i
  BY <1>1, <1>2 DEF Flushes
<1>4. p \in Pipes /\ i \in 1..Len(held[p]) /\ held[p][i] \in IdsOf(E, p)
  BY <1>2, <1>3 DEF IInv, Frames
<1>5. Flushers(p) = {J}
  BY <1>2, <1>3 DEF Flushers, IInv, Frames
<1>6. PICK m \in E : m.obj = p /\ m.id = held[p][i]
  BY <1>4, Zenon DEF IdsOf
<1>7. calls \in Nat /\ Sound(queue, calls, MovedIds)
  BY DEF IInv, TypeOK
<1>8. AfterFlushed = CancelPointer(queue, m.id)
  BY <1>6 DEF AfterFlushed
<1>9. PICK x \in E :
        /\ x.obj = m.obj
        /\ Sound(CancelPointer(queue, m.id), calls, MovedIds)
        /\ Entries(CancelPointer(queue, m.id)) = E \ {x}
  BY ONLY <1>6, <1>7, CancelPointerIs
<1>10. Cardinality(IdsOf(E, p)) = Len(held[p]) - (i - 1)
  BY <1>3, <1>4, <1>5 DEF IInv, Counted
<1>11. IdsOf(Entries(AfterFlushed), p) = IdsOf(E, p) \ {x.id}
  <2>1. \A a, b \in E : a.id = b.id => a = b
    BY <1>7, SoundEntries
  <2>2. IdsOf(E \ {x}, p) = IdsOf(E, p) \ {x.id}
    <3>1. x \in E /\ x.obj = p
      BY <1>6, <1>9
    <3> HIDE DEF E, p
    <3> QED  BY <2>1, <3>1, IdsOfRemoved
  <2> QED  BY ONLY <1>8, <1>9, <2>2
<1>12. Cardinality(IdsOf(Entries(AfterFlushed), p)) = Cardinality(IdsOf(E, p)) - 1
  <2>1. x.id \in IdsOf(E, p)
    BY ONLY <1>6, <1>9, IdsOfIs
  <2>2. IsFiniteSet(IdsOf(E, p))
    BY ONLY <1>7, IdsFinite
  <2> QED  BY ONLY <1>11, <2>1, <2>2, FS_RemoveElement
<1>13. Cardinality(IdsOf(Entries(AfterFlushed), p)) = Len(held[p]) - i
  <2>1. Len(held[p]) \in Nat
    BY <1>4, HeldIs
  <2> QED  BY ONLY <1>2, <1>10, <1>12, <2>1
<1> QED
  BY <1>2, <1>4, <1>5, <1>6, <1>8, <1>9, <1>10, <1>13 DEF J

LEMMA FlushNextKeeps ==
  ASSUME IInv, FlushNext, UNCHANGED <<ramps, patch>>
  PROVE  IInv'
<1> DEFINE J == Len(stack)
           p == Top.obj
           i == Top.it
           q == AfterFlushed
           at == Top.at
           f == [Top EXCEPT !.it = i + 1]
           next == held[p][i + 1]
<1>1. InFlush /\ i < Len(held[p]) /\ stack # << >>
  BY DEF FlushNext, InFlush
<1>2. /\ p \in Pipes /\ i \in 1..Len(held[p]) /\ at \in Nat
      /\ Flushers(p) = {J} /\ J \in 1..Len(stack) /\ Top = stack[J]
      /\ Sound(q, calls, MovedIds)
      /\ \E x \in Entries(queue) : x.obj = p /\ Entries(q) = Entries(queue) \ {x}
      /\ Cardinality(IdsOf(Entries(q), p)) = Len(held[p]) - i
  BY <1>1, AfterFlushedIs
<1>3. Top \in Frame /\ i \in Nat /\ p \in Timed /\ Len(stack) \in Nat
  BY <1>1, TopIs DEF IInv
<1>4. f \in Frame /\ f = [obj |-> p, at |-> at, it |-> i + 1]
  BY <1>3 DEF Frame
<1>5. Live(q, next) /\ queue' = SetTimestamp(q, next, at) /\ held' = held
      /\ UNCHANGED <<now, objects, ramps, patch>>
  BY DEF FlushNext, objects
<1>6. stack' = [stack EXCEPT ![J] = f]
  BY <1>2 DEF FlushNext, Top
<1>7. PICK m \in Entries(q) : m.id = next
  BY <1>5 DEF Live, Entries
<1>8. i + 1 \in 1..Len(held[p]) /\ Len(held[p]) \in Nat
  BY <1>1, <1>2, HeldIs, SMTT(30)
<1>9. next \in Nat
  BY <1>2, <1>8, HeldIs
<1> HIDE DEF J, q, next, f
<1>10. /\ stack' \in Seq(Frame) /\ Len(stack') = Len(stack)
       /\ \A j \in 1..Len(stack) : stack'[j] = IF j = J THEN f ELSE stack[j]
  <2>1. stack \in Seq(Frame)
    BY DEF IInv, TypeOK
  <2> QED  BY ONLY <1>2, <1>4, <1>6, <2>1, ExceptSeq
<1>11. f.obj = p /\ f.at = at /\ f.it = i + 1
  BY <1>4
<1>12. \A j \in 1..Len(stack) : stack[j].at = at
  BY <1>2 DEF IInv, Frames
<1>13. \A j \in 1..Len(stack) : stack[j].it > 0 /\ stack[j].obj = p <=> j = J
  BY <1>2 DEF Flushers, Flushes
<1>14. MovedIds' = MovedIds \cup {m.id}
  <2>1. \A k : k \in 1..i + 1 <=> k \in 1..i \/ k = i + 1
    BY <1>3
  <2>2. \A x \in Nat :
          (\E j \in 1..Len(stack') :
             stack'[j].it > 0 /\ \E k \in 1..stack'[j].it : x = held[stack'[j].obj][k])
          <=> \/ x = m.id
              \/ \E j \in 1..Len(stack) :
                   stack[j].it > 0 /\ \E k \in 1..stack[j].it : x = held[stack[j].obj][k]
    <3> TAKE x \in Nat
    <3> DEFINE Old(j) == stack[j].it > 0 /\ \E k \in 1..stack[j].it : x = held[stack[j].obj][k]
               New(j) == stack'[j].it > 0 /\ \E k \in 1..stack'[j].it : x = held[stack'[j].obj][k]
    <3>1. \A j \in 1..Len(stack) : j # J => (New(j) <=> Old(j))
      BY <1>10
    <3>2. Old(J) <=> \E k \in 1..i : x = held[p][k]
      BY <1>2, <1>13
    <3>3. stack'[J] = f
      BY <1>2, <1>10
    <3>4. New(J) <=> \E k \in 1..i + 1 : x = held[p][k]
      BY ONLY <1>3, <1>11, <3>3
    <3>5. New(J) <=> Old(J) \/ x = m.id
      <4> HIDE DEF Old, New
      <4> QED  BY ONLY <1>7, <2>1, <3>2, <3>4 DEF next
    <3> HIDE DEF Old, New
    <3>6. (\E j \in 1..Len(stack') : New(j)) <=> (x = m.id \/ \E j \in 1..Len(stack) : Old(j))
      BY ONLY <1>2, <1>10, <3>1, <3>5
    <3> QED  BY <3>6 DEF Old, New
  <2>3. MovedIds' = {x \in Nat : \E j \in 1..Len(stack') :
           stack'[j].it > 0 /\ \E k \in 1..stack'[j].it : x = held[stack'[j].obj][k]}
    BY <1>5 DEF MovedIds, Flushes
  <2>4. MovedIds = {x \in Nat : \E j \in 1..Len(stack) :
           stack[j].it > 0 /\ \E k \in 1..stack[j].it : x = held[stack[j].obj][k]}
    BY DEF MovedIds, Flushes
  <2>5. m.id \in Nat
    BY <1>7, <1>9
  <2> QED  BY ONLY <2>2, <2>3, <2>4, <2>5
<1>15. \A e \in Entries(queue) : e.id \in MovedIds => e.ts = at
  BY <1>2 DEF IInv, MovedToNow
<1>16. \A j \in 1..Len(stack') : stack'[j].at = at
  BY <1>10, <1>11, <1>12
<1>17. \A j \in 1..Len(stack') : stack'[j].it > 0 /\ j # J =>
         j \in 1..Len(stack) /\ stack'[j] = stack[j] /\ stack[j].obj # p
  BY <1>10, <1>13
<1>18. \A j \in 1..Len(stack) : stack[j].it > 0 /\ stack[j].obj # p =>
         j \in 1..Len(stack') /\ stack'[j] = stack[j] /\ j # J
  BY <1>10, <1>13
<1>19. J \in 1..Len(stack') /\ stack'[J] = [obj |-> p, at |-> at, it |-> i + 1]
  BY <1>2, <1>4, <1>10
<1>20. Entries(q) \subseteq Entries(queue) /\ \A e \in Entries(queue) : e.obj # p => e \in Entries(q)
  BY <1>2
<1>21. Cardinality(IdsOf(Entries(q), p)) = Len(held[p]) - ((i + 1) - 1)
  BY <1>2, <1>3
<1>22. m.id = held[p][i + 1] /\ queue' = SetTimestamp(q, m.id, at)
  BY <1>5, <1>7 DEF next
<1>23. FlushReaches(p, i + 1, m, at, q, J)
  BY ONLY <1>2, <1>5, <1>7, <1>8, <1>10, <1>14, <1>15, <1>16, <1>17, <1>18, <1>19, <1>20,
     <1>21, <1>22 DEF FlushReaches
<1> QED  BY <1>23, FlushGoesOn

(* The last message of the list was sent: nothing of the pipe is in the queue any more. *)
LEMMA FlushEndKeeps ==
  ASSUME IInv, FlushEnd, UNCHANGED <<ramps, patch>>
  PROVE  IInv'
<1> DEFINE J == Len(stack)
           E == Entries(queue)
<1>0. PICK p \in Pipes : p = Top.obj
  <2>1. InFlush
    BY DEF FlushEnd
  <2> QED  BY <2>1, AfterFlushedIs
<1>1. InFlush /\ Top.it = Len(held[p]) /\ stack # << >>
  BY <1>0 DEF FlushEnd, InFlush
<1>2. /\ p \in Pipes /\ Top.it \in 1..Len(held[p])
      /\ Flushers(p) = {J} /\ J \in 1..Len(stack)
      /\ Sound(AfterFlushed, calls, MovedIds)
      /\ \E x \in E : x.obj = p /\ Entries(AfterFlushed) = E \ {x}
      /\ Cardinality(IdsOf(Entries(AfterFlushed), p)) = Len(held[p]) - Top.it
  BY <1>0, <1>1, AfterFlushedIs
<1>3. /\ queue' = AfterFlushed /\ held' = [held EXCEPT ![p] = << >>] /\ stack' = Returned
      /\ UNCHANGED <<now, pending, interval, calls, started, ramp, last, patch>>
  BY <1>0 DEF FlushEnd, ramps
<1>4. calls \in Nat /\ Len(held[p]) \in Nat
  BY <1>2, HeldIs DEF IInv, TypeOK
<1>5. IdsOf(Entries(queue'), p) = {}
  <2>1. IsFiniteSet(IdsOf(Entries(AfterFlushed), p))
    BY <1>2, <1>4, IdsFinite
  <2>2. Cardinality(IdsOf(Entries(AfterFlushed), p)) = 0
    BY <1>1, <1>2, <1>4
  <2> QED  BY <1>3, <2>1, <2>2, FS_EmptySet
<1>6. \A e \in Entries(queue') : e \in E /\ e.obj # p
  <2>1. \A e \in Entries(queue') : e \in E
    BY <1>2, <1>3
  <2>2. \A e \in Entries(queue') : e.obj # p
    BY <1>5 DEF IdsOf
  <2> QED  BY <2>1, <2>2
<1>7. \A e \in E : e.obj # p => e \in Entries(queue')
  BY <1>2, <1>3
<1>8. /\ stack' \in Seq(Frame) /\ Len(stack') = J - 1 /\ J \in Nat
      /\ \A j \in 1..J - 1 : stack'[j] = stack[j]
  BY <1>1, <1>3, ReturnedIs, TopIs DEF IInv
<1> HIDE DEF J
<1>9. \A j : j \in 1..Len(stack') <=> j \in 1..Len(stack) /\ j # J
  BY <1>2, <1>8 DEF J
<1>10. \A j \in 1..Len(stack') : stack'[j] = stack[j]
  BY <1>8
<1> HIDE DEF E
<1>11. /\ TypeOK' /\ Armed' /\ Told' /\ OnTheRamp' /\ held'[p] = << >>
       /\ \A u \in Pipes : u # p =>
            /\ held'[u] = held[u]
            /\ IdsOf(Entries(queue'), u) = IdsOf(Entries(queue), u)
            /\ ListedFor(u)'
  <2>1. \A u : u # p => {x \in Entries(queue') : x.obj = u} = {x \in Entries(queue) : x.obj = u}
    BY <1>6, <1>7 DEF E
  <2>2. \A x \in Entries(queue') :
          x.obj = p => x.id \in IdsOf(Entries(queue), p) \/ x.id \notin 1..calls
    BY <1>6
  <2>3. queue' \in Seq(Message) /\ now' \in Nat /\ << >> \in Seq(Nat)
        /\ calls' \in Nat /\ calls <= calls' /\ interval' \in [Timed -> Intervals]
    BY <1>2, <1>3, <1>4, EmptySeq DEF Sound, IInv, TypeOK
  <2> QED  BY <1>2, <1>3, <1>8, <2>1, <2>2, <2>3, PipeLeaves
<1>12. \A j \in 1..Len(stack') : stack'[j].it > 0 =>
         Flushes(j) /\ stack[j].obj # p /\ stack[j].obj \in Pipes
  BY <1>2, <1>9, <1>10 DEF Flushers, Flushes, IInv, Frames
<1>13. \A j \in 1..Len(stack) : Flushes(j) /\ stack[j].obj # p => j \in 1..Len(stack')
  <2>1. stack[J].obj = p
    BY <1>2 DEF Flushers
  <2> QED  BY <1>9, <2>1
<1>14. Frames'
  <2>1. \A j, k \in 1..Len(stack') : stack'[j].at = stack'[k].at
    BY <1>9, <1>10 DEF IInv, Frames
  <2>2. \A j, k \in 1..Len(stack') :
          stack'[j].it > 0 /\ stack'[k].it > 0 /\ stack'[j].obj = stack'[k].obj => j = k
    BY <1>9, <1>10, <1>12 DEF IInv, Frames
  <2>3. \A j \in 1..Len(stack') : stack'[j].it > 0 =>
          /\ stack'[j].obj \in Pipes
          /\ stack'[j].it \in 1..Len(held'[stack'[j].obj])
          /\ held'[stack'[j].obj][stack'[j].it] \in IdsOf(Entries(queue'), stack'[j].obj)
    <3> TAKE j \in 1..Len(stack')
    <3> HAVE stack'[j].it > 0
    <3>1. j \in 1..Len(stack) /\ Flushes(j) /\ stack[j].obj # p /\ stack'[j] = stack[j]
      BY <1>9, <1>10, <1>12
    <3>2. /\ stack[j].obj \in Pipes /\ stack[j].it \in 1..Len(held[stack[j].obj])
          /\ held[stack[j].obj][stack[j].it] \in IdsOf(Entries(queue), stack[j].obj)
      BY <3>1 DEF IInv, Frames
    <3> QED  BY <1>11, <3>1, <3>2
  <2> QED  BY ONLY <2>1, <2>2, <2>3 DEF Frames, Flushes
<1>15. Listed'
  <2>1. Len(held'[p]) = 0 /\ 1..Len(held'[p]) = {}
    BY <1>11, EmptySeq
  <2>2. ListedFor(p)'
    BY <1>5, <2>1 DEF ListedFor
  <2> QED  BY <1>11, <2>2 DEF Listed
<1>16. Counted'
  <2>1. Flushers(p)' = {}
    BY <1>12, <1>10 DEF Flushers, Flushes
  <2>2. Cardinality(IdsOf(Entries(queue'), p)) = Len(held'[p])
    BY <1>5, <1>11, EmptySeq, FS_EmptySet
  <2>3. ASSUME NEW u \in Pipes, u # p
        PROVE  /\ Flushers(u)' = Flushers(u)
               /\ \A j \in Flushers(u) : stack'[j] = stack[j]
    BY <1>9, <1>10, <1>13, <2>3 DEF Flushers, Flushes
  <2>4. \A u \in Pipes : u # p =>
          /\ \A j \in Flushers(u) :
               Cardinality(IdsOf(Entries(queue'), u)) = Len(held'[u]) - (stack[j].it - 1)
          /\ Flushers(u) = {} => Cardinality(IdsOf(Entries(queue'), u)) = Len(held'[u])
    BY <1>11 DEF IInv, Counted
  <2>5. ASSUME NEW u \in Pipes
        PROVE  /\ \A j \in Flushers(u)' :
                    Cardinality(IdsOf(Entries(queue'), u)) = Len(held'[u]) - (stack'[j].it - 1)
               /\ Flushers(u)' = {} => Cardinality(IdsOf(Entries(queue'), u)) = Len(held'[u])
    <3>1. CASE u = p
      BY ONLY <2>1, <2>2, <3>1
    <3>2. CASE u # p
      BY ONLY <2>3, <2>4, <3>2, u \in Pipes
    <3> QED  BY <3>1, <3>2
  <2> QED  BY ONLY <2>5 DEF Counted
<1>17. \A e \in Entries(queue') : e.id \in MovedIds <=> e.id \in MovedIds'
  <2> SUFFICES ASSUME NEW e \in Entries(queue') PROVE e.id \in MovedIds <=> e.id \in MovedIds'
    OBVIOUS
  <2>1. ASSUME e.id \in MovedIds PROVE e.id \in MovedIds'
    <3>1. PICK j \in 1..Len(stack) :
            Flushes(j) /\ \E i \in 1..stack[j].it : e.id = held[stack[j].obj][i]
      BY <2>1 DEF MovedIds
    <3>2. PICK i \in 1..stack[j].it : e.id = held[stack[j].obj][i]
      BY <3>1
    <3>3. stack[j].obj # p
      <4> SUFFICES ASSUME stack[j].obj = p PROVE FALSE
        OBVIOUS
      <4>1. stack[j].it \in 1..Len(held[p])
        BY <3>1 DEF IInv, Frames
      <4>2. i \in 1..Len(held[p])
        BY <1>4, <3>2, <4>1
      <4>3. e \in Entries(queue) /\ e.obj # p /\ e.id = held[p][i]
        BY <1>6, <3>2 DEF E
      <4> QED  BY <4>2, <4>3, HeldIs
    <3>4. j \in 1..Len(stack') /\ stack'[j] = stack[j] /\ held'[stack[j].obj] = held[stack[j].obj]
      BY <1>10, <1>11, <1>12, <1>13, <3>1, <3>3 DEF IInv, Frames
    <3>5. e.id \in Nat
      BY <2>1 DEF MovedIds
    <3> QED  BY <3>1, <3>2, <3>4, <3>5 DEF MovedIds, Flushes
  <2>2. ASSUME e.id \in MovedIds' PROVE e.id \in MovedIds
    <3>1. PICK j \in 1..Len(stack') :
            stack'[j].it > 0 /\ \E i \in 1..stack'[j].it : e.id = held'[stack'[j].obj][i]
      BY <2>2 DEF MovedIds, Flushes
    <3>2. j \in 1..Len(stack) /\ stack'[j] = stack[j] /\ held'[stack[j].obj] = held[stack[j].obj]
      BY <1>9, <1>10, <1>11, <1>12, <3>1
    <3>3. e.id \in Nat
      BY <2>2 DEF MovedIds
    <3> QED  BY <3>1, <3>2, <3>3 DEF MovedIds, Flushes
  <2> QED  BY <2>1, <2>2
<1>18. Sound(queue', calls', MovedIds')
  <2>1. queue' \in Seq(Message) /\ Numbered(queue', calls) /\ OrderedBut(queue', MovedIds)
    BY <1>2, <1>3 DEF Sound
  <2>2. \A j \in 1..Len(queue') : queue'[j] \in Entries(queue')
    BY DEF Entries
  <2>3. OrderedBut(queue', MovedIds')
    BY ONLY <1>17, <2>1, <2>2 DEF OrderedBut
  <2> QED  BY <1>3, <2>1, <2>3 DEF Sound
<1>19. MovedToNow'
  <2> SUFFICES ASSUME NEW e \in Entries(queue'), e.id \in MovedIds', NEW j \in 1..Len(stack')
               PROVE  e.ts = stack'[j].at
    BY DEF MovedToNow
  <2>1. e \in Entries(queue) /\ e.id \in MovedIds
    BY <1>6, <1>17 DEF E
  <2> QED  BY <1>9, <1>10, <2>1 DEF IInv, MovedToNow
<1> QED  BY <1>11, <1>14, <1>15, <1>16, <1>18, <1>19 DEF IInv

-----------------------------------------------------------------------------
(* The invariant *)

LEMMA InitIs ==
  ASSUME Init
  PROVE  IInv
<1> DEFINE n == Cardinality(Loadbangs \cap patch)
<1>1. PICK made \in [1..n -> Loadbangs \cap patch] :
        queue = [k \in 1..n |-> LoadbangCall(made[k], k)] /\ calls = n
  BY DEF Init
<1>2. n \in Nat
  <2>1. IsFiniteSet(Loadbangs) /\ Loadbangs \cap patch \in SUBSET Loadbangs
    BY TimedAssumption
  <2>2. IsFiniteSet(Loadbangs \cap patch)
    BY ONLY <2>1, FS_Subset
  <2> QED  BY <2>2, FS_CardinalityType
<1> HIDE DEF n
<1>3. /\ now = 0 /\ stack = << >> /\ pending = [o \in Timers |-> NULL]
      /\ held = [p \in Pipes |-> << >>] /\ interval = Arguments
      /\ ramp = [l \in Lines |-> [current |-> 0, target |-> 0, slope |-> 0]]
      /\ last = [o \in Lines \cup Clocks |-> 0] /\ started = [o \in Timers |-> FALSE]
      /\ patch \in Patches
  BY DEF Init
<1>4. ASSUME NEW k \in 1..n
      PROVE  /\ LoadbangCall(made[k], k) \in Message
             /\ LoadbangCall(made[k], k).id = k /\ LoadbangCall(made[k], k).ts = 0
             /\ LoadbangCall(made[k], k).obj \in Loadbangs
  <2>1. made[k] \in Loadbangs /\ made[k] \in Timed /\ k \in Nat
    BY <1>2 DEF Timed
  <2> QED  BY <2>1, BangIsAtoms DEF LoadbangCall, Message
<1>5. queue \in Seq(Message) /\ Len(queue) = n
  <2>1. queue \in Seq(Message)
    BY <1>1, <1>2, <1>4, IsASeq
  <2>2. DOMAIN queue = 1..n
    BY <1>1
  <2> QED  BY <1>2, <2>1, <2>2, LenProperties
<1>6. \A k \in 1..n : queue[k].id = k /\ queue[k].ts = 0 /\ queue[k].obj \in Loadbangs
  <2> TAKE k \in 1..n
  <2>1. queue[k] = LoadbangCall(made[k], k)
    BY <1>1
  <2> QED  BY <1>4, <2>1
<1>7. 1..Len(stack) = {} /\ << >> \in Seq(Frame) /\ << >> \in Seq(Nat) /\ Len(<< >>) = 0 /\ 1..0 = {}
  BY <1>3, EmptySeq
<1>8. TypeOK
  <2>1. pending \in [Timers -> Nat] /\ started \in [Timers -> BOOLEAN] /\ held \in [Pipes -> Seq(Nat)]
    BY <1>3, <1>7 DEF NULL
  <2>2. /\ ramp \in [Lines -> [current : Int, target : Int, slope : Int]]
        /\ last \in [Lines \cup Clocks -> Nat]
    BY <1>3
  <2>3. interval \in [Timed -> Intervals] /\ patch \subseteq Timed
    BY <1>3, TimedAssumption
  <2> QED  BY <1>1, <1>2, <1>3, <1>5, <1>7, <2>1, <2>2, <2>3 DEF TypeOK
<1>9. Sound(queue, calls, MovedIds)
  <2>1. Numbered(queue, calls)
    BY <1>1, <1>2, <1>5, <1>6 DEF Numbered
  <2>2. OrderedBut(queue, MovedIds)
    BY <1>2, <1>5, <1>6 DEF OrderedBut, Before
  <2> QED  BY <1>5, <2>1, <2>2 DEF Sound
<1>10. \A o \in Timers \cup Pipes : IdsOf(Entries(queue), o) = {}
  <2>1. \A m \in Entries(queue) : m.obj \in Loadbangs
    BY <1>5, <1>6 DEF Entries
  <2>2. \A o \in Timers \cup Pipes : o \notin Loadbangs
    BY TimedAssumption
  <2> QED  BY <2>1, <2>2 DEF IdsOf
<1>11. Armed /\ Told
  BY <1>3, <1>10 DEF Armed, Told
<1>12. Frames /\ MovedToNow
  BY <1>7 DEF Frames, MovedToNow
<1>13. \A p \in Pipes : held[p] = << >>
  BY <1>3
<1>14. Listed
  <2>1. ASSUME NEW p \in Pipes PROVE ListedFor(p)
    BY <1>7, <1>10, <1>13 DEF ListedFor
  <2> QED  BY <2>1 DEF Listed
<1>15. Counted
  <2>1. \A p : Flushers(p) = {}
    BY <1>7 DEF Flushers
  <2>2. \A p \in Pipes : Cardinality(IdsOf(Entries(queue), p)) = Len(held[p])
    BY <1>7, <1>10, <1>13, FS_EmptySet
  <2> QED  BY <2>1, <2>2 DEF Counted
<1>16. OnTheRamp
  <2>1. \A m \in Entries(queue) : m.obj \in Loadbangs
    BY <1>5, <1>6 DEF Entries
  <2>2. \A l \in Lines : l \notin Loadbangs
    BY TimedAssumption DEF Timers
  <2> QED  BY <2>1, <2>2 DEF OnTheRamp
<1> QED  BY <1>8, <1>9, <1>11, <1>12, <1>14, <1>15, <1>16 DEF IInv

LEMMA StutterKeeps ==
  ASSUME IInv, UNCHANGED vars
  PROVE  IInv'
<1>1. SameFlushes
  BY StackSame DEF vars, IInv
<1> QED  BY <1>1, IdleStep DEF vars, objects, ramps, IInv, TypeOK

(* The handlers that a message from outside, or from a send under way, reaches. *)
LEMMA ArrivalKeeps ==
  ASSUME Room, IInv, NEW ts \in Arrivals, UNCHANGED <<ramps, patch>>,
         \/ MetroStep(ts) \/ DelayStep(ts) \/ PipeStep(ts)
         \/ \E l \in Lines \cap patch : TimerStop(l, ts) \/ \E ms \in Intervals : MetroSet(l, ts, ms)
  PROVE  IInv'
<1>1. \A o \in Metros \cup DelayObjects \cup Lines : o \in Timers /\ o \in Timed
  BY DEF Timers, Timed
<1>2. CASE MetroStep(ts)
  BY <1>1, <1>2, MetroStartKeeps, TimerStopKeeps, IntervalKeeps DEF MetroStep, MetroSet
<1>3. CASE DelayStep(ts)
  BY <1>1, <1>3, DelayStartKeeps, TimerStopKeeps, DelaySetKeeps DEF DelayStep
<1>4. CASE PipeStep(ts)
  <2>1. PICK p \in Pipes :
          \/ \E atoms \in PipeAtoms : PipePut(p, ts, atoms)
          \/ \E ms \in Intervals : PipeSet(p, ts, ms)
          \/ PipeClear(p, ts) \/ PipeFlush(p, ts) \/ PipeReentered(p, ts)
    BY <1>4 DEF PipeStep
  <2>2. CASE \E atoms \in PipeAtoms : PipePut(p, ts, atoms)
    BY <2>2, PipePutKeeps
  <2>3. CASE \E ms \in Intervals : PipeSet(p, ts, ms)
    <3>1. p \in Timed
      BY DEF Timed
    <3> QED  BY <2>3, <3>1, IntervalKeeps DEF PipeSet
  <2>4. CASE PipeClear(p, ts)
    BY <2>4, PipeClearKeeps
  <2>5. CASE PipeFlush(p, ts)
    BY <2>5, PipeFlushKeeps
  <2>6. CASE PipeReentered(p, ts)
    BY <2>6, ReenteredKeeps
  <2> QED  BY <2>1, <2>2, <2>3, <2>4, <2>5, <2>6
<1>5. CASE \E l \in Lines \cap patch : TimerStop(l, ts) \/ \E ms \in Intervals : MetroSet(l, ts, ms)
  BY <1>1, <1>5, TimerStopKeeps, IntervalKeeps DEF MetroSet
<1> QED  BY <1>2, <1>3, <1>4, <1>5

LEMMA HandlerKeeps ==
  ASSUME Room, IInv, Handler, UNCHANGED <<ramps, patch>>
  PROVE  IInv'
<1>1. CASE \E ts \in Arrivals :
             \/ MetroStep(ts) \/ DelayStep(ts) \/ PipeStep(ts)
             \/ \E l \in Lines \cap patch :
                  TimerStop(l, ts) \/ \E ms \in Intervals : MetroSet(l, ts, ms)
  BY <1>1, ArrivalKeeps
<1>2. CASE FlushNext
  BY <1>2, FlushNextKeeps
<1>3. CASE FlushEnd
  BY <1>3, FlushEndKeeps
<1>4. CASE SendDone \/ ProcessBegin \/ ProcessEnd \/ FlushLost
  BY <1>4, ControlKeeps
<1>5. CASE \E m \in Metros : MetroSend(m)
  BY <1>5, MetroSendKeeps
<1>6. CASE \E d \in DelayObjects : DelaySend(d)
  BY <1>6, DelaySendKeeps
<1>7. CASE \E p \in Pipes : PipeSend(p)
  BY <1>7, PipeSendKeeps
<1>8. CASE \E o \in Loadbangs : LoadbangSend(o)
  BY <1>8, LoadbangSendKeeps
<1> QED  BY <1>1, <1>2, <1>3, <1>4, <1>5, <1>6, <1>7, <1>8 DEF Handler

LEMMA StepKeeps ==
  ASSUME Room, IInv, [Next]_vars
  PROVE  IInv'
<1>1. CASE Handler /\ UNCHANGED ramps /\ UNCHANGED patch
  BY <1>1, HandlerKeeps
<1>2. CASE \E ts \in Arrivals : LineStep(ts) /\ UNCHANGED patch
  <2>1. PICK ts \in Arrivals, l \in Lines, x \in Levels :
          \/ LineJump(l, ts, x) \/ LineSet(l, ts, x) \/ LineFlat(l, ts, x)
          \/ \E duration \in Intervals \ {0} : LineRamp(l, ts, x, duration)
    BY <1>2 DEF LineStep
  <2>2. CASE LineJump(l, ts, x)
    BY <1>2, <2>2, LineJumpKeeps
  <2>3. CASE LineSet(l, ts, x) \/ LineFlat(l, ts, x)
    BY <1>2, <2>3, LineSetKeeps
  <2>4. CASE \E duration \in Intervals \ {0} : LineRamp(l, ts, x, duration)
    BY <1>2, <2>4, LineRampKeeps
  <2> QED  BY <2>1, <2>2, <2>3, <2>4
<1>3. CASE \E ts \in Arrivals : ClockStep(ts) /\ UNCHANGED patch
  BY <1>3, ClockKeeps DEF ClockStep
<1>4. CASE \E l \in Lines : LineSend(l) /\ UNCHANGED patch
  BY <1>4, LineSendKeeps
<1>5. CASE UNCHANGED vars
  BY <1>5, StutterKeeps
<1> QED  BY <1>1, <1>2, <1>3, <1>4, <1>5 DEF Next

LEMMA InvariantHolds == Spec /\ []Room => []IInv
<1>1. Init => IInv
  BY InitIs
<1>2. IInv /\ Room /\ [Next]_vars => IInv'
  BY StepKeeps
<1> QED  BY <1>1, <1>2, PTL DEF Spec

(***************************************************************************)
(* A list as long as the calls are many has room in every state: what the  *)
(* theorems assume is so of each instance with MaxCalls <= MaxListSize.    *)
(***************************************************************************)
LEMMA RoomSuffices ==
  ASSUME RoomForAll
  PROVE  Spec => []Room
<1>1. IInv => Room
  <2> SUFFICES ASSUME IInv, calls < MaxCalls PROVE Len(queue) < MaxListSize
    BY DEF Room
  <2>1. calls \in Nat /\ Sound(queue, calls, MovedIds)
    BY DEF IInv, TypeOK
  <2>2. Len(queue) \in Nat /\ Len(queue) <= calls
    BY <2>1, LenProperties DEF Sound, Numbered
  <2> QED  BY <2>1, <2>2, TimedAssumption DEF RoomForAll
<1>2. Init => IInv
  BY InitIs
<1>3. IInv /\ [Next]_vars => IInv'
  BY <1>1, StepKeeps
<1> QED  BY <1>1, <1>2, <1>3, PTL DEF Spec

-----------------------------------------------------------------------------
(* What the invariant says in the terms of the properties. *)

LEMMA OfIs ==
  ASSUME NEW o
  PROVE  {m.id : m \in Of(o)} = IdsOf(Entries(queue), o)
BY DEF Of, IdsOf

(* An object has as many messages in the queue as they have numbers. *)
LEMMA CountIsOfIds ==
  ASSUME IInv, NEW o
  PROVE  Cardinality(Of(o)) = Cardinality(IdsOf(Entries(queue), o))
<1> DEFINE S == IdsOf(Entries(queue), o)
           T == Of(o)
           f == [x \in S |-> CHOOSE m \in T : m.id = x]
<1>1. calls \in Nat /\ Sound(queue, calls, MovedIds)
  BY DEF IInv, TypeOK
<1>2. IsFiniteSet(S)
  BY <1>1, IdsFinite
<1>3. \A a, b \in T : a.id = b.id => a = b
  BY <1>1, SoundEntries DEF Of
<1>4. \A x \in S : \E m \in T : m.id = x
  BY DEF IdsOf, Of
<1>5. \A m \in T : m.id \in S
  BY DEF IdsOf, Of
<1> HIDE DEF S, T
<1>6. \A x \in S : f[x] \in T /\ f[x].id = x
  BY <1>4
<1>7. f \in [S -> T]
  BY <1>6
<1>8. \A a, b \in S : f[a] = f[b] => a = b
  BY <1>6
<1>9. \A m \in T : \E x \in S : f[x] = m
  BY <1>3, <1>5, <1>6
<1>10. DOMAIN f = S
  OBVIOUS
<1> HIDE DEF f
<1>11. f \in Bijection(S, T)
  BY <1>7, <1>8, <1>9, <1>10 DEF Bijection, Injection, Surjection, IsInjective
<1>12. ExistsBijection(S, T)
  BY <1>11 DEF ExistsBijection
<1>13. Cardinality(T) = Cardinality(S)
  BY <1>2, <1>12, FS_Bijection
<1> QED  BY <1>13 DEF S, T

LEMMA ArmedIsOutstanding ==
  ASSUME IInv
  PROVE  OneOutstanding
BY OfIs DEF IInv, Armed, OneOutstanding

LEMMA CountedIsHeld ==
  ASSUME IInv
  PROVE  HeldAreQueued
<1> SUFFICES ASSUME NEW p \in Pipes
             PROVE  Cardinality(Of(p)) = Len(held[p]) - Flushed(p)
  BY DEF HeldAreQueued
<1> DEFINE queued == Cardinality(IdsOf(Entries(queue), p))
           j == CHOOSE i \in 1..Len(stack) : stack[i].obj = p /\ stack[i].it > 0
<1>1. Cardinality(Of(p)) = queued
  BY CountIsOfIds
<1>2. /\ \A i \in Flushers(p) : queued = Len(held[p]) - (stack[i].it - 1)
      /\ Flushers(p) = {} => queued = Len(held[p])
  BY DEF IInv, Counted
<1>3. Len(held[p]) \in Nat
  <2>1. held[p] \in Seq(Nat)
    BY DEF IInv, TypeOK
  <2> QED  BY <2>1, LenProperties
<1> HIDE DEF queued
<1>4. CASE Flushing(p)
  <2>1. j \in 1..Len(stack) /\ stack[j].obj = p /\ stack[j].it > 0
    BY <1>4 DEF Flushing
  <2>2. Flushed(p) = stack[j].it - 1
    BY <1>4 DEF Flushed
  <2> HIDE DEF j
  <2>3. j \in Flushers(p)
    BY <2>1 DEF Flushers, Flushes
  <2> QED  BY <1>1, <1>2, <2>2, <2>3
<1>5. CASE ~Flushing(p)
  <2>1. Flushers(p) = {}
    BY <1>5 DEF Flushers, Flushing, Flushes
  <2>2. Flushed(p) = 0
    BY <1>5 DEF Flushed
  <2> QED  BY <1>1, <1>2, <1>3, <2>1, <2>2
<1> QED  BY <1>4, <1>5

(***************************************************************************)
(* What the objects keep and what is in the queue are well-formed.         *)
(***************************************************************************)
THEOREM TypeCorrect == Spec /\ []Room => []TypeOK
<1>1. IInv => TypeOK
  BY DEF IInv
<1> QED  BY <1>1, InvariantHolds, PTL

(***************************************************************************)
(* A metro, delay or line has in the queue the message it points to, and   *)
(* no other; a pipe has in the queue what is on its list, less what a      *)
(* flush has sent: MessageMetro.cpp:46-109, MessageDelay.cpp:39-91,        *)
(* MessageLine.cpp:50-155, MessagePipe.cpp:42-101.                         *)
(***************************************************************************)
THEOREM PointersAgree == Spec /\ []Room => []KeptAreQueued
<1>1. IInv => KeptAreQueued
  BY ArmedIsOutstanding, CountedIsHeld DEF KeptAreQueued
<1> QED  BY <1>1, InvariantHolds, PTL

(***************************************************************************)
(* A metro, delay or line has a message to come exactly when it was told   *)
(* so, also when it was told inside its own send.                          *)
(***************************************************************************)
THEOREM StartedMeansOutstanding == Spec /\ []Room => []RunsWhenStarted
<1>1. ASSUME IInv PROVE RunsWhenStarted
  <2> SUFFICES ASSUME NEW o \in Timers PROVE started[o] <=> Of(o) # {}
    BY DEF RunsWhenStarted
  <2>1. started[o] <=> pending[o] # NULL
    BY <1>1 DEF IInv, Told
  <2>2. {m.id : m \in Of(o)} = IF pending[o] = NULL THEN {} ELSE {pending[o]}
    BY <1>1, ArmedIsOutstanding DEF OneOutstanding
  <2> QED  BY <2>1, <2>2
<1> QED  BY <1>1, InvariantHolds, PTL

(***************************************************************************)
(* The queue is in order whenever the next message is looked for, although *)
(* a flush changes the time of messages where they stand.                  *)
(***************************************************************************)
THEOREM RestsInOrder == Spec /\ []Room => []OrderedAtRest
<1>1. ASSUME IInv PROVE OrderedAtRest
  <2> SUFFICES ASSUME stack = << >> PROVE Ordered(queue)
    BY DEF OrderedAtRest
  <2>1. MovedIds = {}
    BY <1>1, NothingMoved DEF IInv
  <2>2. OrderedBut(queue, {}) /\ queue \in Seq(Message)
    BY <1>1, <2>1 DEF IInv, Sound
  <2>3. \A i, k \in 1..Len(queue) : i < k => Before(queue[i], queue[k])
    BY <2>2 DEF OrderedBut
  <2> QED  BY <2>2, <2>3 DEF Ordered
<1> QED  BY <1>1, InvariantHolds, PTL

-----------------------------------------------------------------------------
(* The steps of a line. *)

Goes(l) == ramp'[l].current = ramp[l].current + ramp[l].slope * (last'[l] - last[l])

LEMMA WhereItWas ==
  ASSUME IInv, NEW l \in Lines, ramp'[l] = ramp[l], last'[l] = last[l]
  PROVE  Goes(l)
BY RampOf DEF Goes

(* A line that still is on its way after a send was sent there from r. *)
LEMMA SentOnItsWay ==
  ASSUME IInv, NEW l \in Lines, NEW q, NEW ts \in Nat, NEW r \in RampType,
         LineSends(q, l, ts, r)
  PROVE  /\ started'[l] => OnTheWay(r) /\ ramp'[l] = r /\ last'[l] = ts
         /\ \A k \in Lines : k # l => ramp'[k] = ramp[k] /\ last'[k] = last[k]
<1>1. l \in Timers
  BY DEF Timers
<1>2. /\ started \in [Timers -> BOOLEAN] /\ last \in [Lines \cup Clocks -> Nat]
      /\ ramp \in [Lines -> RampType]
  BY DEF IInv, TypeOK, RampType
<1>3. last' = [last EXCEPT ![l] = ts]
  BY DEF LineSends
<1>4. last'[l] = ts /\ \A k \in Lines : k # l => last'[k] = last[k]
  BY <1>2, <1>3
<1>5. CASE OnTheWay(r) /\ ramp' = [ramp EXCEPT ![l] = r]
  BY <1>2, <1>4, <1>5
<1>6. CASE started' = [started EXCEPT ![l] = FALSE]
           /\ \E s : ramp' = [ramp EXCEPT ![l] = s]
  BY <1>1, <1>2, <1>4, <1>6
<1> QED  BY <1>5, <1>6 DEF LineSends

(* A stop, "set" or a ramp to where it is: it is not on its way. *)
LEMMA StoppedIsOver ==
  ASSUME IInv, NEW l \in Lines, NEW ts, TimerStop(l, ts)
  PROVE  ~started'[l]
BY DEF TimerStop, IInv, TypeOK, Timers

LEMMA LineStepGoes ==
  ASSUME IInv, NEW l \in Lines, NEW ts \in Arrivals, NEW x \in Levels,
         \/ LineJump(l, ts, x) \/ LineSet(l, ts, x) \/ LineFlat(l, ts, x)
         \/ \E duration \in Intervals \ {0} : LineRamp(l, ts, x, duration),
         NEW k \in Lines, started[k], started'[k]
  PROVE  Goes(k)
<1>0. x \in Int /\ ts \in Nat /\ ramp[l] \in RampType
  BY ArrivalTimes, RampOf, TimedAssumption
<1>1. CASE LineJump(l, ts, x)
  <2> DEFINE r == Ramp(x, x, ramp[l].slope)
  <2>1. r \in RampType /\ ~OnTheWay(r)
    BY <1>0, RampOf DEF Ramp, RampType, OnTheWay
  <2> HIDE DEF r
  <2>2. LineSends(Disarmed(l), l, ts, r)
    BY <1>1 DEF LineJump, r
  <2>3. k # l
    BY <1>0, <2>1, <2>2, SentOnItsWay
  <2>4. ramp'[k] = ramp[k] /\ last'[k] = last[k]
    BY <1>0, <2>1, <2>2, <2>3, SentOnItsWay
  <2> QED  BY <2>4, WhereItWas
<1>2. CASE LineSet(l, ts, x) \/ LineFlat(l, ts, x)
  <2>1. /\ TimerStop(l, ts) /\ last' = last
        /\ \E s : ramp' = [ramp EXCEPT ![l] = s]
    BY <1>2 DEF LineSet, LineFlat
  <2>2. k # l
    BY <2>1, StoppedIsOver
  <2>3. ramp'[k] = ramp[k] /\ last'[k] = last[k]
    BY <2>1, <2>2 DEF IInv, TypeOK
  <2> QED  BY <2>3, WhereItWas
<1>3. ASSUME NEW duration \in Intervals \ {0}, LineRamp(l, ts, x, duration)
      PROVE  Goes(k)
  <2> DEFINE v == ValueAt(l, ts)
             way == x - v
             r == Ramp(v, x, way \div duration)
  <2>1. v \in Int /\ duration \in Nat \ {0}
    BY <1>0, ValueAtType, TimedAssumption
  <2>2. LineSends(Disarmed(l), l, ts, r)
    BY <1>3 DEF LineRamp
  <2> HIDE DEF v
  <2>3. way \div duration \in Int
    BY <1>0, <2>1
  <2>4. r \in RampType /\ r.current = v
    BY <1>0, <2>1, <2>3 DEF Ramp, RampType
  <2> HIDE DEF r
  <2>5. CASE k # l
    <3>1. ramp'[k] = ramp[k] /\ last'[k] = last[k]
      BY <1>0, <2>2, <2>4, <2>5, SentOnItsWay
    <3> QED  BY <3>1, WhereItWas
  <2>6. CASE k = l
    <3>1. ramp'[l].current = v /\ last'[l] = ts
      BY <1>0, <2>2, <2>4, <2>6, SentOnItsWay
    <3>2. pending[l] # NULL
      BY <2>6 DEF IInv, Told, Timers
    <3>3. v = ramp[l].current + (ts - last[l]) * ramp[l].slope
      BY <3>2 DEF ValueAt, v
    <3>4. \A a, b \in Int : a * b = b * a
      OBVIOUS
    <3>5. ts - last[l] \in Int /\ ramp[l].slope \in Int
      BY <1>0, RampOf
    <3>6. (ts - last[l]) * ramp[l].slope = ramp[l].slope * (ts - last[l])
      BY <3>4, <3>5
    <3> QED  BY <2>6, <3>1, <3>3, <3>6 DEF Goes
  <2> QED  BY <2>5, <2>6
<1> QED  BY <1>1, <1>2, <1>3

(* The line's own message, when it is not late: it is sent at its time. *)
LEMMA LineSendGoes ==
  ASSUME IInv, NEW l \in Lines, LineSend(l),
         NEW k \in Lines, started[k], started'[k], InTime(k)
  PROVE  Goes(k)
<1> DEFINE r == [ramp[l] EXCEPT !.current = First(queue).atoms[1]]
<1>1. l \in Timed /\ Sends(l) /\ LineSends(Popped(queue), l, SendTime, r)
  BY DEF LineSend, Timed, Timers
<1>2. r \in RampType /\ r.current = First(queue).atoms[1]
  BY <1>1, LineMessageIs, RampOf DEF RampType
<1> HIDE DEF r
<1>3. SendTime \in Nat /\ First(queue) \in Entries(queue) /\ First(queue).obj = l
      /\ First(queue).ts \in Nat
  BY <1>1, SendsIs
<1>4. CASE k # l
  <2>1. ramp'[k] = ramp[k] /\ last'[k] = last[k]
    BY <1>1, <1>2, <1>3, <1>4, SentOnItsWay
  <2> QED  BY <2>1, WhereItWas
<1>5. CASE k = l
  <2>1. ramp'[l] = r /\ last'[l] = SendTime
    BY <1>1, <1>2, <1>3, <1>5, SentOnItsWay
  <2>2. First(queue) \in Of(l)
    BY <1>3 DEF Of
  <2>3. First(queue).ts >= now /\ now \in Nat
    BY <1>5, <2>2 DEF InTime, IInv, TypeOK
  <2>4. SendTime = First(queue).ts
    BY <1>3, <2>3 DEF SendTime
  <2>5. First(queue).atoms[1] = ramp[l].current + ramp[l].slope * (First(queue).ts - last[l])
    BY <1>1, LineMessageIs
  <2> QED  BY <1>2, <1>5, <2>1, <2>4, <2>5 DEF Goes
<1> QED  BY <1>4, <1>5

(***************************************************************************)
(* From one value that a line sends to the next it goes by its slope and   *)
(* by the time between them (MessageLine.cpp:50-155), whatever stopped,    *)
(* set or slowed it down before: for every line, slope and interval.       *)
(***************************************************************************)
THEOREM NeverJumps == Spec /\ []Room => RampsWithoutJumps
<1> DEFINE Smooth ==
      \A l \in Lines :
        started[l] /\ started'[l] /\ InTime(l) =>
          ramp'[l].current = ramp[l].current + ramp[l].slope * (last'[l] - last[l])
<1>1. ASSUME IInv, [Next]_vars PROVE Smooth
  <2> SUFFICES ASSUME NEW k \in Lines, started[k], started'[k], InTime(k)
               PROVE  Goes(k)
    BY DEF Goes
  <2>1. CASE UNCHANGED ramps
    <3>1. ramp'[k] = ramp[k] /\ last'[k] = last[k]
      BY <2>1 DEF ramps
    <3> QED  BY <1>1, <3>1, WhereItWas
  <2>2. CASE \E ts \in Arrivals : LineStep(ts)
    BY <1>1, <2>2, LineStepGoes DEF LineStep
  <2>3. CASE \E ts \in Arrivals : ClockStep(ts)
    <3>1. PICK o \in Clocks : ramp' = ramp /\ (\/ last' = last
                                              \/ \E ts : last' = [last EXCEPT ![o] = ts])
      BY <2>3 DEF ClockStep, ClockStart, ClockRead, ramps
    <3>2. k # o
      BY TimedAssumption DEF Timers
    <3>3. ramp'[k] = ramp[k] /\ last'[k] = last[k]
      BY <1>1, <3>1, <3>2 DEF IInv, TypeOK
    <3> QED  BY <1>1, <3>3, WhereItWas
  <2>4. CASE \E l \in Lines : LineSend(l)
    BY <1>1, <2>4, LineSendGoes
  <2>5. CASE UNCHANGED vars
    BY <2>1, <2>5 DEF vars, ramps
  <2> QED  BY <1>1, <2>1, <2>2, <2>3, <2>4, <2>5 DEF Next
<1> HIDE DEF Smooth
<1>2. Spec /\ []Room => [][Smooth]_vars
  BY <1>1, InvariantHolds, PTL DEF Spec
<1> QED  BY <1>2 DEF RampsWithoutJumps, Smooth

-----------------------------------------------------------------------------
(* The alarms: what the queue holds for a timer, seen from outside. *)

(* An object without messages has no alarm; one with a single message, its time. *)
LEMMA AlarmIs ==
  ASSUME NEW q, NEW o
  PROVE  /\ (\A e \in Entries(q) : e.obj # o) => Alarm(q, o) = -1
         /\ \A m \in Entries(q) :
              m.obj = o /\ (\A e \in Entries(q) : e.obj = o => e = m) /\ Len(q) \in Nat
              => Alarm(q, o) = m.ts
<1>1. ASSUME \A e \in Entries(q) : e.obj # o PROVE Alarm(q, o) = -1
  <2>1. ~\E j \in 1..Len(q) : q[j].obj = o
    BY <1>1 DEF Entries
  <2> QED  BY <2>1 DEF Alarm
<1>2. ASSUME NEW m \in Entries(q), m.obj = o, \A e \in Entries(q) : e.obj = o => e = m,
             Len(q) \in Nat
      PROVE  Alarm(q, o) = m.ts
  <2>1. \E j \in 1..Len(q) : q[j].obj = o
    BY <1>2 DEF Entries
  <2>2. \E j \in 1..Len(q) : q[j].obj = o /\ \A k \in 1..j - 1 : q[k].obj # o
    <3> DEFINE S == {j \in Nat : j \in 1..Len(q) /\ q[j].obj = o}
    <3>1. S # {} /\ S \in SUBSET Nat
      BY <1>2, <2>1
    <3>2. \E j \in S : \A k \in S : j <= k
      <4> HIDE DEF S
      <4> QED  BY <3>1, LeastNatural
    <3> QED  BY <1>2, <3>2
  <2>3. PICK j \in 1..Len(q) : q[j].obj = o /\ Alarm(q, o) = q[j].ts
    BY <2>1, <2>2 DEF Alarm
  <2>4. q[j] \in Entries(q)
    BY DEF Entries
  <2> QED  BY <1>2, <2>3, <2>4
<1> QED  BY <1>1, <1>2

(* Of a timer there is at most one message to see. *)
LEMMA AlarmOf ==
  ASSUME IInv, NEW q \in Seq(Message), NEW o \in Timers,
         {e \in Entries(q) : e.obj = o} = {e \in Entries(queue) : e.obj = o}
  PROVE  /\ Alarm(q, o) = Alarm(queue, o)
         /\ Alarm(q, o) # -1 => \E m \in Entries(queue) : m.obj = o /\ Alarm(q, o) = m.ts
         /\ \A m \in Entries(queue) : m.obj = o => Alarm(q, o) = m.ts
<1>1. Len(q) \in Nat /\ Len(queue) \in Nat
  BY LenProperties DEF IInv, TypeOK
<1>2. \A e : e \in Entries(q) /\ e.obj = o <=> e \in Entries(queue) /\ e.obj = o
  OBVIOUS
<1>3. CASE \A e \in Entries(queue) : e.obj # o
  <2>1. \A e \in Entries(q) : e.obj # o
    BY <1>2, <1>3
  <2> QED  BY <1>3, <2>1, AlarmIs
<1>4. CASE \E m \in Entries(queue) : m.obj = o
  <2>1. PICK m \in Entries(queue) : m.obj = o
    BY <1>4
  <2>2. \A e \in Entries(queue) : e.obj = o => e = m
    BY <2>1, OnlyPending
  <2>3. m \in Entries(q) /\ \A e \in Entries(q) : e.obj = o => e = m
    BY <1>2, <2>1, <2>2
  <2>4. Alarm(q, o) = m.ts /\ Alarm(queue, o) = m.ts
    BY <1>1, <2>1, <2>2, <2>3, AlarmIs
  <2> QED  BY <2>1, <2>2, <2>4
<1> QED  BY <1>3, <1>4

(* The alarm of a timer is a time, or there is none. *)
LEMMA AlarmType ==
  ASSUME IInv, NEW o \in Timers
  PROVE  /\ alarms[o] \in Nat \cup {-1}
         /\ alarms[o] # -1 => \E m \in Entries(queue) : m.obj = o /\ alarms[o] = m.ts
         /\ \A m \in Entries(queue) : m.obj = o => alarms[o] = m.ts
<1>1. queue \in Seq(Message)
  BY DEF IInv, TypeOK
<1>2. /\ alarms[o] = Alarm(queue, o)
      /\ alarms[o] # -1 => \E m \in Entries(queue) : m.obj = o /\ alarms[o] = m.ts
      /\ \A m \in Entries(queue) : m.obj = o => alarms[o] = m.ts
  BY <1>1, AlarmOf DEF alarms
<1>3. \A m \in Entries(queue) : m.ts \in Nat
  BY SoundEntries, MessageFields DEF IInv
<1> QED  BY <1>2, <1>3

(* What a step does to the alarms: to none, or to the one of its timer. *)
TimersAlone ==
  \A u \in Timers : {e \in Entries(queue') : e.obj = u} = {e \in Entries(queue) : e.obj = u}

LEMMA AlarmsStay ==
  ASSUME IInv, queue' \in Seq(Message), TimersAlone
  PROVE  alarms' = alarms
<1>1. \A u \in Timers : Alarm(queue', u) = Alarm(queue, u)
  BY AlarmOf DEF TimersAlone
<1> QED  BY <1>1 DEF alarms

LEMMA AlarmIsSet ==
  ASSUME IInv, queue' \in Seq(Message), NEW o \in Timers, NEW m, m.obj = o,
         Entries(queue') = OthersOf(o) \cup {m}
  PROVE  alarms' = [alarms EXCEPT ![o] = m.ts]
<1>1. ASSUME NEW u \in Timers, u # o PROVE Alarm(queue', u) = Alarm(queue, u)
  <2>1. {e \in Entries(queue') : e.obj = u} = {e \in Entries(queue) : e.obj = u}
    BY <1>1 DEF OthersOf
  <2> QED  BY <2>1, AlarmOf
<1>2. Alarm(queue', o) = m.ts
  <2>1. Len(queue') \in Nat
    BY LenProperties
  <2>2. m \in Entries(queue') /\ \A e \in Entries(queue') : e.obj = o => e = m
    BY DEF OthersOf
  <2> QED  BY <2>1, <2>2, AlarmIs
<1> QED  BY <1>1, <1>2 DEF alarms

LEMMA AlarmIsUnset ==
  ASSUME IInv, queue' \in Seq(Message), NEW o \in Timers, Entries(queue') = OthersOf(o)
  PROVE  alarms' = [alarms EXCEPT ![o] = -1]
<1>1. ASSUME NEW u \in Timers, u # o PROVE Alarm(queue', u) = Alarm(queue, u)
  <2>1. {e \in Entries(queue') : e.obj = u} = {e \in Entries(queue) : e.obj = u}
    BY <1>1 DEF OthersOf
  <2> QED  BY <2>1, AlarmOf
<1>2. Alarm(queue', o) = -1
  <2>1. \A e \in Entries(queue') : e.obj # o
    BY DEF OthersOf
  <2> QED  BY <2>1, AlarmIs
<1> QED  BY <1>1, <1>2 DEF alarms

(* A timer that arms itself at ts rings one interval later. *)
LEMMA RearmSets ==
  ASSUME Room, IInv, NEW o \in Timers, NEW q, Sound(q, calls, MovedIds),
         Entries(q) = OthersOf(o), NEW ts \in Nat, stack # << >> => Top.at <= ts,
         NEW atoms \in AtomLists, Rearm(q, o, ts, atoms)
  PROVE  alarms' = [alarms EXCEPT ![o] = ts + periods[o]]
<1> DEFINE t == ts + interval[o]
           e == [obj |-> o, outlet |-> 0, ts |-> t, atoms |-> atoms, id |-> calls + 1]
<1>1. o \in Timed /\ Entries(q) \subseteq Entries(queue) /\ calls < MaxCalls
  BY DEF Timed, OthersOf, Rearm
<1>2. t \in Nat /\ (stack # << >> => Top.at <= t)
  <2>1. interval[o] \in Nat
    BY <1>1, TimedAssumption DEF IInv, TypeOK
  <2>2. stack # << >> => Top.at \in Nat
    BY TopIs DEF IInv
  <2>3. \A a \in Nat : a <= ts => a <= t
    BY <2>1
  <2> QED  BY <2>1, <2>2, <2>3
<1>3. queue' = Schedule(q, o, t, atoms) /\ t = ts + periods[o]
  BY DEF Rearm, periods
<1> HIDE DEF t
<1>4. /\ e \in Message
      /\ Sound(Schedule(q, o, t, atoms), calls + 1, MovedIds)
      /\ Entries(Schedule(q, o, t, atoms)) = Entries(q) \cup {e}
  BY <1>1, <1>2, ScheduleIs
<1>5. e.obj = o /\ e.ts = t
  OBVIOUS
<1> HIDE DEF e
<1>6. queue' \in Seq(Message) /\ Entries(queue') = OthersOf(o) \cup {e}
  BY <1>3, <1>4 DEF Sound
<1> QED  BY <1>3, <1>5, <1>6, AlarmIsSet

(* The sends under way, seen as the time of what is being sent. *)
LEMMA SentAtIs ==
  ASSUME TypeOK
  PROVE  /\ stack = << >> => sentAt = -1
         /\ stack # << >> => sentAt = Top.at /\ sentAt \in Nat
BY TopIs DEF sentAt

LEMMA PushSends ==
  ASSUME TypeOK, NEW o \in Timed, NEW ts \in Nat, NEW it \in Nat, Push(o, ts, it)
  PROVE  sentAt' = ts
<1> DEFINE f == [obj |-> o, at |-> ts, it |-> it]
<1>1. stack \in Seq(Frame) /\ f \in Frame /\ f.at = ts /\ stack' = Append(stack, f)
  BY DEF TypeOK, Push, Frame
<1> HIDE DEF f
<1>2. Len(stack) \in Nat /\ Len(stack') = Len(stack) + 1 /\ stack'[Len(stack) + 1] = f
  BY <1>1, AppendProperties, LenProperties
<1>3. stack' # << >>
  BY <1>2, EmptySeq
<1> QED  BY <1>1, <1>2, <1>3 DEF sentAt, Top

\* after a return the sends that are left are of the same time
LEMMA ReturnedSends ==
  ASSUME TypeOK, Frames, stack # << >>, stack' = Returned
  PROVE  sentAt' \in {-1, sentAt}
<1>1. /\ stack' \in Seq(Frame) /\ Len(stack') = Len(stack) - 1 /\ Len(stack) \in Nat
      /\ \A j \in 1..Len(stack) - 1 : stack'[j] = stack[j]
      /\ Len(stack) \in 1..Len(stack) /\ Top = stack[Len(stack)] /\ sentAt = Top.at
  BY ReturnedIs, TopIs, SentAtIs
<1>2. CASE stack' = << >>
  BY <1>2 DEF sentAt
<1>3. CASE stack' # << >>
  <2>1. Len(stack') \in 1..Len(stack')
    BY <1>1, <1>3, EmptySeq, LenProperties
  <2>2. Len(stack') \in 1..Len(stack) - 1 /\ Len(stack') \in 1..Len(stack)
    BY <1>1, <2>1
  <2>3. stack'[Len(stack')].at = stack[Len(stack)].at
    BY <1>1, <2>2 DEF Frames
  <2> QED  BY <1>1, <1>3, <2>3 DEF sentAt, Top
<1> QED  BY <1>2, <1>3

(* Everything that is sent in a block is of a time before its end. *)
OnTime == sentAt < now + Tick

LEMMA TimesOfCommands ==
  ASSUME IInv, OnTime, NEW ts \in Arrivals
  PROVE  ts \in Alarms!Times /\ ts \in Nat /\ sentAt \in {-1, ts}
<1>1. now \in Nat /\ Tick \in Nat /\ TypeOK
  BY TimedAssumption DEF IInv, TypeOK
<1>2. CASE stack # << >>
  <2>1. ts \in Nat /\ ts = sentAt
    BY <1>1, <1>2, ArrivalTimes, SentAtIs
  <2>2. ts \in 0..now + Tick - 1
    BY <1>1, <2>1 DEF OnTime
  <2> QED  BY <2>1, <2>2 DEF Alarms!Times
<1>3. CASE stack = << >>
  <2>1. ts \in 0..now + Tick - 1
    BY <1>3 DEF Arrivals
  <2>2. sentAt = -1
    BY <1>1, <1>3, SentAtIs
  <2> QED  BY <1>1, <2>1, <2>2 DEF Alarms!Times
<1> QED  BY <1>2, <1>3

-----------------------------------------------------------------------------
(* The steps of an alarm clock that the steps of the objects are. *)

Mapped == [Alarms!Next]_(Alarms!vars)

LEMMA TimersOfClocks == Alarms!Timers = Timers
BY DEF Alarms!Timers, Timers

LEMMA StartMaps ==
  ASSUME IInv, OnTime, NEW o \in Timers, NEW ts \in Arrivals,
         alarms' = [alarms EXCEPT ![o] = ts + periods[o]], sentAt' \in {sentAt, ts},
         interval' = interval, now' = now
  PROVE  Mapped
<1>1. ts \in Alarms!Times
  BY TimesOfCommands
<1>2. periods' = periods
  BY DEF periods
<1>3. Alarms!Start(o)
  BY <1>1, <1>2 DEF Alarms!Start
<1> QED  BY <1>3, TimersOfClocks DEF Mapped, Alarms!Next

LEMMA StopMaps ==
  ASSUME IInv, OnTime, NEW o \in Timers, NEW ts \in Arrivals,
         alarms' = [alarms EXCEPT ![o] = -1], sentAt' \in {sentAt, ts},
         interval' = interval, now' = now
  PROVE  Mapped
<1>1. ts \in Alarms!Times
  BY TimesOfCommands
<1>2. periods' = periods
  BY DEF periods
<1>3. Alarms!Stop(o)
  BY <1>1, <1>2 DEF Alarms!Stop
<1> QED  BY <1>3, TimersOfClocks DEF Mapped, Alarms!Next

LEMMA PeriodsAre ==
  ASSUME IInv, NEW o \in Timed, NEW ms, interval' = [interval EXCEPT ![o] = ms]
  PROVE  /\ o \in Timers => periods' = [periods EXCEPT ![o] = ms]
         /\ o \notin Timers => periods' = periods
<1>1. interval \in [Timed -> Intervals] /\ \A u \in Timers : u \in Timed
  BY DEF IInv, TypeOK, Timed
<1>2. \A u \in Timers : interval'[u] = IF u = o THEN ms ELSE interval[u]
  BY <1>1
<1> QED  BY <1>2 DEF periods

LEMMA SetMaps ==
  ASSUME IInv, NEW o \in Timers, NEW ms \in Intervals, SetInterval(o, ms),
         alarms' = IF o \in DelayObjects THEN [alarms EXCEPT ![o] = -1] ELSE alarms
  PROVE  Mapped
<1>1. periods' = [periods EXCEPT ![o] = ms]
  BY PeriodsAre DEF SetInterval, Timed
<1>2. now' = now /\ sentAt' = sentAt
  BY DEF SetInterval, sentAt, Top
<1>3. Alarms!SetPeriod(o)
  BY <1>1, <1>2 DEF Alarms!SetPeriod
<1> QED  BY <1>3, TimersOfClocks DEF Mapped, Alarms!Next

(* Commands to other objects, and returns. *)
LEMMA OthersMap ==
  ASSUME IInv, OnTime, alarms' = alarms, periods' = periods, now' = now,
         \/ sentAt' \in {-1, sentAt}
         \/ sentAt' \in Arrivals
         \/ sentAt = -1 /\ sentAt' \in 0..now + Tick - 1
  PROVE  Mapped
<1>1. sentAt' = sentAt => Mapped
  BY DEF Mapped, Alarms!vars
<1>2. sentAt' = -1 /\ sentAt # -1 => Mapped
  BY DEF Mapped, Alarms!Next, Alarms!Sent
<1>3. sentAt = -1 /\ sentAt' \in 0..now + Tick - 1 => Mapped
  BY DEF Mapped, Alarms!Next, Alarms!Send
<1>4. sentAt' \in Arrivals => sentAt' = sentAt \/ (sentAt = -1 /\ sentAt' \in 0..now + Tick - 1)
  BY TimesOfCommands DEF Alarms!Times
<1> QED  BY <1>1, <1>2, <1>3, <1>4

(* A timer that is stopped has no alarm. *)
LEMMA StopUnsets ==
  ASSUME IInv, NEW o \in Timers, queue' = Disarmed(o)
  PROVE  alarms' = [alarms EXCEPT ![o] = -1]
BY DisarmedIs, AlarmIsUnset DEF Sound

(* Commands to a timer, step by step. *)
LEMMA MetroStartMaps ==
  ASSUME Room, IInv, OnTime, NEW m \in Metros, NEW ts \in Arrivals, MetroStart(m, ts)
  PROVE  Mapped
<1>1. m \in Timers /\ m \in Timed
  BY DEF Timers, Timed
<1>2. alarms' = [alarms EXCEPT ![m] = ts + periods[m]]
  BY <1>1, DisarmedIs, ArrivalTimes, BangIsAtoms, RearmSets DEF MetroStart
<1>3. sentAt' = ts
  BY <1>1, ArrivalTimes, PushSends DEF MetroStart, IInv
<1> QED  BY <1>1, <1>2, <1>3, StartMaps DEF MetroStart

LEMMA DelayStartMaps ==
  ASSUME Room, IInv, OnTime, NEW d \in DelayObjects, NEW ts \in Arrivals, DelayStart(d, ts)
  PROVE  Mapped
<1>1. d \in Timers
  BY DEF Timers
<1>2. alarms' = [alarms EXCEPT ![d] = ts + periods[d]]
  BY <1>1, DisarmedIs, ArrivalTimes, BangIsAtoms, RearmSets DEF DelayStart
<1>3. sentAt' = sentAt
  BY DEF DelayStart, sentAt, Top
<1> QED  BY <1>1, <1>2, <1>3, StartMaps DEF DelayStart

LEMMA TimerStopMaps ==
  ASSUME IInv, OnTime, NEW o \in Timers, NEW ts \in Arrivals, TimerStop(o, ts)
  PROVE  Mapped
<1>1. alarms' = [alarms EXCEPT ![o] = -1]
  BY StopUnsets DEF TimerStop
<1>2. sentAt' = sentAt
  BY DEF TimerStop, sentAt, Top
<1> QED  BY <1>1, <1>2, StopMaps DEF TimerStop

\* a new interval: of a delay that stops by it, of a metro or line that does not
LEMMA DelaySetMaps ==
  ASSUME IInv, NEW d \in DelayObjects, NEW ts, NEW ms \in Intervals, DelaySet(d, ts, ms)
  PROVE  Mapped
<1>1. d \in Timers
  BY DEF Timers
<1>2. alarms' = [alarms EXCEPT ![d] = -1]
  BY <1>1, StopUnsets DEF DelaySet
<1> QED  BY <1>1, <1>2, SetMaps DEF DelaySet

LEMMA MetroSetMaps ==
  ASSUME IInv, NEW o \in Metros \cup Lines, NEW ts, NEW ms \in Intervals, MetroSet(o, ts, ms)
  PROVE  Mapped
<1>1. o \in Timers /\ o \notin DelayObjects
  BY TimedAssumption DEF Timers
<1>2. alarms' = alarms
  BY DEF MetroSet, alarms
<1> QED  BY <1>1, <1>2, SetMaps DEF MetroSet

(* send_message of a line: it is set again, or it has arrived and is not. *)
LEMMA LineSendsAlarm ==
  ASSUME Room, IInv, NEW l \in Lines, NEW q, Sound(q, calls, MovedIds),
         Entries(q) = OthersOf(l), NEW ts \in Nat, stack # << >> => Top.at <= ts,
         NEW r \in RampType, LineSends(q, l, ts, r)
  PROVE  alarms' \in {[alarms EXCEPT ![l] = ts + periods[l]], [alarms EXCEPT ![l] = -1]}
<1>1. l \in Timers /\ l \in Timed
  BY DEF Timers, Timed
<1>2. CASE queue' = q
  BY <1>1, <1>2, AlarmIsUnset DEF Sound
<1>3. CASE Rearm(q, l, ts, <<r.current + r.slope * interval[l]>>)
  <2> DEFINE atoms == <<r.current + r.slope * interval[l]>>
  <2>1. interval[l] \in Nat
    BY <1>1, TimedAssumption DEF IInv, TypeOK
  <2>2. r.current \in Int /\ r.slope \in Int /\ interval[l] \in Int
    BY <2>1 DEF RampType
  <2>3. r.current + r.slope * interval[l] \in Int
    BY <2>2
  <2>4. atoms \in AtomLists
    BY <2>3 DEF AtomLists
  <2> HIDE DEF atoms
  <2>5. Rearm(q, l, ts, atoms)
    BY <1>3 DEF atoms
  <2> QED  BY <1>1, <2>4, <2>5, RearmSets
<1> QED  BY <1>2, <1>3 DEF LineSends

LEMMA LineStartMaps ==
  ASSUME Room, IInv, OnTime, NEW l \in Lines, NEW ts \in Arrivals, NEW r \in RampType,
         LineSends(Disarmed(l), l, ts, r), Push(l, ts, 0), UNCHANGED <<now, interval>>
  PROVE  Mapped
<1>1. l \in Timers /\ l \in Timed
  BY DEF Timers, Timed
<1>2. sentAt' = ts
  BY <1>1, ArrivalTimes, PushSends DEF IInv
<1>3. alarms' \in {[alarms EXCEPT ![l] = ts + periods[l]], [alarms EXCEPT ![l] = -1]}
  BY <1>1, DisarmedIs, ArrivalTimes, LineSendsAlarm
<1> QED  BY <1>1, <1>2, <1>3, StartMaps, StopMaps

LEMMA LineStepMaps ==
  ASSUME Room, IInv, OnTime, NEW ts \in Arrivals, LineStep(ts)
  PROVE  Mapped
<1>1. PICK l \in Lines, x \in Levels :
        \/ LineJump(l, ts, x) \/ LineSet(l, ts, x) \/ LineFlat(l, ts, x)
        \/ \E duration \in Intervals \ {0} : LineRamp(l, ts, x, duration)
  BY DEF LineStep
<1>2. ts \in Nat /\ x \in Int /\ ramp[l].slope \in Int /\ l \in Timers
  BY ArrivalTimes, RampOf, TimedAssumption DEF Timers
<1>3. CASE LineSet(l, ts, x) \/ LineFlat(l, ts, x)
  BY <1>2, <1>3, TimerStopMaps DEF LineSet, LineFlat
<1>4. CASE LineJump(l, ts, x)
  <2>1. Ramp(x, x, ramp[l].slope) \in RampType
    BY <1>2 DEF Ramp, RampType
  <2> QED  BY <1>4, <2>1, LineStartMaps DEF LineJump
<1>5. CASE \E duration \in Intervals \ {0} : LineRamp(l, ts, x, duration)
  <2>1. PICK duration \in Intervals \ {0} : LineRamp(l, ts, x, duration)
    BY <1>5
  <2> DEFINE v == ValueAt(l, ts)
             r == Ramp(v, x, (x - v) \div duration)
  <2>2. LineSends(Disarmed(l), l, ts, r) /\ Push(l, ts, 0) /\ UNCHANGED <<now, interval>>
    BY <2>1 DEF LineRamp
  <2>3. v \in Int /\ duration \in Int /\ duration > 0
    BY <1>2, ValueAtType, TimedAssumption
  <2> HIDE DEF v
  <2>4. (x - v) \div duration \in Int
    BY <1>2, <2>3
  <2>5. r \in RampType
    BY <1>2, <2>3, <2>4 DEF Ramp, RampType
  <2> QED  BY <2>2, <2>5, LineStartMaps
<1> QED  BY <1>1, <1>3, <1>4, <1>5

(* The message at the front of the queue is due before every alarm. *)
LEMMA FirstIsLeast ==
  ASSUME IInv, stack = << >>, NEW o \in Timers, alarms[o] # -1
  PROVE  queue # << >> /\ First(queue).ts <= alarms[o]
<1>1. PICK m \in Entries(queue) : m.obj = o /\ alarms[o] = m.ts
  BY AlarmType
<1>2. PICK j \in 1..Len(queue) : m = queue[j]
  BY <1>1 DEF Entries
<1>3. queue \in Seq(Message) /\ OrderedBut(queue, {}) /\ Len(queue) \in Nat
  BY NothingMoved, LenProperties DEF IInv, TypeOK, Sound
<1>4. queue # << >> /\ 1 \in 1..Len(queue)
  BY <1>2, <1>3, EmptySeq
<1>5. queue[1].ts \in Nat /\ queue[j].ts \in Nat
  BY <1>4, SoundEntries, MessageFields DEF IInv
<1>6. CASE j = 1
  BY <1>1, <1>2, <1>4, <1>5, <1>6 DEF First
<1>7. CASE j # 1
  <2>1. 1 < j
    BY <1>2, <1>3, <1>7
  <2>2. Before(queue[1], queue[j])
    BY <1>2, <1>3, <1>4, <2>1 DEF OrderedBut
  <2> QED  BY <1>1, <1>2, <1>4, <1>5, <2>2 DEF Before, First
<1> QED  BY <1>6, <1>7

LEMMA RingMaps ==
  ASSUME IInv, OnTime, NEW o \in Timers, Sends(o),
         \/ o \notin DelayObjects /\ alarms' = [alarms EXCEPT ![o] = SendTime + periods[o]]
         \/ o \notin Metros /\ alarms' = [alarms EXCEPT ![o] = -1]
  PROVE  Mapped
<1>1. o \in Timed
  BY DEF Timed
<1>2. /\ stack = << >> /\ SendTime \in Nat /\ First(queue) \in Entries(queue)
      /\ First(queue).obj = o /\ First(queue).ts \in Nat
  BY <1>1, SendsIs
<1>3. sentAt = -1 /\ sentAt' = SendTime /\ now' = now /\ periods' = periods
  BY <1>1, <1>2, SentAtIs, PushSends DEF Sends, IInv, periods
<1>4. alarms[o] = First(queue).ts /\ alarms[o] < now + Tick
  BY <1>2, AlarmType DEF Sends, Due
<1>5. \A u \in Timers : alarms[u] # -1 => alarms[o] <= alarms[u]
  BY <1>2, <1>4, FirstIsLeast
<1>6. Alarms!Ring(o)
  BY <1>2, <1>3, <1>4, <1>5, TimersOfClocks DEF Alarms!Ring, Alarms!Running, Alarms!Again, SendTime
<1> QED  BY <1>6, TimersOfClocks DEF Mapped, Alarms!Next

LEMMA MetroSendMaps ==
  ASSUME Room, IInv, OnTime, NEW m \in Metros, MetroSend(m)
  PROVE  Mapped
<1>1. m \in Timers /\ m \in Timed /\ m \notin DelayObjects /\ Sends(m)
  BY TimedAssumption DEF Timers, Timed, MetroSend
<1>2. stack = << >> /\ SendTime \in Nat /\ Sound(Popped(queue), calls, MovedIds)
  BY <1>1, SendsIs
<1>3. alarms' = [alarms EXCEPT ![m] = SendTime + periods[m]]
  BY <1>1, <1>2, TimerSends, BangIsAtoms, RearmSets DEF MetroSend
<1> QED  BY <1>1, <1>3, RingMaps

LEMMA DelaySendMaps ==
  ASSUME IInv, OnTime, NEW d \in DelayObjects, DelaySend(d)
  PROVE  Mapped
<1>1. d \in Timers /\ d \in Timed /\ d \notin Metros /\ Sends(d) /\ queue' = Popped(queue)
  BY TimedAssumption DEF Timers, Timed, DelaySend
<1>2. alarms' = [alarms EXCEPT ![d] = -1]
  BY <1>1, SendsIs, TimerSends, AlarmIsUnset DEF Sound
<1> QED  BY <1>1, <1>2, RingMaps

LEMMA LineSendMaps ==
  ASSUME Room, IInv, OnTime, NEW l \in Lines, LineSend(l)
  PROVE  Mapped
<1> DEFINE r == [ramp[l] EXCEPT !.current = First(queue).atoms[1]]
<1>1. l \in Timers /\ l \in Timed /\ l \notin DelayObjects /\ l \notin Metros /\ Sends(l)
      /\ LineSends(Popped(queue), l, SendTime, r)
  BY TimedAssumption DEF Timers, Timed, LineSend
<1>2. stack = << >> /\ SendTime \in Nat /\ Sound(Popped(queue), calls, MovedIds)
  BY <1>1, SendsIs
<1>3. r \in RampType
  BY <1>1, LineMessageIs, RampOf DEF RampType
<1> HIDE DEF r
<1>4. alarms' \in {[alarms EXCEPT ![l] = SendTime + periods[l]], [alarms EXCEPT ![l] = -1]}
  BY <1>1, <1>2, <1>3, TimerSends, LineSendsAlarm
<1> QED  BY <1>1, <1>4, RingMaps

-----------------------------------------------------------------------------
(* The steps of the other objects leave the alarms alone. *)

\* messages that are not of timers
LEMMA OthersAlone ==
  ASSUME NEW x, x.obj \notin Timers, NEW D
  PROVE  /\ Entries(queue') = Entries(queue) \cup {x} => TimersAlone
         /\ Entries(queue') = Entries(queue) \ {x} => TimersAlone
BY DEF TimersAlone

LEMMA NotTimers ==
  /\ \A p \in Pipes : p \notin Timers /\ p \in Timed
  /\ \A o \in Loadbangs \cup Clocks : o \notin Timers /\ o \in Timed
BY TimedAssumption DEF Timed

LEMMA SameSentAt ==
  ASSUME stack' = stack
  PROVE  sentAt' = sentAt
BY DEF sentAt, Top

LEMMA PipePutMaps ==
  ASSUME Room, IInv, OnTime, NEW p \in Pipes, NEW ts \in Arrivals, NEW atoms \in PipeAtoms,
         PipePut(p, ts, atoms)
  PROVE  Mapped
<1> DEFINE t == ts + interval[p]
           e == [obj |-> p, outlet |-> 0, ts |-> t, atoms |-> atoms, id |-> calls + 1]
<1>1. /\ p \in Timed /\ p \notin Timers /\ calls < MaxCalls /\ atoms \in AtomLists
      /\ interval[p] \in Nat
  BY NotTimers, TimedAssumption DEF PipePut, IInv, TypeOK, AtomLists
<1>2. t \in Nat /\ (stack # << >> => Top.at <= t)
  <2>1. ts \in Nat /\ (stack # << >> => ts = Top.at)
    BY ArrivalTimes
  <2> QED  BY <1>1, <2>1
<1>3. queue' = Schedule(queue, p, t, atoms)
  BY DEF PipePut
<1>4. /\ stack' = stack /\ now' = now
      /\ interval' = [interval EXCEPT ![p] = IF atoms[1] \in Intervals THEN atoms[1] ELSE @]
  BY DEF PipePut
<1> HIDE DEF t
<1>5. /\ e \in Message
      /\ Sound(queue', calls + 1, MovedIds)
      /\ Entries(queue') = Entries(queue) \cup {e}
  BY <1>1, <1>2, <1>3, ScheduleIs DEF IInv
<1>6. e.obj = p
  OBVIOUS
<1> HIDE DEF e
<1>7. alarms' = alarms
  <2>1. TimersAlone
    BY <1>1, <1>5, <1>6, OthersAlone
  <2> QED  BY <1>5, <2>1, AlarmsStay DEF Sound
<1>8. periods' = periods
  BY <1>1, <1>4, PeriodsAre
<1> QED  BY <1>4, <1>7, <1>8, SameSentAt, OthersMap

LEMMA PipeSetMaps ==
  ASSUME IInv, OnTime, NEW p \in Pipes, NEW ts, NEW ms \in Intervals, PipeSet(p, ts, ms)
  PROVE  Mapped
<1>1. periods' = periods
  BY NotTimers, PeriodsAre DEF PipeSet, SetInterval
<1>2. alarms' = alarms /\ stack' = stack /\ now' = now
  BY DEF PipeSet, SetInterval, alarms
<1> QED  BY <1>1, <1>2, SameSentAt, OthersMap

LEMMA PipeClearMaps ==
  ASSUME IInv, OnTime, NEW p \in Pipes, NEW ts, PipeClear(p, ts)
  PROVE  Mapped
<1>1. Sound(queue', calls, MovedIds) /\ Entries(queue') = {e \in Entries(queue) : e.obj # p}
  BY ClearedIs
<1>2. TimersAlone
  BY <1>1, NotTimers DEF TimersAlone
<1>3. alarms' = alarms
  BY <1>1, <1>2, AlarmsStay DEF Sound
<1>4. periods' = periods /\ stack' = stack /\ now' = now
  BY DEF PipeClear, periods
<1> QED  BY <1>3, <1>4, SameSentAt, OthersMap

\* a flush moves a message of the pipe
LEMMA MovedMessage ==
  ASSUME IInv, NEW p \in Pipes, NEW q, Sound(q, calls, MovedIds),
         \E x : x.obj = p /\ (Entries(q) = Entries(queue) \/ Entries(q) = Entries(queue) \ {x}),
         NEW m \in Entries(q), m.obj = p, NEW ts \in Nat, queue' = SetTimestamp(q, m.id, ts)
  PROVE  alarms' = alarms
<1> DEFINE e == [m EXCEPT !.ts = ts]
<1>1. calls \in Nat /\ m \in Message
  BY SoundEntries DEF IInv, TypeOK
<1>2. e.obj = p
  BY <1>1 DEF Message
<1>3. Sound(queue', calls, MovedIds \cup {m.id})
      /\ Entries(queue') = (Entries(q) \ {m}) \cup {e}
  BY <1>1, SetTimestampSound
<1> HIDE DEF e
<1>4. TimersAlone
  BY <1>2, <1>3, NotTimers DEF TimersAlone
<1> QED  BY <1>3, <1>4, AlarmsStay DEF Sound

LEMMA PipeFlushMaps ==
  ASSUME IInv, OnTime, NEW p \in Pipes, NEW ts \in Arrivals, PipeFlush(p, ts)
  PROVE  Mapped
<1>1. ts \in Nat /\ p \in Timed
  BY ArrivalTimes, NotTimers
<1>2. Flushers(p) = {}
  BY DEF PipeFlush, Flushing, Flushers, Flushes
<1>3. 1 \in 1..Len(held[p])
  <2>1. held[p] # << >> /\ held[p] \in Seq(Nat)
    BY HeldIs DEF PipeFlush
  <2> QED  BY <2>1, EmptySeq
<1>4. PICK m \in Entries(queue) : m.obj = p /\ m.id = held[p][1]
  <2>1. held[p][1] \in IdsOf(Entries(queue), p)
    BY <1>2, <1>3, OutsideFlush
  <2> QED  BY <2>1, Zenon DEF IdsOf
<1>5. queue' = SetTimestamp(queue, m.id, ts) /\ Sound(queue, calls, MovedIds)
  BY <1>4 DEF PipeFlush, IInv
<1>6. alarms' = alarms
  BY <1>1, <1>4, <1>5, MovedMessage
<1>7. sentAt' = ts /\ now' = now /\ periods' = periods
  BY <1>1, PushSends DEF PipeFlush, IInv, objects, periods
<1> QED  BY <1>6, <1>7, OthersMap

LEMMA FlushNextMaps ==
  ASSUME IInv, OnTime, FlushNext
  PROVE  Mapped
<1> DEFINE q == AfterFlushed
           next == held[Top.obj][Top.it + 1]
           f == [Top EXCEPT !.it = @ + 1]
           J == Len(stack)
<1>1. InFlush /\ stack # << >> /\ Live(q, next) /\ queue' = SetTimestamp(q, next, Top.at)
      /\ stack' = [stack EXCEPT ![J].it = @ + 1] /\ UNCHANGED <<now, objects>>
      /\ Top.it < Len(held[Top.obj])
  BY DEF FlushNext, InFlush
<1>2. PICK p \in Pipes : p = Top.obj
  BY <1>1, AfterFlushedIs
<1>3. /\ Top.it \in 1..Len(held[p]) /\ Top.at \in Nat /\ J \in 1..J /\ Top = stack[J]
      /\ Sound(q, calls, MovedIds)
      /\ \E x \in Entries(queue) : x.obj = p /\ Entries(q) = Entries(queue) \ {x}
  BY <1>1, <1>2, AfterFlushedIs
<1>4. PICK m \in Entries(q) : m.id = next
  BY <1>1 DEF Live, Entries
<1>5. m.obj = p
  <2>1. Top.it + 1 \in 1..Len(held[p])
    BY <1>1, <1>2, <1>3, HeldIs
  <2>2. m \in Entries(queue)
    BY <1>3
  <2> QED  BY <1>2, <1>4, <2>1, <2>2, HeldIs
<1>6. stack' = [stack EXCEPT ![J] = f]
  BY <1>1, <1>3
<1>7. f \in Frame /\ f.at = Top.at
  <2>1. Top \in Frame /\ Top.it \in Nat
    BY <1>1, TopIs DEF IInv
  <2> QED  BY <2>1 DEF Frame
<1> HIDE DEF q, next, f
<1>8. alarms' = alarms
  BY <1>1, <1>3, <1>4, <1>5, MovedMessage
<1>9. sentAt' = sentAt
  <2>1. stack \in Seq(Frame)
    BY DEF IInv, TypeOK
  <2>2. Len(stack') = J /\ stack'[J] = f /\ stack' \in Seq(Frame)
    BY ONLY <1>3, <1>6, <1>7, <2>1, ExceptSeq DEF J
  <2>3. stack' # << >>
    BY <1>3, <2>2, EmptySeq
  <2> QED  BY <1>1, <1>7, <2>2, <2>3 DEF sentAt, Top
<1>10. now' = now /\ periods' = periods
  BY <1>1 DEF objects, periods
<1> QED  BY <1>8, <1>9, <1>10, OthersMap

LEMMA FlushEndMaps ==
  ASSUME IInv, OnTime, FlushEnd
  PROVE  Mapped
<1>1. InFlush /\ stack # << >> /\ queue' = AfterFlushed /\ stack' = Returned
      /\ UNCHANGED <<now, interval>>
  BY DEF FlushEnd, InFlush
<1>2. /\ Top.obj \in Pipes /\ Sound(AfterFlushed, calls, MovedIds)
      /\ \E x \in Entries(queue) : x.obj = Top.obj /\ Entries(AfterFlushed) = Entries(queue) \ {x}
  BY <1>1, AfterFlushedIs
<1>3. TimersAlone
  BY <1>1, <1>2, NotTimers, OthersAlone
<1>4. alarms' = alarms
  BY <1>1, <1>2, <1>3, AlarmsStay DEF Sound
<1>5. sentAt' \in {-1, sentAt}
  BY <1>1, ReturnedSends DEF IInv
<1> QED  BY <1>1, <1>4, <1>5, OthersMap DEF periods

\* process sends for a pipe or a loadbang
LEMMA OtherSendsMap ==
  ASSUME IInv, OnTime, NEW o \in Pipes \cup Loadbangs, Sends(o), queue' = Popped(queue)
  PROVE  Mapped
<1>1. o \in Timed /\ o \notin Timers
  BY NotTimers
<1>2. /\ stack = << >> /\ SendTime \in Nat /\ First(queue) \in Entries(queue)
      /\ First(queue).obj = o /\ First(queue).ts \in Nat
      /\ Sound(queue', calls, MovedIds)
      /\ Entries(queue') = Entries(queue) \ {First(queue)}
  BY <1>1, SendsIs
<1>3. alarms' = alarms
  BY <1>1, <1>2, OthersAlone, AlarmsStay DEF Sound
<1>4. sentAt = -1 /\ sentAt' = SendTime /\ now' = now /\ periods' = periods
  BY <1>1, <1>2, SentAtIs, PushSends DEF Sends, IInv, periods
<1>5. SendTime \in 0..now + Tick - 1
  <2>1. now \in Nat /\ Tick \in Nat /\ Tick > 0 /\ First(queue).ts < now + Tick
    BY TimedAssumption DEF Sends, Due, IInv, TypeOK
  <2> QED  BY <1>2, <2>1 DEF SendTime
<1> QED  BY <1>3, <1>4, <1>5, OthersMap

LEMMA ClockMaps ==
  ASSUME IInv, OnTime, NEW o \in Clocks, NEW ts \in Arrivals, ClockStart(o, ts) \/ ClockRead(o, ts)
  PROVE  Mapped
<1>1. o \in Timed /\ ts \in Nat
  BY NotTimers, ArrivalTimes
<1>2. alarms' = alarms /\ periods' = periods /\ now' = now
  BY DEF ClockStart, ClockRead, objects, alarms, periods
<1>3. sentAt' \in {sentAt, ts}
  BY <1>1, SameSentAt, PushSends DEF ClockStart, ClockRead, IInv
<1> QED  BY <1>2, <1>3, OthersMap

LEMMA ProcessEndMaps ==
  ASSUME IInv, OnTime, ProcessEnd
  PROVE  Mapped
<1>1. /\ stack = << >> /\ stack' = stack /\ now' = now + Tick
      /\ alarms' = alarms /\ periods' = periods /\ ~Due
  BY DEF ProcessEnd, objects, alarms, periods
<1>2. sentAt = -1 /\ sentAt' = sentAt
  BY <1>1, SameSentAt, SentAtIs DEF IInv
<1>3. ASSUME NEW o \in Timers, alarms[o] # -1 PROVE alarms[o] >= now + Tick
  <2>1. queue # << >> /\ First(queue).ts <= alarms[o]
    BY <1>1, <1>3, FirstIsLeast
  <2>2. First(queue).ts \in Nat /\ now \in Nat /\ Tick \in Nat /\ alarms[o] \in Nat
    BY <1>3, <2>1, FirstIs, MessageFields, AlarmType, TimedAssumption DEF IInv, TypeOK
  <2>3. ~(First(queue).ts < now + Tick)
    BY <1>1, <2>1 DEF Due
  <2> QED  BY <2>1, <2>2, <2>3
<1>4. Alarms!NextBlock
  BY <1>1, <1>2, <1>3, TimersOfClocks DEF Alarms!NextBlock, Alarms!Running
<1> QED  BY <1>4 DEF Mapped, Alarms!Next

LEMMA ControlMaps ==
  ASSUME IInv, OnTime, SendDone \/ ProcessBegin \/ FlushLost
  PROVE  Mapped
<1>1. alarms' = alarms /\ periods' = periods /\ now' = now
  BY DEF SendDone, ProcessBegin, FlushLost, objects, alarms, periods
<1>2. sentAt' \in {-1, sentAt}
  BY ReturnedSends, SameSentAt DEF SendDone, ProcessBegin, FlushLost, IInv
<1> QED  BY <1>1, <1>2, OthersMap

LEMMA ReenteredMaps ==
  ASSUME IInv, OnTime, NEW p, NEW ts, PipeReentered(p, ts)
  PROVE  Mapped
<1>1. alarms' = alarms /\ periods' = periods /\ now' = now /\ stack' = stack
  BY DEF PipeReentered, objects, alarms, periods
<1> QED  BY <1>1, SameSentAt, OthersMap

(* Every step is a step of the alarm clocks, or none of their business. *)
LEMMA ArrivalMaps ==
  ASSUME Room, IInv, OnTime, NEW ts \in Arrivals,
         \/ MetroStep(ts) \/ DelayStep(ts) \/ PipeStep(ts)
         \/ \E l \in Lines \cap patch : TimerStop(l, ts) \/ \E ms \in Intervals : MetroSet(l, ts, ms)
  PROVE  Mapped
<1>1. \A o \in Metros \cup DelayObjects \cup Lines : o \in Timers
  BY DEF Timers
<1>2. CASE MetroStep(ts)
  BY <1>1, <1>2, MetroStartMaps, TimerStopMaps, MetroSetMaps DEF MetroStep
<1>3. CASE DelayStep(ts)
  BY <1>1, <1>3, DelayStartMaps, TimerStopMaps, DelaySetMaps DEF DelayStep
<1>4. CASE PipeStep(ts)
  <2>1. PICK p \in Pipes :
          \/ \E atoms \in PipeAtoms : PipePut(p, ts, atoms)
          \/ \E ms \in Intervals : PipeSet(p, ts, ms)
          \/ PipeClear(p, ts) \/ PipeFlush(p, ts) \/ PipeReentered(p, ts)
    BY <1>4 DEF PipeStep
  <2>2. CASE \E atoms \in PipeAtoms : PipePut(p, ts, atoms)
    BY <2>2, PipePutMaps
  <2>3. CASE \E ms \in Intervals : PipeSet(p, ts, ms)
    BY <2>3, PipeSetMaps
  <2>4. CASE PipeClear(p, ts)
    BY <2>4, PipeClearMaps
  <2>5. CASE PipeFlush(p, ts)
    BY <2>5, PipeFlushMaps
  <2>6. CASE PipeReentered(p, ts)
    BY <2>6, ReenteredMaps
  <2> QED  BY <2>1, <2>2, <2>3, <2>4, <2>5, <2>6
<1>5. CASE \E l \in Lines \cap patch : TimerStop(l, ts) \/ \E ms \in Intervals : MetroSet(l, ts, ms)
  BY <1>1, <1>5, TimerStopMaps, MetroSetMaps
<1> QED  BY <1>2, <1>3, <1>4, <1>5

LEMMA HandlerMaps ==
  ASSUME Room, IInv, OnTime, Handler
  PROVE  Mapped
<1>1. CASE \E ts \in Arrivals :
             \/ MetroStep(ts) \/ DelayStep(ts) \/ PipeStep(ts)
             \/ \E l \in Lines \cap patch :
                  TimerStop(l, ts) \/ \E ms \in Intervals : MetroSet(l, ts, ms)
  BY <1>1, ArrivalMaps
<1>2. CASE FlushNext
  BY <1>2, FlushNextMaps
<1>3. CASE FlushEnd
  BY <1>3, FlushEndMaps
<1>4. CASE SendDone \/ ProcessBegin \/ FlushLost
  BY <1>4, ControlMaps
<1>5. CASE ProcessEnd
  BY <1>5, ProcessEndMaps
<1>6. CASE \E m \in Metros : MetroSend(m)
  BY <1>6, MetroSendMaps
<1>7. CASE \E d \in DelayObjects : DelaySend(d)
  BY <1>7, DelaySendMaps
<1>8. CASE (\E p \in Pipes : PipeSend(p)) \/ \E o \in Loadbangs : LoadbangSend(o)
  BY <1>8, OtherSendsMap DEF PipeSend, LoadbangSend
<1> QED  BY <1>1, <1>2, <1>3, <1>4, <1>5, <1>6, <1>7, <1>8 DEF Handler

LEMMA StepMaps ==
  ASSUME Room, IInv, OnTime, [Next]_vars
  PROVE  Mapped
<1>1. CASE Handler
  BY <1>1, HandlerMaps
<1>2. CASE \E ts \in Arrivals : LineStep(ts)
  BY <1>2, LineStepMaps
<1>3. CASE \E ts \in Arrivals : ClockStep(ts)
  BY <1>3, ClockMaps DEF ClockStep
<1>4. CASE \E l \in Lines : LineSend(l)
  BY <1>4, LineSendMaps
<1>5. CASE UNCHANGED vars
  BY <1>5 DEF vars, objects, Mapped, Alarms!vars, alarms, periods, sentAt, Top
<1> QED  BY <1>1, <1>2, <1>3, <1>4, <1>5 DEF Next

\* what is sent stays on time: the clocks do not send otherwise
LEMMA StaysOnTime ==
  ASSUME IInv, OnTime, Mapped
  PROVE  OnTime'
<1>1. now \in Nat /\ Tick \in Nat /\ Tick > 0 /\ (sentAt \in Nat \/ sentAt = -1)
  BY SentAtIs, TimedAssumption DEF IInv, TypeOK
<1>2. \A t \in Alarms!Times : t < now + Tick
  BY <1>1 DEF Alarms!Times
<1>3. CASE UNCHANGED <<sentAt, now>>
  BY <1>3 DEF OnTime
<1>4. ASSUME NEW o \in Timers, Alarms!Start(o) \/ Alarms!Stop(o) \/ Alarms!SetPeriod(o)
      PROVE  OnTime'
  BY <1>2, <1>4 DEF OnTime, Alarms!Start, Alarms!Stop, Alarms!SetPeriod
<1>5. ASSUME NEW o \in Timers, Alarms!Ring(o)
      PROVE  OnTime'
  <2>1. now' = now /\ sentAt' = IF alarms[o] < now THEN now ELSE alarms[o]
    BY <1>5 DEF Alarms!Ring
  <2>2. alarms[o] < now + Tick
    BY <1>5 DEF Alarms!Ring
  <2> QED  BY <1>1, <2>1, <2>2 DEF OnTime
<1>6. CASE Alarms!Send \/ Alarms!Sent \/ Alarms!NextBlock
  BY <1>1, <1>6 DEF OnTime, Alarms!Send, Alarms!Sent, Alarms!NextBlock
<1> QED  BY <1>3, <1>4, <1>5, <1>6, TimersOfClocks DEF Mapped, Alarms!Next, Alarms!vars

LEMMA ClocksInit ==
  ASSUME Init
  PROVE  Alarms!Init /\ OnTime
<1>1. IInv /\ sentAt = -1 /\ now = 0
  BY InitIs DEF Init, sentAt
<1>2. ASSUME NEW o \in Timers PROVE alarms[o] = -1
  <2>1. pending[o] = NULL
    BY DEF Init
  <2>2. ASSUME NEW m \in Entries(queue), m.obj = o PROVE FALSE
    BY <1>1, <2>1, <2>2, OnlyPending
  <2> QED  BY <1>1, <2>2, AlarmType
<1>3. alarms = [o \in Timers |-> -1]
  BY <1>2 DEF alarms
<1>4. periods \in [Timers -> Intervals]
  <2>1. \A o \in Timers : interval[o] \in Intervals
    BY TimedAssumption DEF Init, Timed
  <2> QED  BY <2>1 DEF periods
<1>5. OnTime
  BY <1>1, TimedAssumption DEF OnTime
<1> QED  BY <1>1, <1>3, <1>4, <1>5, TimersOfClocks DEF Alarms!Init

(***************************************************************************)
(* Metros, delays and lines are alarm clocks (MessageMetro.cpp:51-111,     *)
(* MessageDelay.cpp:53-124, MessageLine.cpp:50-155): whatever pipes flush  *)
(* in the queue that they share, however the commands nest, each rings one *)
(* period after it was set, in the order of the alarms, in the block of    *)
(* its time, and not once it was stopped: for every patch and interval.    *)
(***************************************************************************)
THEOREM RingLikeClocks == Spec /\ []Room => ImplementsAlarms
<1>1. Init => Alarms!Init /\ OnTime
  BY ClocksInit
<1>2. IInv /\ OnTime /\ Room /\ [Next]_vars => [Alarms!Next]_(Alarms!vars) /\ OnTime'
  BY StepMaps, StaysOnTime DEF Mapped
<1>3. Spec /\ []Room => []IInv
  BY InvariantHolds
<1> QED  BY <1>1, <1>2, <1>3, PTL DEF Spec, ImplementsAlarms, Alarms!Spec
=============================================================================
