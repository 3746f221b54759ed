----------------------------- MODULE BufferPool -----------------------------
(***************************************************************************)
(* BufferPool (src/BufferPool.cpp): the audio buffers that objects write   *)
(* and read during a block.  A buffer is reserved with the number of       *)
(* inlets that will read it and goes back to the pool with the last of     *)
(* them.  The operations are operators on a record                         *)
(*   [pool, reserved, total],                                              *)
(* pool the stack of available buffers (last element on top), reserved the *)
(* count of each reserved one, total the number of buffers ever allocated; *)
(* buffers are 1..total and 0 is the zero buffer.                          *)
(*                                                                         *)
(* The state machine below them is a client that keeps to the rules of the *)
(* process order: it releases a buffer once for each use it asked for, and *)
(* reserves further uses only of a buffer it still uses.  Each release has *)
(* a use before it, and there are fewer connections than an unsigned int   *)
(* counts: in the hands of this client no count wraps around.              *)
(***************************************************************************)
EXTENDS Naturals, Sequences

CONSTANTS CountRange,    \* 2^32: the counts are unsigned ints
          MaxBuffers,    \* bound: buffers ever allocated
          MaxUses        \* bound: uses asked for at once

ASSUME BufferPoolAssumption ==
  CountRange \in Nat \ {0} /\ MaxBuffers \in Nat /\ MaxUses \in Nat

zeroBuffer == 0

EmptyPool == [pool |-> << >>, reserved |-> << >>, total |-> 0]

Reserved(p) == DOMAIN p.reserved

\* the buffer that getBuffer hands out: the top of the stack, or a new one
NextBuffer(p) == IF p.pool # << >> THEN p.pool[Len(p.pool)] ELSE p.total + 1

\* the stack without its top
Popped(stack) == IF stack = << >> THEN << >> ELSE [j \in 1..Len(stack) - 1 |-> stack[j]]

\* mutant: a buffer that comes from the pool is counted as a new one
getBufferCountedTwice(p, numDependencies) ==
  [pool |-> Popped(p.pool),
   reserved |-> [b \in Reserved(p) \cup {NextBuffer(p)} |->
                   IF b = NextBuffer(p) THEN numDependencies ELSE p.reserved[b]],
   total |-> p.total + 1]

getBuffer(p, numDependencies) ==
  [pool |-> Popped(p.pool),
   reserved |-> [b \in Reserved(p) \cup {NextBuffer(p)} |->
                   IF b = NextBuffer(p) THEN numDependencies ELSE p.reserved[b]],
   total |-> IF p.pool # << >> THEN p.total ELSE p.total + 1]

\* mutants: the first release returns the buffer; it stays reserved as well
releaseBufferAtOnce(p, b) ==
  IF b = zeroBuffer \/ b \notin Reserved(p) THEN p
  ELSE [pool |-> Append(p.pool, b),
        reserved |-> [c \in Reserved(p) \ {b} |-> p.reserved[c]],
        total |-> p.total]
releaseBufferKept(p, b) ==
  IF b = zeroBuffer \/ b \notin Reserved(p) THEN p
  ELSE IF p.reserved[b] <= 1 THEN [p EXCEPT !.pool = Append(@, b)]
  ELSE [p EXCEPT !.reserved[b] = @ - 1]

(***************************************************************************)
(* --count, then back to the pool when the count is <= 0.  The count is    *)
(* unsigned: 0 would wrap around, if a buffer without uses were released.  *)
(* The zero buffer and buffers that the pool does not know are left alone. *)
(***************************************************************************)
releaseBuffer(p, b) ==
  LET left == (p.reserved[b] + CountRange - 1) % CountRange IN
  IF b = zeroBuffer \/ b \notin Reserved(p) THEN p
  ELSE IF left <= 0
    THEN [pool |-> Append(p.pool, b),
          reserved |-> [c \in Reserved(p) \ {b} |-> p.reserved[c]],
          total |-> p.total]
    ELSE [p EXCEPT !.reserved[b] = left]

\* mutant: the uses that are passed on replace the count
reserveBufferReplaced(p, b, reserveCount) ==
  IF b = zeroBuffer \/ b \notin Reserved(p) THEN p
  ELSE [p EXCEPT !.reserved[b] = reserveCount]

reserveBuffer(p, b, reserveCount) ==
  IF b = zeroBuffer \/ b \notin Reserved(p) THEN p
  ELSE [p EXCEPT !.reserved[b] = (@ + reserveCount) % CountRange]

-----------------------------------------------------------------------------
VARIABLES buffers,    \* the BufferPool
          uses        \* history: the uses of each buffer that are not yet over

vars == <<buffers, uses>>

Buffers == 1..MaxBuffers

\* a buffer that no getBuffer returned, such as an adc~ input buffer
Untracked == MaxBuffers + 1

TypeOK ==
  /\ buffers.pool \in Seq(Buffers)
  /\ Reserved(buffers) \subseteq Buffers
  /\ \A b \in Reserved(buffers) : buffers.reserved[b] \in 0..CountRange - 1
  /\ buffers.total \in 0..MaxBuffers
  /\ uses \in [Buffers -> 0..CountRange - 1]

Init == buffers = EmptyPool /\ uses = [b \in Buffers |-> 0]

\* setting up an outlet, with the number of its connections (0 of a leaf)
Get ==
  \E n \in 0..MaxUses :
    /\ n < CountRange
    /\ NextBuffer(buffers) \in Buffers
    /\ buffers' = getBuffer(buffers, n)
    /\ uses' = [uses EXCEPT ![NextBuffer(buffers)] = n]

\* the inlet that reads the buffer is resolved: one release for each use
Release ==
  \E b \in Buffers :
    /\ uses[b] > 0
    /\ buffers' = releaseBuffer(buffers, b)
    /\ uses' = [uses EXCEPT ![b] = @ - 1]

\* inlet~ and outlet~ pass on the buffer they were given to their receivers, of
\* which there are never so many that the count reaches CountRange
Reserve ==
  \E b \in Buffers, n \in 0..MaxUses :
    /\ uses[b] > 0
    /\ uses[b] + n < CountRange
    /\ buffers' = reserveBuffer(buffers, b, n)
    /\ uses' = [uses EXCEPT ![b] = @ + n]

\* an unconnected inlet or one fed by adc~ releases and reserves these
OtherBuffer ==
  \E b \in {zeroBuffer, Untracked} :
    /\ \/ buffers' = releaseBuffer(buffers, b)
       \/ \E n \in 0..MaxUses : buffers' = reserveBuffer(buffers, b, n)
    /\ UNCHANGED uses

Next == Get \/ Release \/ Reserve \/ OtherBuffer

Spec == Init /\ [][Next]_vars

-----------------------------------------------------------------------------
(***************************************************************************)
(* The buffer that getBuffer would hand out is one that nobody still       *)
(* reads: two outlets never write to one buffer while either is in use.    *)
(***************************************************************************)
NextIsUnused ==
  NextBuffer(buffers) \in Buffers => uses[NextBuffer(buffers)] = 0

(***************************************************************************)
(* No buffer is lost or doubled: each one allocated is in the pool once or *)
(* reserved, and not both.                                                 *)
(***************************************************************************)
EachInOnePlace ==
  /\ \A b \in 1..buffers.total :
       b \in Reserved(buffers) \/ \E j \in 1..Len(buffers.pool) : buffers.pool[j] = b
  /\ \A j \in 1..Len(buffers.pool) : buffers.pool[j] \notin Reserved(buffers)
  /\ \A j, k \in 1..Len(buffers.pool) : j # k => buffers.pool[j] # buffers.pool[k]

(***************************************************************************)
(* A buffer goes back to the pool with its last reader, neither before nor *)
(* after ("possibly made available for other objects", BufferPool.h:41).   *)
(***************************************************************************)
ReturnedWithLastUse ==
  [][\A b \in Reserved(buffers) :
       b \notin Reserved(buffers') <=> uses[b] > 0 /\ uses'[b] = 0]_vars
=============================================================================
