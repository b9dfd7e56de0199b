----------------------------- MODULE BoundedFifo -----------------------------
(***************************************************************************)
(* What SpscQueue (src/src/mlt/spsc_queue.h) promises its two threads: a   *)
(* FIFO of at most Capacity elements.  Put appends when there is room;     *)
(* Get removes the oldest element and hands it to the consumer (popped).   *)
(***************************************************************************)
EXTENDS Naturals, Sequences

CONSTANTS
  Capacity,   \* the most elements the queue holds
  Values,     \* what may be pushed
  NoValue     \* the consumer's variable before its first pop

VARIABLES queue, popped

vars == <<queue, popped>>

Init ==
  /\ queue = <<>>
  /\ popped = NoValue

Put(v) ==
  /\ Len(queue) < Capacity
  /\ queue' = Append(queue, v)
  /\ UNCHANGED popped

Get ==
  /\ queue # <<>>
  /\ popped' = Head(queue)
  /\ queue' = Tail(queue)

Next == (\E v \in Values : Put(v)) \/ Get

Spec == Init /\ [][Next]_vars
=============================================================================
