---------------------------- MODULE BoundedFifo ----------------------------
(***************************************************************************)
(* What SpscRing promises its two threads: a FIFO of at most Capacity      *)
(* values.  A push that finds the queue full, and a pop that finds it      *)
(* empty, return false and change nothing, so they are stutters here.      *)
(***************************************************************************)
EXTENDS Naturals, Sequences

CONSTANTS Capacity,  \* the template parameter of SpscRing
          Values     \* the element type T

VARIABLES queue,     \* values pushed and not yet popped, oldest first
          received   \* values handed to the consumer, oldest first

fifoVars == <<queue, received>>

FifoInit == queue = <<>> /\ received = <<>>

Push(v) ==
  /\ Len(queue) < Capacity
  /\ queue' = Append(queue, v)
  /\ UNCHANGED received

Pop ==
  /\ queue # <<>>
  /\ received' = Append(received, Head(queue))
  /\ queue' = Tail(queue)

FifoNext == Pop \/ \E v \in Values : Push(v)

FifoSpec == FifoInit /\ [][FifoNext]_fifoVars
=============================================================================
