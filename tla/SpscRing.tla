------------------------------ MODULE SpscRing ------------------------------
(***************************************************************************)
(* The lock-free single-producer/single-consumer ring of                   *)
(* include/qsl/concurrency/spsc_ring.hpp, at the granularity of its        *)
(* memory accesses.  The producer runs emplace, the consumer try_pop.      *)
(*                                                                         *)
(* The cursors tail_ and head_ are kept as the number of stores made to    *)
(* them, so that an old value of a cursor can be told from a new one; the  *)
(* word the code stores is Slot(tail), Slot(head), and every test of the   *)
(* code is made on those words.                                            *)
(*                                                                         *)
(* Memory order.  A load of the other thread's cursor may return any value *)
(* it has held since the last one this thread read (coherence): the load   *)
(* is a choice.  An acquire load that reads the n-th release store makes   *)
(* what the other thread did before it visible: pSync and cSync count the  *)
(* stores synchronised with.  A plain access to a slot is ordered after    *)
(* the other thread's last access to it only through them.                 *)
(***************************************************************************)
EXTENDS Integers, Sequences

CONSTANTS Capacity,   \* template parameter Capacity
          Values,     \* the element type T
          NoValue,    \* what a slot holds before a write and after a move out
          MaxPushes   \* bound: the producer pushes at most this many values

ASSUME CapacityAssumption == Capacity \in Nat \ {0}
ASSUME NoValueAssumption == NoValue \notin Values
ASSUME MaxPushesAssumption == MaxPushes \in Nat

VARIABLES
  tail, head,           \* stores made to tail_ and head_
  buffer,               \* buffer_
  ppc, pval,            \* producer: next access, argument of emplace
  pSeen, pSync,         \* producer: newest head_ store read / synchronised with
  cpc, cval,            \* consumer: next access, the value moved into out
  cSeen, cSync,         \* consumer: newest tail_ store read / synchronised with
  accepted, received    \* history: values pushed and values popped

producerVars == <<ppc, pval, pSeen, pSync>>
consumerVars == <<cpc, cval, cSeen, cSync>>
ringVars == <<tail, head, buffer, producerVars, consumerVars, accepted, received>>

kSlots == Capacity + 1

\* The word a cursor holds after n stores; next(Slot(n)) = Slot(n + 1).
Slot(n) == n % kSlots

RingInit ==
  /\ tail = 0 /\ head = 0
  /\ buffer = [i \in 0..Capacity |-> NoValue]
  /\ ppc = "idle" /\ pval = NoValue /\ pSeen = 0 /\ pSync = 0
  /\ cpc = "idle" /\ cval = NoValue /\ cSeen = 0 /\ cSync = 0
  /\ accepted = <<>> /\ received = <<>>

-----------------------------------------------------------------------------
(* The producer: emplace.                                                  *)

\* n == head_.load(acquire): the h-th store of head_ is read.
AcquireHead(h) ==
  /\ h \in pSeen..head
  /\ pSeen' = h
  /\ pSync' = h

\* next(tail) == head_: return false, the argument is not moved from.
PushFull(h) ==
  /\ ppc = "idle"
  /\ tail < MaxPushes
  /\ AcquireHead(h)
  /\ Slot(tail + 1) = Slot(h)
  /\ UNCHANGED <<tail, head, buffer, ppc, pval, consumerVars, accepted, received>>

\* Mutants of PushBegin: no full test; a full test that gives away the spare slot.
PushBegin_NoFullTest(v, h) ==
  /\ ppc = "idle" /\ tail < MaxPushes /\ AcquireHead(h)
  /\ ppc' = "write" /\ pval' = v
  /\ UNCHANGED <<tail, head, buffer, consumerVars, accepted, received>>

PushBegin_UsesSpareSlot(v, h) == tail < h + kSlots /\ PushBegin_NoFullTest(v, h)

PushBegin(v, h) ==
  /\ ppc = "idle"
  /\ tail < MaxPushes
  /\ AcquireHead(h)
  /\ Slot(tail + 1) # Slot(h)
  /\ ppc' = "write"
  /\ pval' = v
  /\ UNCHANGED <<tail, head, buffer, consumerVars, accepted, received>>

\* buffer_[tail] = std::forward<U>(value)
WriteSlot ==
  /\ ppc = "write"
  /\ buffer' = [buffer EXCEPT ![Slot(tail)] = pval]
  /\ ppc' = "publish"
  /\ UNCHANGED <<tail, head, pval, pSeen, pSync, consumerVars, accepted, received>>

\* tail_.store(n, release); return true
PublishTail ==
  /\ ppc = "publish"
  /\ tail' = tail + 1
  /\ accepted' = Append(accepted, pval)
  /\ ppc' = "idle"
  /\ UNCHANGED <<head, buffer, pval, pSeen, pSync, consumerVars, received>>

-----------------------------------------------------------------------------
(* The consumer: try_pop.                                                  *)

\* Mutant: a relaxed load.
AcquireTail_Relaxed(t) == t \in cSeen..tail /\ cSeen' = t /\ cSync' = cSync

\* tail_.load(acquire): the t-th store of tail_ is read.
AcquireTail(t) ==
  /\ t \in cSeen..tail
  /\ cSeen' = t
  /\ cSync' = t

\* head == tail_: return false
PopEmpty(t) ==
  /\ cpc = "idle"
  /\ AcquireTail(t)
  /\ Slot(head) = Slot(t)
  /\ UNCHANGED <<tail, head, buffer, producerVars, cpc, cval, accepted, received>>

\* Mutants of PopBegin: no empty test; a test that leaves the last value.
PopBegin_NoEmptyTest(t) ==
  /\ cpc = "idle" /\ AcquireTail(t) /\ cpc' = "read"
  /\ UNCHANGED <<tail, head, buffer, producerVars, cval, accepted, received>>

PopBegin_LeavesLast(t) ==
  /\ Slot(head) # Slot(t) /\ Slot(head + 1) # Slot(t)
  /\ PopBegin_NoEmptyTest(t)

PopBegin(t) ==
  /\ cpc = "idle"
  /\ AcquireTail(t)
  /\ Slot(head) # Slot(t)
  /\ cpc' = "read"
  /\ UNCHANGED <<tail, head, buffer, producerVars, cval, accepted, received>>

\* out = std::move(buffer_[head])
ReadSlot ==
  /\ cpc = "read"
  /\ cval' = buffer[Slot(head)]
  /\ buffer' = [buffer EXCEPT ![Slot(head)] = NoValue]
  /\ cpc' = "publish"
  /\ UNCHANGED <<tail, head, producerVars, cSeen, cSync, accepted, received>>

\* head_.store(next(head), release); return true
PublishHead ==
  /\ cpc = "publish"
  /\ head' = head + 1
  /\ received' = Append(received, cval)
  /\ cpc' = "idle"
  /\ UNCHANGED <<tail, buffer, producerVars, cval, cSeen, cSync, accepted>>

-----------------------------------------------------------------------------
RingNext ==
  \/ \E h \in 0..head : PushFull(h)
  \/ \E v \in Values, h \in 0..head : PushBegin(v, h)
  \/ WriteSlot
  \/ PublishTail
  \/ \E t \in 0..tail : PopEmpty(t)
  \/ \E t \in 0..tail : PopBegin(t)
  \/ ReadSlot
  \/ PublishHead

RingSpec == RingInit /\ [][RingNext]_ringVars

-----------------------------------------------------------------------------
(* Properties.                                                             *)

RingTypeOK ==
  /\ tail \in Nat /\ head \in Nat
  /\ buffer \in [0..Capacity -> Values \cup {NoValue}]
  /\ ppc \in {"idle", "write", "publish"}
  /\ pval \in Values \cup {NoValue}
  /\ ppc # "idle" => pval \in Values
  /\ pSeen \in Nat /\ pSync \in Nat
  /\ cpc \in {"idle", "read", "publish"}
  /\ cval \in Values \cup {NoValue}
  /\ cSeen \in Nat /\ cSync \in Nat
  /\ accepted \in Seq(Values)
  /\ received \in Seq(Values)

\* No data race on a slot: when the producer is about to overwrite a slot, the
\* consumer's last read of it happens before (its head_ store was acquired),
\* and when the consumer is about to read a slot, the producer's write of it
\* happens before.  The plain accesses of buffer_ rest on this alone.
NoDataRace ==
  /\ ppc = "write" => tail < pSync + kSlots
  /\ cpc = "read" => head < cSync

\* The two threads are never at the same slot, even with cursors as stale as
\* the memory model allows: the spare slot keeps them apart.
DistinctSlots ==
  ppc \in {"write", "publish"} /\ cpc = "read" => Slot(tail) # Slot(head)

\* What was popped is what was pushed, in order, with nothing lost, repeated
\* or read from a slot that held no value, however often the cursors wrap.
FifoDelivery ==
  /\ Len(received) = head
  /\ Len(accepted) = tail
  /\ head <= tail
  /\ \A i \in 1..head : received[i] = accepted[i]

\* The ring implements a FIFO of Capacity values: a push takes effect at the
\* store of tail_, a pop at the store of head_.
Fifo == INSTANCE BoundedFifo WITH queue <- SubSeq(accepted, head + 1, tail)
RefinesFifo == Fifo!FifoSpec

\* The inductive invariant behind the properties above.  CursorOrder: each
\* thread's view of the other cursor lags it, and the cursors stay within
\* Capacity of each other even when measured from the stale views.
CursorOrder ==
  /\ pSync = pSeen /\ pSeen <= head /\ tail <= pSeen + Capacity
  /\ cSync = cSeen /\ head <= cSeen /\ cSeen <= tail
  /\ ppc # "idle" => tail < pSeen + Capacity
  /\ cpc # "idle" => head < cSeen

\* SlotContents: the slots between the cursors hold the values not yet popped,
\* the one being written or read excepted.
SlotContents ==
  /\ \A k \in head..(tail - 1) :
       ~(k = head /\ cpc = "publish") => buffer[Slot(k)] = accepted[k + 1]
  /\ ppc = "publish" => buffer[Slot(tail)] = pval
  /\ cpc = "publish" => cval = accepted[head + 1]

RingInv == RingTypeOK /\ CursorOrder /\ FifoDelivery /\ SlotContents

\* Every pushed value is popped, by a consumer that keeps polling.
EventuallyDelivered ==
  \A n \in 1..MaxPushes : (tail >= n) ~> (head >= n)
=============================================================================
