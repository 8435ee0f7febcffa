--------------------------- MODULE PipelineProofs ---------------------------
(***************************************************************************)
(* The ring and the pipeline built on it. For every capacity and any       *)
(* values, the two threads of the ring never meet at a slot and the ring   *)
(* is a bounded FIFO: proved from the inductive invariant RingInv of       *)
(* module SpscRing.                                                        *)
(*                                                                         *)
(* For every command stream, every pair of ring capacities and every       *)
(* engine, the pipeline's threads compute the single-threaded run: safety  *)
(* of module Pipeline, proved from the inductive invariant IInv.           *)
(***************************************************************************)
EXTENDS SpscRing, Pipeline, SequenceTheorems, TLAPS

-----------------------------------------------------------------------------
(* Arithmetic of the slot index.                                           *)

\* A number is its quotient times the divisor plus its remainder.
LEMMA DivMod ==
  ASSUME NEW K \in Nat \ {0}, NEW a \in Nat
  PROVE  /\ a % K \in 0..(K - 1)
         /\ a = K * (a \div K) + (a % K)
         /\ a \div K \in Int
BY SMT

\* A multiple of K between 0 and K is 0 or K.
LEMMA SmallMultiple ==
  ASSUME NEW K \in Nat \ {0}, NEW d \in Int, K * d >= 0, K * d <= K
  PROVE  d = 0 \/ d = 1
<1>1. ASSUME d <= -1 PROVE FALSE
  BY <1>1, K * d <= K * (-1), SMT
<1>2. ASSUME d >= 2 PROVE FALSE
  BY <1>2, K * d >= K * 2, SMT
<1> QED BY <1>1, <1>2

\* Remainders are unique.
LEMMA RemainderUnique ==
  ASSUME NEW K \in Nat \ {0}, NEW q1 \in Int, NEW q2 \in Int,
         NEW r1 \in 0..(K - 1), NEW r2 \in 0..(K - 1),
         K * q1 + r1 = K * q2 + r2
  PROVE  r1 = r2
<1> DEFINE d == q1 - q2
<1>1. K * d = r2 - r1
  BY SMT
<1>2. K * d < K /\ K * d > -K
  BY <1>1
<1>3. d = 0
  <2>1. ASSUME d >= 1 PROVE FALSE
    BY <2>1, <1>2, K * d >= K * 1, SMT
  <2>2. ASSUME d <= -1 PROVE FALSE
    BY <2>2, <1>2, K * d <= K * (-1), SMT
  <2> QED BY <2>1, <2>2
<1> QED BY <1>1, <1>3

\* The words of two cursors at most one lap apart are equal only when the
\* cursors are equal or exactly one lap apart: what the tests
\* next(tail) == head_ and head == tail_ decide.
LEMMA SlotEqual ==
  ASSUME NEW a \in Nat, NEW b \in Nat, b <= a, a <= b + kSlots
  PROVE  Slot(a) = Slot(b) <=> (a = b \/ a = b + kSlots)
<1> DEFINE K == kSlots
           qa == a \div K  qb == b \div K
           ra == a % K     rb == b % K
<1>0. K \in Nat \ {0}
  BY CapacityAssumption DEF kSlots
<1>1. /\ qa \in Int /\ ra \in 0..(K - 1) /\ a = K * qa + ra
      /\ qb \in Int /\ rb \in 0..(K - 1) /\ b = K * qb + rb
  <2> HIDE DEF K
  <2> QED BY <1>0, DivMod
<1>2. b <= a /\ a <= b + K
  OBVIOUS
<1> HIDE DEF K, qa, qb, ra, rb
<1>3. ASSUME a = b + K PROVE ra = rb
  <2>1. qb + 1 \in Int /\ K * qa + ra = K * (qb + 1) + rb
    BY <1>0, <1>1, <1>3, SMT
  <2> QED BY <2>1, <1>0, <1>1, RemainderUnique, Zenon
<1>4. ASSUME ra = rb PROVE a = b \/ a = b + K
  <2> DEFINE d == qa - qb
  <2>1. K * d = a - b
    BY <1>0, <1>1, <1>4, SMT
  <2>2. d = 0 \/ d = 1
    BY <2>1, <1>0, <1>1, <1>2, SmallMultiple
  <2> QED BY <2>1, <2>2, <1>0, <1>1
<1>5. a = b => ra = rb
  BY DEF ra, rb
<1> QED BY <1>3, <1>4, <1>5 DEF ra, rb, K, Slot

\* A slot index is one of the array's.
LEMMA SlotType ==
  ASSUME NEW n \in Nat
  PROVE  Slot(n) \in 0..Capacity
BY DivMod, CapacityAssumption DEF Slot, kSlots

\* A subsequence that reaches the end grows with the sequence.
LEMMA SubSeqOfAppend ==
  ASSUME NEW S, NEW s \in Seq(S), NEW e \in S, NEW i \in Nat, i <= Len(s)
  PROVE  SubSeq(Append(s, e), i + 1, Len(s) + 1) = Append(SubSeq(s, i + 1, Len(s)), e)
<1> DEFINE u == Append(s, e)  n == Len(s)
           a == SubSeq(u, i + 1, n + 1)  b == Append(SubSeq(s, i + 1, n), e)
<1>0. n \in Nat
  BY LenProperties
<1>1. /\ u \in Seq(S) /\ Len(u) = n + 1 /\ u[n + 1] = e
      /\ \A j \in 1..n : u[j] = s[j]
  BY AppendProperties
<1>2. /\ a \in Seq(S) /\ Len(a) = n - i + 1
      /\ \A j \in 1..(n - i + 1) : a[j] = u[i + j]
  <2>1. \A j \in (i + 1)..(n + 1) : u[j] \in S
    BY <1>0, <1>1, ElementOfSeq
  <2> QED BY <1>0, <2>1, SubSeqProperties
<1>3. /\ SubSeq(s, i + 1, n) \in Seq(S) /\ Len(SubSeq(s, i + 1, n)) = n - i
      /\ \A j \in 1..(n - i) : SubSeq(s, i + 1, n)[j] = s[i + j]
  <2>1. \A j \in (i + 1)..n : s[j] \in S
    BY <1>0, ElementOfSeq
  <2> QED BY <1>0, <2>1, SubSeqProperties
<1>4. /\ b \in Seq(S) /\ Len(b) = n - i + 1 /\ b[n - i + 1] = e
      /\ \A j \in 1..(n - i) : b[j] = s[i + j]
  BY <1>0, <1>3, AppendProperties
<1>5. \A j \in 1..(n - i + 1) : a[j] = b[j]
  BY <1>0, <1>1, <1>2, <1>4
<1> HIDE DEF a, b
<1>6. a = b
  BY <1>2, <1>4, <1>5, SeqEqual
<1> QED BY Zenon, <1>6 DEF a, b

\* Head and tail of a subsequence.
LEMMA SubSeqHeadTail ==
  ASSUME NEW S, NEW s \in Seq(S), NEW i \in Nat, i < Len(s)
  PROVE  LET q == SubSeq(s, i + 1, Len(s))
         IN  /\ q # <<>> /\ Head(q) = s[i + 1]
             /\ Tail(q) = SubSeq(s, i + 2, Len(s))
<1>1. \A j \in (i + 1)..Len(s) : s[j] \in S
  BY LenProperties, ElementOfSeq
<1>2. Len(s) \in Nat /\ i + 1 \in 1..Len(s) /\ Len(s) \in (i + 1)..Len(s)
  BY LenProperties
<1>3. /\ Head(SubSeq(s, i + 1, Len(s))) = s[i + 1]
      /\ Tail(SubSeq(s, i + 1, Len(s))) = SubSeq(s, (i + 1) + 1, Len(s))
  BY <1>2, HeadTailOfSubSeq
<1>4. Len(SubSeq(s, i + 1, Len(s))) = Len(s) - i
  BY <1>1, <1>2, SubSeqProperties
<1>5. SubSeq(s, i + 1, Len(s)) # <<>>
  <2>1. Len(s) - i # 0
    BY <1>2
  <2> QED BY <1>4, <2>1, EmptySeq, Zenon
<1>6. (i + 1) + 1 = i + 2
  OBVIOUS
<1> QED BY <1>3, <1>5, <1>6
-----------------------------------------------------------------------------
(* The inductive invariant.                                                *)

\* An empty ring satisfies the invariant.
LEMMA InitRingInv == RingInit => RingInv
<1> SUFFICES ASSUME RingInit PROVE RingInv
  OBVIOUS
<1>1. RingTypeOK
  BY CapacityAssumption DEF RingInit, RingTypeOK
<1>2. CursorOrder
  BY CapacityAssumption DEF RingInit, CursorOrder
<1>3. FifoDelivery
  BY DEF RingInit, FifoDelivery
<1>4. SlotContents
  BY DEF RingInit, SlotContents
<1> QED BY <1>1, <1>2, <1>3, <1>4 DEF RingInv

\* The types are kept by every access of either thread.
LEMMA NextRingTypeOK ==
  ASSUME RingInv, [RingNext]_ringVars
  PROVE  RingTypeOK'
<1> USE DEF RingInv, RingTypeOK, producerVars, consumerVars
<1>1. ASSUME NEW h \in 0..head, PushFull(h) PROVE RingTypeOK'
  BY <1>1 DEF PushFull, AcquireHead
<1>2. ASSUME NEW v \in Values, NEW h \in 0..head, PushBegin(v, h) PROVE RingTypeOK'
  BY <1>2 DEF PushBegin, AcquireHead
<1>3. CASE WriteSlot
  BY SMTT(30), <1>3, SlotType DEF WriteSlot
<1>4. CASE PublishTail
  BY <1>4 DEF PublishTail
<1>5. ASSUME NEW t \in 0..tail, PopEmpty(t) PROVE RingTypeOK'
  BY <1>5 DEF PopEmpty, AcquireTail
<1>6. ASSUME NEW t \in 0..tail, PopBegin(t) PROVE RingTypeOK'
  BY <1>6 DEF PopBegin, AcquireTail
<1>7. CASE ReadSlot
  BY Zenon, <1>7, SlotType DEF ReadSlot
<1>8. CASE PublishHead
  <2>1. cval \in Values
    BY <1>8 DEF PublishHead, CursorOrder, FifoDelivery, SlotContents
  <2> QED BY <1>8, <2>1 DEF PublishHead
<1>9. CASE UNCHANGED ringVars
  BY <1>9 DEF ringVars
<1> QED BY <1>1, <1>2, <1>3, <1>4, <1>5, <1>6, <1>7, <1>8, <1>9 DEF RingNext

\* A push goes ahead only if the slot after the one it writes is not one the
\* consumer may still own, as far as the head_ it read tells; a pop goes ahead
\* only if the tail_ it read is past head.
LEMMA FullAndEmptyTests ==
  ASSUME RingInv
  PROVE  /\ \A h \in pSeen..head : Slot(tail + 1) # Slot(h) => tail < h + Capacity
         /\ \A t \in cSeen..tail : Slot(head) # Slot(t) => head < t
<1> USE DEF RingInv, RingTypeOK, CursorOrder, FifoDelivery
<1>1. ASSUME NEW h \in pSeen..head, Slot(tail + 1) # Slot(h)
      PROVE  tail < h + Capacity
  <2>1. /\ tail + 1 \in Nat /\ h \in Nat
        /\ h <= tail + 1 /\ tail + 1 <= h + kSlots
    BY CapacityAssumption DEF kSlots
  <2>2. tail + 1 # h + kSlots
    BY <1>1, <2>1, SlotEqual
  <2> QED BY SMTT(30), <2>1, <2>2, CapacityAssumption DEF kSlots
<1>2. ASSUME NEW t \in cSeen..tail, Slot(head) # Slot(t)
      PROVE  head < t
  BY <1>2
<1> QED BY <1>1, <1>2

\* The views and the cursors keep their order.
LEMMA NextCursorOrder ==
  ASSUME RingInv, [RingNext]_ringVars
  PROVE  CursorOrder'
<1> USE CapacityAssumption DEF RingInv, RingTypeOK, CursorOrder, FifoDelivery, producerVars, consumerVars
<1>1. ASSUME NEW h \in 0..head, PushFull(h) PROVE CursorOrder'
  BY <1>1 DEF PushFull, AcquireHead
<1>2. ASSUME NEW v \in Values, NEW h \in 0..head, PushBegin(v, h) PROVE CursorOrder'
  BY <1>2, FullAndEmptyTests DEF PushBegin, AcquireHead
<1>3. CASE WriteSlot
  BY <1>3 DEF WriteSlot
<1>4. CASE PublishTail
  BY <1>4 DEF PublishTail
<1>5. ASSUME NEW t \in 0..tail, PopEmpty(t) PROVE CursorOrder'
  BY <1>5 DEF PopEmpty, AcquireTail
<1>6. ASSUME NEW t \in 0..tail, PopBegin(t) PROVE CursorOrder'
  BY <1>6, FullAndEmptyTests DEF PopBegin, AcquireTail
<1>7. CASE ReadSlot
  BY <1>7 DEF ReadSlot
<1>8. CASE PublishHead
  BY <1>8 DEF PublishHead
<1>9. CASE UNCHANGED ringVars
  BY <1>9 DEF ringVars
<1> QED BY <1>1, <1>2, <1>3, <1>4, <1>5, <1>6, <1>7, <1>8, <1>9 DEF RingNext

\* The popped values stay a prefix of the pushed ones.
LEMMA NextFifoDelivery ==
  ASSUME RingInv, [RingNext]_ringVars
  PROVE  FifoDelivery'
<1> USE DEF RingInv, RingTypeOK, CursorOrder, FifoDelivery, producerVars, consumerVars
<1>1. CASE PublishTail
  <2>1. /\ tail' = tail + 1 /\ Len(accepted') = tail + 1
        /\ \A k \in 1..tail : accepted'[k] = accepted[k]
        /\ UNCHANGED <<head, received>>
    <3>1. pval \in Values
      BY <1>1 DEF PublishTail
    <3> QED BY <1>1, <3>1, AppendProperties DEF PublishTail
  <2> QED BY <2>1
<1>2. CASE PublishHead
  <2>1. cval \in Values /\ cval = accepted[head + 1] /\ head < tail
    BY <1>2 DEF PublishHead, SlotContents
  <2> QED BY <1>2, <2>1 DEF PublishHead
<1>3. ASSUME UNCHANGED <<tail, head, accepted, received>> PROVE FifoDelivery'
  BY <1>3
<1>4. CASE WriteSlot \/ ReadSlot \/ UNCHANGED ringVars
  BY <1>3, <1>4 DEF WriteSlot, ReadSlot, ringVars
<1>5. ASSUME NEW h \in 0..head, PushFull(h) \/ \E v \in Values : PushBegin(v, h)
      PROVE  FifoDelivery'
  BY <1>3, <1>5 DEF PushFull, PushBegin
<1>6. ASSUME NEW t \in 0..tail, PopEmpty(t) \/ PopBegin(t) PROVE FifoDelivery'
  BY <1>3, <1>6 DEF PopEmpty, PopBegin
<1> QED BY <1>1, <1>2, <1>4, <1>5, <1>6 DEF RingNext

\* Less than one lap holds no slot twice.
LEMMA LapSlotsDistinct ==
  ASSUME NEW lo \in Nat, NEW hi \in Nat, hi < lo + kSlots
  PROVE  \A j, k \in lo..hi : j # k => Slot(j) # Slot(k)
<1> SUFFICES ASSUME NEW j \in lo..hi, NEW k \in lo..hi, j # k
             PROVE  Slot(j) # Slot(k)
  OBVIOUS
<1>0. kSlots \in Nat
  BY CapacityAssumption DEF kSlots
<1>1. CASE j < k
  BY <1>0, <1>1, SlotEqual
<1>2. CASE k < j
  BY <1>0, <1>2, SlotEqual
<1> QED BY <1>1, <1>2

\* The slots keep the values that are on their way.
LEMMA NextSlotContents ==
  ASSUME RingInv, [RingNext]_ringVars
  PROVE  SlotContents'
<1> USE DEF RingInv, RingTypeOK, CursorOrder, FifoDelivery, SlotContents, producerVars, consumerVars
<1>a. tail < head + kSlots /\ \A n \in Nat : Slot(n) \in 0..Capacity
  BY CapacityAssumption, SlotType DEF kSlots
<1>b. \A j, k \in head..tail : j # k => Slot(j) # Slot(k)
  BY <1>a, LapSlotsDistinct
<1>1. CASE WriteSlot
  <2>1. \A k \in head..(tail - 1) : Slot(k) # Slot(tail)
    BY <1>b
  <2>2. buffer' = [buffer EXCEPT ![Slot(tail)] = pval] /\ Slot(tail) \in DOMAIN buffer
    BY <1>a, <1>1 DEF WriteSlot
  <2>3. /\ buffer'[Slot(tail)] = pval
        /\ \A k \in head..(tail - 1) : buffer'[Slot(k)] = buffer[Slot(k)]
    BY <2>1, <2>2, <1>a
  <2>4. UNCHANGED <<tail, head, pval, cpc, cval, accepted>>
    BY <1>1 DEF WriteSlot
  <2> QED BY <2>3, <2>4
<1>2. CASE PublishTail
  <2>1. tail' = tail + 1 /\ Len(accepted') = tail + 1 /\ accepted'[tail + 1] = pval
        /\ \A k \in 1..tail : accepted'[k] = accepted[k]
    BY <1>2 DEF PublishTail
  <2> QED BY <1>2, <2>1 DEF PublishTail
<1>3. CASE ReadSlot
  <2>1. head < tail
    BY <1>3 DEF ReadSlot
  <2>2. \A k \in (head + 1)..tail : Slot(k) # Slot(head)
    BY <1>b, <2>1
  <2>3. \A k \in (head + 1)..tail : buffer'[Slot(k)] = buffer[Slot(k)]
    BY <1>a, <1>3, <2>2 DEF ReadSlot
  <2>4. cval' = accepted[head + 1]
    BY <1>3, <2>1 DEF ReadSlot
  <2> QED BY <1>3, <2>1, <2>3, <2>4 DEF ReadSlot
<1>4. CASE PublishHead
  BY <1>4 DEF PublishHead
<1>5. ASSUME NEW h \in 0..head, PushFull(h) \/ \E v \in Values : PushBegin(v, h)
      PROVE  SlotContents'
  BY Zenon, <1>5 DEF PushFull, PushBegin
<1>6. ASSUME NEW t \in 0..tail, PopEmpty(t) \/ PopBegin(t) PROVE SlotContents'
  BY Zenon, <1>6 DEF PopEmpty, PopBegin
<1>7. CASE UNCHANGED ringVars
  BY <1>7 DEF ringVars
<1> QED BY <1>1, <1>2, <1>3, <1>4, <1>5, <1>6, <1>7 DEF RingNext

\* The invariant holds throughout.
THEOREM RingInvariance == RingSpec => []RingInv
<1>1. RingInv /\ [RingNext]_ringVars => RingInv'
  BY NextRingTypeOK, NextCursorOrder, NextFifoDelivery, NextSlotContents DEF RingInv
<1> QED BY InitRingInv, <1>1, PTL DEF RingSpec

-----------------------------------------------------------------------------
(* What the invariant gives.                                               *)

\* Type correctness, for every capacity.
THEOREM RingTypeCorrect == RingSpec => []RingTypeOK
BY RingInvariance, PTL DEF RingInv

\* The plain accesses to the slots never race, however stale the cursors the
\* two threads read.
THEOREM RaceFree == RingSpec => []NoDataRace
<1>1. RingInv => NoDataRace
  BY CapacityAssumption DEF RingInv, RingTypeOK, CursorOrder, NoDataRace, kSlots
<1> QED BY <1>1, RingInvariance, PTL

\* The producer and the consumer are never at the same slot.
THEOREM ThreadsApart == RingSpec => []DistinctSlots
<1>1. ASSUME RingInv, ppc \in {"write", "publish"}, cpc = "read"
      PROVE  Slot(tail) # Slot(head)
  <2>1. /\ tail \in Nat /\ head \in Nat
        /\ head < tail /\ tail < head + kSlots
    BY <1>1, CapacityAssumption DEF RingInv, RingTypeOK, CursorOrder, kSlots
  <2> QED BY <2>1, LapSlotsDistinct
<1>2. RingInv => DistinctSlots
  BY <1>1 DEF DistinctSlots
<1> QED BY <1>2, RingInvariance, PTL

\* Pops return the pushed values, in order and without loss.
THEOREM InOrderDelivery == RingSpec => []FifoDelivery
BY RingInvariance, PTL DEF RingInv

\* The ring implements a bounded FIFO: a store of tail_ is a push, a store of
\* head_ a pop, every other access a stutter.
THEOREM Refinement == RingSpec => RefinesFifo
<1> DEFINE q == SubSeq(accepted, head + 1, tail)
<1>1. RingInit => Fifo!FifoInit
  BY SubSeqEmpty DEF RingInit, Fifo!FifoInit
<1>2. ASSUME RingInv, [RingNext]_ringVars
      PROVE  [Fifo!FifoNext]_(Fifo!fifoVars)
  <2> USE <1>2 DEF producerVars, consumerVars
  <2>0. /\ tail \in Nat /\ head \in Nat /\ head <= tail /\ tail = Len(accepted)
        /\ accepted \in Seq(Values) /\ received \in Seq(Values)
        /\ q \in Seq(Values) /\ Len(q) = tail - head
    <3>1. /\ tail \in Nat /\ head \in Nat /\ head <= tail /\ tail = Len(accepted)
          /\ accepted \in Seq(Values) /\ received \in Seq(Values)
      BY DEF RingInv, RingTypeOK, FifoDelivery
    <3>2. \A i \in (head + 1)..tail : accepted[i] \in Values
      BY <3>1, ElementOfSeq
    <3> QED BY <3>1, <3>2, SubSeqProperties
  <2>1. CASE PublishTail
    <3>1. /\ pval \in Values /\ tail < head + Capacity
          /\ tail' = tail + 1 /\ accepted' = Append(accepted, pval)
          /\ UNCHANGED <<head, received>>
      BY <2>1, CapacityAssumption DEF PublishTail, RingInv, RingTypeOK, CursorOrder
    <3>2. q' = Append(q, pval)
      BY Zenon, <2>0, <3>1, SubSeqOfAppend
    <3>3. Len(q) < Capacity
      BY <2>0, <3>1, CapacityAssumption
    <3>4. Fifo!Push(pval)
      BY <3>1, <3>2, <3>3, Zenon DEF Fifo!Push
    <3> QED BY <3>1, <3>4 DEF Fifo!FifoNext
  <2>2. CASE PublishHead
    <3>1. /\ head < tail /\ cval = accepted[head + 1]
          /\ head' = head + 1 /\ received' = Append(received, cval)
          /\ UNCHANGED <<tail, accepted>>
      BY <2>2 DEF PublishHead, RingInv, RingTypeOK, CursorOrder, SlotContents
    <3>2. Head(q) = accepted[head + 1] /\ Tail(q) = q' /\ q # <<>>
      BY <2>0, <3>1, SubSeqHeadTail
    <3>3. Fifo!Pop
      BY Zenon, <3>1, <3>2 DEF Fifo!Pop
    <3> QED BY <3>3 DEF Fifo!FifoNext
  <2>3. ASSUME UNCHANGED <<tail, head, accepted, received>>
        PROVE  UNCHANGED Fifo!fifoVars
    BY <2>3 DEF Fifo!fifoVars
  <2>4. CASE WriteSlot \/ ReadSlot \/ UNCHANGED ringVars
    BY <2>3, <2>4 DEF WriteSlot, ReadSlot, ringVars
  <2>5. ASSUME NEW h \in 0..head, PushFull(h) \/ \E v \in Values : PushBegin(v, h)
        PROVE  UNCHANGED Fifo!fifoVars
    BY <2>3, <2>5 DEF PushFull, PushBegin
  <2>6. ASSUME NEW t \in 0..tail, PopEmpty(t) \/ PopBegin(t)
        PROVE  UNCHANGED Fifo!fifoVars
    BY <2>3, <2>6 DEF PopEmpty, PopBegin
  <2> QED BY <2>1, <2>2, <2>4, <2>5, <2>6 DEF RingNext
<1> QED BY <1>1, <1>2, RingInvariance, PTL DEF RingSpec, RefinesFifo, Fifo!FifoSpec

-----------------------------------------------------------------------------
(* Sequences without a type: IsSequence(s) only says that s is one. *)

\* The empty sequence is one.
LEMMA EmptyIsSequence == IsSequence(<<>>) /\ Len(<<>>) = 0
  BY DEF IsSequence

\* So is every member of a Seq(S).
LEMMA SequenceIntro ==
  ASSUME NEW S, NEW t \in Seq(S)
  PROVE  IsSequence(t)
<1> DEFINE T == {t[k] : k \in DOMAIN t}
<1>1. Len(t) \in Nat /\ DOMAIN t = 1..Len(t) /\ t \in [1..Len(t) -> S]
  BY LenProperties
<1>2. t \in [1..Len(t) -> T]
  BY <1>1
<1> HIDE DEF T
<1>3. t \in Seq(T)
  BY <1>1, <1>2
<1> QED  BY <1>3 DEF IsSequence, T

\* The length and the domain of a sequence.
LEMMA SequenceFacts ==
  ASSUME NEW s, IsSequence(s)
  PROVE  Len(s) \in Nat /\ DOMAIN s = 1..Len(s)
<1> DEFINE S == {s[k] : k \in DOMAIN s}
<1>1. s \in Seq(S)  BY DEF IsSequence
<1> QED  BY <1>1, LenProperties

\* The length and the entries of a sequence with one more element.
LEMMA AppendIsSequence ==
  ASSUME NEW s, IsSequence(s), NEW e
  PROVE  /\ IsSequence(Append(s, e))
         /\ Len(Append(s, e)) = Len(s) + 1
         /\ \A k \in 1..Len(s) : Append(s, e)[k] = s[k]
         /\ Append(s, e)[Len(s) + 1] = e
<1> DEFINE S == {s[k] : k \in DOMAIN s} \union {e}
           t == Append(s, e)
<1>1. s \in Seq(S)
  <2>1. s \in Seq({s[k] : k \in DOMAIN s})  BY DEF IsSequence
  <2> QED  BY <2>1
<1>2. t \in Seq(S) /\ Len(t) = Len(s) + 1
  BY <1>1, AppendProperties
<1>3. \A k \in 1..Len(s) : t[k] = s[k]
  BY <1>1, AppendProperties
<1>4. t[Len(s) + 1] = e
  BY <1>1, AppendProperties
<1>5. IsSequence(t)
  BY Zenon, <1>2, SequenceIntro
<1> QED  BY <1>2, <1>3, <1>4, <1>5

\* The length and the entries of a sequence without its first element.
LEMMA TailIsSequence ==
  ASSUME NEW s, IsSequence(s), Len(s) > 0
  PROVE  /\ IsSequence(Tail(s))
         /\ Len(Tail(s)) = Len(s) - 1
         /\ \A k \in 1..(Len(s) - 1) : Tail(s)[k] = s[k + 1]
         /\ Head(s) = s[1]
<1> DEFINE S == {s[k] : k \in DOMAIN s}
           t == Tail(s)
<1>1. s \in Seq(S)  BY DEF IsSequence
<1>2. s # <<>>  BY EmptyIsSequence
<1>3. t \in Seq(S) /\ Len(t) = Len(s) - 1
  BY <1>1, <1>2, HeadTailProperties
<1>4. \A k \in 1..(Len(s) - 1) : t[k] = s[k + 1]
  BY <1>1, <1>2, <1>3, HeadTailProperties
<1>5. Head(s) = s[1]
  BY <1>1, <1>2
<1>6. IsSequence(t)
  BY Zenon, <1>3, SequenceIntro
<1> QED  BY <1>3, <1>4, <1>5, <1>6

-----------------------------------------------------------------------------
\* Before the first command every ring is empty and nothing is done.
LEMMA InitIInv == Init => IInv
<1> SUFFICES ASSUME Init PROVE IInv
  OBVIOUS
<1>1. IsSequence(commands) /\ Len(commands) \in Nat
  BY StreamsAssumption, SequenceFacts DEF Init
<1>2. IsSequence(states) /\ Len(states) = 1 /\ states[1] = InitialEngine
  <2>1. states = <<InitialEngine>> /\ states \in Seq({InitialEngine})
    BY DEF Init
  <2> QED  BY Zenon, <2>1, SequenceIntro
<1>3. TypeOK
  <2>1. inbound = <<>> /\ outbound = <<>> /\ sink = <<>>
    BY DEF Init
  <2>2. IsSequence(inbound) /\ IsSequence(outbound) /\ IsSequence(sink)
    BY <2>1, EmptyIsSequence
  <2>3. Len(inbound) = 0 /\ Len(outbound) = 0
    BY <2>1, EmptyIsSequence
  <2>4. inputDone \in BOOLEAN /\ engineDone \in BOOLEAN
    BY Zenon DEF Init
  <2>5. next \in 1..(Len(commands) + 1) /\ eSeen \in 0..Len(inbound) /\ oSeen \in 0..Len(outbound)
    BY <1>1, <2>3 DEF Init
  <2>6. ipc = "push" /\ epc = "poll" /\ opc = "poll" /\ Len(states) > 0
    BY <1>2 DEF Init
  <2> QED  BY <1>1, <1>2, <2>2, <2>4, <2>5, <2>6 DEF TypeOK
<1>4. Applied = 0
  BY <1>2 DEF Applied
<1>5. SequentialRun
  BY <1>1, <1>2, <1>4 DEF SequentialRun
<1>6. SinkInOrder
  BY <1>4, EmptyIsSequence DEF Init, SinkInOrder
<1>7. InFlight
  BY <1>2, <1>4, EmptyIsSequence DEF Init, InFlight, Holding
<1>8. Shutdown
  BY EmptyIsSequence DEF Init, Shutdown
<1> QED  BY <1>3, <1>5, <1>6, <1>7, <1>8 DEF IInv

\* The lengths that the arithmetic below is about.
LEMMA Lengths ==
  ASSUME TypeOK
  PROVE  /\ Len(commands) \in Nat /\ Len(inbound) \in Nat /\ Len(outbound) \in Nat
         /\ Len(sink) \in Nat /\ Len(states) \in Nat
  BY SequenceFacts DEF TypeOK

\* The input thread pushes the next command of the stream.
LEMMA PushInboundStep == IInv /\ PushInbound => IInv'
<1> SUFFICES ASSUME IInv, PushInbound PROVE IInv'
  OBVIOUS
<1> USE DEF IInv, PushInbound, inputVars, engineVars, outputVars
<1>1. /\ Len(commands) \in Nat /\ Len(inbound) \in Nat /\ Len(states) \in Nat
      /\ Len(sink) \in Nat /\ Len(outbound) \in Nat
  BY Lengths
<1>2. /\ IsSequence(inbound') /\ Len(inbound') = Len(inbound) + 1
      /\ \A k \in 1..Len(inbound) : inbound'[k] = inbound[k]
      /\ inbound'[Len(inbound) + 1] = commands[next]
  BY AppendIsSequence DEF TypeOK
<1>3. TypeOK'
  BY SMTT(30), <1>1, <1>2 DEF TypeOK
<1>4. SequentialRun' /\ SinkInOrder'
  BY DEF SequentialRun, SinkInOrder, Applied, RecordOf
<1>5. InFlight'
  <2>1. \A i \in 1..Len(inbound') : inbound'[i] = commands[Applied + i]
    <3> SUFFICES ASSUME NEW i \in 1..Len(inbound') PROVE inbound'[i] = commands[Applied + i]
      OBVIOUS
    <3>1. CASE i \in 1..Len(inbound)
      BY Zenon, <3>1, <1>1, <1>2 DEF InFlight
    <3>2. CASE i = Len(inbound) + 1
      BY <3>2, <1>1, <1>2 DEF InFlight, Applied
    <3> QED  BY <1>1, <1>2, <3>1, <3>2
  <2>2. next' = Applied + Len(inbound') + 1
    BY <1>1, <1>2 DEF InFlight, Applied
  <2> QED  BY <2>1, <2>2 DEF InFlight, Applied, RecordOf, Holding
<1>6. Shutdown'
  BY <1>1, <1>2 DEF Shutdown, TypeOK
<1> QED  BY <1>3, <1>4, <1>5, <1>6

\* The engine thread takes the oldest command and applies it.
LEMMA PopInboundStep ==
  ASSUME IInv, NEW seen \in 0..Len(inbound), PopInbound(seen)
  PROVE  IInv'
<1> DEFINE c == Head(inbound)
           new == Apply(engine, c).engine
<1> USE DEF IInv
<1>1. /\ Len(commands) \in Nat /\ Len(inbound) \in Nat /\ Len(states) \in Nat
      /\ Len(sink) \in Nat /\ Len(outbound) \in Nat
  BY Lengths
<1>2. /\ inbound' = Tail(inbound) /\ states' = Append(states, new) /\ engine' = new
      /\ held' = <<Outcome(engine, c)>> /\ eSeen' = seen - 1 /\ seen \in eSeen..Len(inbound)
      /\ epc' = (IF epc = "poll" THEN "push" ELSE "pushDrained")
      /\ epc \in {"poll", "drain"} /\ seen > 0
      /\ UNCHANGED <<commands, ipc, next, inputDone, snapshot, engineDone, outbound, oSeen,
                     opc, sink>>
  BY DEF PopInbound, Process, inputVars, outputVars
<1>3. /\ IsSequence(inbound') /\ Len(inbound') = Len(inbound) - 1
      /\ \A k \in 1..(Len(inbound) - 1) : inbound'[k] = inbound[k + 1]
      /\ c = inbound[1]
  <2>1. IsSequence(inbound) /\ Len(inbound) > 0
    BY SMTT(30), <1>1, <1>2 DEF TypeOK
  <2> QED  BY <2>1, <1>2, TailIsSequence
<1>4. /\ IsSequence(states') /\ Len(states') = Len(states) + 1
      /\ \A k \in 1..Len(states) : states'[k] = states[k]
      /\ states'[Len(states) + 1] = new
  BY <1>2, AppendIsSequence DEF TypeOK
<1>5. TypeOK'
  BY <1>1, <1>2, <1>3, <1>4 DEF TypeOK
<1>6. /\ c = commands[Applied + 1] /\ engine = states[Applied + 1]
      /\ Applied \in Nat /\ Applied' = Applied + 1 /\ Applied + 1 <= Len(commands)
  <2>1. Len(inbound) > 0 /\ next <= Len(commands) + 1
    BY <1>1, <1>2 DEF TypeOK
  <2>2. Applied \in Nat /\ Applied' = Applied + 1
    BY SMTT(30), <1>1, <1>4 DEF Applied, TypeOK
  <2>3. /\ next = Applied + Len(inbound) + 1 /\ engine = states[Applied + 1]
        /\ \A i \in 1..Len(inbound) : inbound[i] = commands[Applied + i]
    BY DEF InFlight
  <2>4. /\ 1 \in 1..Len(inbound) /\ Applied + 1 <= Len(commands)
    BY <1>1, <2>1, <2>2, <2>3
  <2> QED  BY Zenon, <1>3, <2>2, <2>3, <2>4
<1>7. SequentialRun'
  BY SMTT(30), <1>1, <1>2, <1>4, <1>6 DEF SequentialRun, Applied
<1>8. \A k \in 1..Applied : Outcome(states'[k], commands'[k]) = Outcome(states[k], commands[k])
  BY <1>1, <1>2, <1>4, <1>6 DEF Applied
<1>9. SinkInOrder'
  <2>1. \A k \in 1..Len(sink) : sink[k] = Outcome(states[k], commands[k])
    BY DEF SinkInOrder, RecordOf
  <2>2. Len(sink) <= Applied
    BY DEF SinkInOrder
  <2>3. \A k \in 1..Len(sink) : sink[k] = Outcome(states'[k], commands'[k])
    BY <1>1, <1>6, <1>8, <2>1, <2>2
  <2>4. sink' = sink
    BY <1>2
  <2>5. Len(sink') <= Applied'
    BY <1>1, <1>6, <2>2, <2>4
  <2> QED  BY <2>3, <2>4, <2>5 DEF SinkInOrder, RecordOf
<1>10. InFlight'
  <2>1. RecordOf(Applied)' = Outcome(engine, c)
    <3>1. states'[Applied'] = engine /\ commands'[Applied'] = c
      BY <1>1, <1>2, <1>4, <1>6 DEF Applied
    <3> QED  BY <3>1 DEF RecordOf
  <2>2. /\ ~Holding /\ Holding'
        /\ Applied = Len(sink) + Len(outbound)
    <3>1. ~Holding /\ Holding'
      BY <1>2 DEF Holding
    <3>2. Applied = Len(sink) + Len(outbound) + (IF Holding THEN 1 ELSE 0)
      BY DEF InFlight
    <3> QED  BY <1>1, <3>1, <3>2
  <2>3. \A i \in 1..Len(outbound) :
          outbound[i] = Outcome(states'[Len(sink) + i], commands'[Len(sink) + i])
    <3> SUFFICES ASSUME NEW i \in 1..Len(outbound)
                 PROVE  outbound[i] = Outcome(states'[Len(sink) + i], commands'[Len(sink) + i])
      OBVIOUS
    <3>1. Len(sink) + i \in 1..Applied
      BY <1>1, <2>2
    <3>2. outbound[i] = Outcome(states[Len(sink) + i], commands[Len(sink) + i])
      BY DEF InFlight, RecordOf
    <3> QED  BY <3>1, <3>2, <1>8
  <2>4. \A i \in 1..Len(inbound') : inbound'[i] = commands[Applied' + i]
    <3> SUFFICES ASSUME NEW i \in 1..Len(inbound') PROVE inbound'[i] = commands[Applied' + i]
      OBVIOUS
    <3>1. i + 1 \in 1..Len(inbound) /\ i \in 1..(Len(inbound) - 1)
      BY <1>1, <1>3
    <3>2. inbound[i + 1] = commands[Applied + (i + 1)]
      BY <3>1 DEF InFlight
    <3>3. Applied + (i + 1) = Applied' + i
      BY <1>6
    <3> QED  BY <3>1, <3>2, <3>3, <1>3
  <2>5. engine' = states'[Applied' + 1]
    BY <1>1, <1>2, <1>4 DEF Applied
  <2>6. next' = Applied' + Len(inbound') + 1
    <3>1. next = Applied + Len(inbound) + 1
      BY SMTT(30) DEF InFlight
    <3>2. next' = next
      BY <1>2
    <3>3. Len(inbound') = Len(inbound) - 1 /\ Applied' = Applied + 1 /\ Applied \in Nat
      BY <1>3, <1>6
    <3> QED  BY <3>1, <3>2, <3>3, <1>1
  <2> QED  BY ZenonT(60), <1>1, <1>2, <1>6, <2>1, <2>2, <2>3, <2>4, <2>5, <2>6 DEF InFlight, RecordOf
<1>11. Shutdown'
  BY <1>1, <1>2, <1>3 DEF Shutdown
<1> QED  BY <1>5, <1>7, <1>9, <1>10, <1>11

\* The engine thread pushes the record it holds.
LEMMA PushOutboundStep == IInv /\ PushOutbound => IInv'
<1> SUFFICES ASSUME IInv, PushOutbound PROVE IInv'
  OBVIOUS
<1> USE DEF IInv
<1>1. /\ Len(commands) \in Nat /\ Len(inbound) \in Nat /\ Len(states) \in Nat
      /\ Len(sink) \in Nat /\ Len(outbound) \in Nat
  BY Lengths
<1>2. /\ outbound' = Append(outbound, held[1])
      /\ epc' = (IF epc = "push" THEN "poll" ELSE "drain")
      /\ epc \in {"push", "pushDrained"}
      /\ UNCHANGED <<commands, ipc, next, inputDone, inbound, eSeen, engine, snapshot,
                     engineDone, states, oSeen, opc, sink>>
  BY DEF PushOutbound, inputVars, outputVars
<1>3. /\ Holding /\ ~Holding'
      /\ Applied = Len(sink) + Len(outbound) + 1
      /\ held[1] = RecordOf(Applied)
  BY <1>1, <1>2 DEF Holding, InFlight
<1>4. /\ IsSequence(outbound') /\ Len(outbound') = Len(outbound) + 1
      /\ \A k \in 1..Len(outbound) : outbound'[k] = outbound[k]
      /\ outbound'[Len(outbound) + 1] = held[1]
  BY <1>2, AppendIsSequence DEF TypeOK
<1>5. TypeOK'
  BY SMTT(30), <1>1, <1>2, <1>4 DEF TypeOK
<1>6. SequentialRun' /\ SinkInOrder'
  BY SMTT(30), <1>2 DEF SequentialRun, SinkInOrder, Applied, RecordOf
<1>7. InFlight'
  <2>1. \A i \in 1..Len(outbound') : outbound'[i] = RecordOf(Len(sink) + i)
    <3> SUFFICES ASSUME NEW i \in 1..Len(outbound')
                 PROVE  outbound'[i] = RecordOf(Len(sink) + i)
      OBVIOUS
    <3>1. CASE i \in 1..Len(outbound)
      BY <3>1, <1>1, <1>4 DEF InFlight
    <3>2. CASE i = Len(outbound) + 1
      BY <3>2, <1>1, <1>3, <1>4
    <3> QED  BY <1>1, <1>4, <3>1, <3>2
  <2>2. Applied = Len(sink) + Len(outbound')
    BY <1>1, <1>3, <1>4
  <2>3. /\ next = Applied + Len(inbound) + 1
        /\ \A i \in 1..Len(inbound) : inbound[i] = commands[Applied + i]
        /\ engine = states[Applied + 1]
    BY DEF InFlight
  <2> QED  BY SMTT(30), <1>1, <1>2, <1>3, <1>4, <2>1, <2>2, <2>3 DEF InFlight, Applied, RecordOf
<1>8. Shutdown'
  BY SMTT(30), <1>1, <1>2, <1>4 DEF Shutdown
<1> QED  BY <1>5, <1>6, <1>7, <1>8

\* The publisher thread takes the oldest record.
LEMMA PopOutboundStep ==
  ASSUME IInv, NEW seen \in 0..Len(outbound), PopOutbound(seen)
  PROVE  IInv'
<1> USE DEF IInv
<1>1. /\ Len(commands) \in Nat /\ Len(inbound) \in Nat /\ Len(states) \in Nat
      /\ Len(sink) \in Nat /\ Len(outbound) \in Nat
  BY SMTT(30), Lengths
<1>2. /\ outbound' = Tail(outbound) /\ sink' = Append(sink, Head(outbound))
      /\ oSeen' = seen - 1 /\ seen \in oSeen..Len(outbound)
      /\ opc \in {"poll", "drain"} /\ seen > 0
      /\ UNCHANGED <<commands, ipc, next, inputDone, inbound, eSeen, epc, engine, held,
                     snapshot, engineDone, states, opc>>
  BY SMTT(30) DEF PopOutbound, inputVars, engineVars
<1>3. /\ IsSequence(outbound') /\ Len(outbound') = Len(outbound) - 1
      /\ \A k \in 1..(Len(outbound) - 1) : outbound'[k] = outbound[k + 1]
      /\ Head(outbound) = outbound[1]
  <2>1. IsSequence(outbound) /\ Len(outbound) > 0
    BY <1>1, <1>2 DEF TypeOK
  <2> QED  BY Zenon, <2>1, <1>2, TailIsSequence
<1>4. /\ IsSequence(sink') /\ Len(sink') = Len(sink) + 1
      /\ \A k \in 1..Len(sink) : sink'[k] = sink[k]
      /\ sink'[Len(sink) + 1] = outbound[1]
  <2>1. IsSequence(sink) /\ sink' = Append(sink, outbound[1])
    BY <1>2, <1>3 DEF TypeOK
  <2> QED  BY <2>1, AppendIsSequence
<1>5. TypeOK'
  BY SMTT(30), <1>1, <1>2, <1>3, <1>4 DEF TypeOK
<1>6. \A i \in 1..Len(outbound) : outbound[i] = RecordOf(Len(sink) + i)
  BY DEF InFlight
<1>7. SequentialRun'
  BY <1>2 DEF SequentialRun, Applied
<1>8. SinkInOrder'
  <2>1. \A k \in 1..Len(sink') : sink'[k] = RecordOf(k)
    <3> SUFFICES ASSUME NEW k \in 1..Len(sink') PROVE sink'[k] = RecordOf(k)
      OBVIOUS
    <3>1. CASE k \in 1..Len(sink)
      BY <3>1, <1>4 DEF SinkInOrder
    <3>2. CASE k = Len(sink) + 1
      <4>1. 1 \in 1..Len(outbound)
        BY SMTT(30), <1>1, <1>2 DEF TypeOK
      <4> QED  BY <4>1, <3>2, <1>4, <1>6
    <3> QED  BY <1>1, <1>4, <3>1, <3>2
  <2>2. Len(sink') <= Applied
    <3>1. Applied = Len(sink) + Len(outbound) + (IF Holding THEN 1 ELSE 0)
      BY DEF InFlight
    <3>2. Len(outbound) > 0
      BY <1>1, <1>2 DEF TypeOK
    <3> QED  BY <3>1, <3>2, <1>1, <1>4
  <2> QED  BY <1>2, <2>1, <2>2 DEF SinkInOrder, RecordOf, Applied
<1>9. InFlight'
  <2>1. \A i \in 1..Len(outbound') : outbound'[i] = RecordOf(Len(sink') + i)
    <3> SUFFICES ASSUME NEW i \in 1..Len(outbound')
                 PROVE  outbound'[i] = RecordOf(Len(sink') + i)
      OBVIOUS
    <3>1. i + 1 \in 1..Len(outbound) /\ i \in 1..(Len(outbound) - 1)
      BY <1>1, <1>3
    <3>2. Len(sink) + (i + 1) = Len(sink') + i
      BY SMTT(30), <1>1, <1>4
    <3> QED  BY <3>1, <3>2, <1>3, <1>6
  <2>2. Applied = Len(sink') + Len(outbound') + (IF Holding THEN 1 ELSE 0)
    BY SMTT(30), <1>1, <1>3, <1>4 DEF InFlight
  <2> QED  BY Zenon, <1>2, <2>1, <2>2 DEF InFlight, Applied, RecordOf, Holding
<1>10. Shutdown'
  BY <1>1, <1>2, <1>3 DEF Shutdown
<1> QED  BY <1>5, <1>7, <1>8, <1>9, <1>10

\* The steps that move no element: they only change program counters, flags,
\* the snapshot and what a thread is sure to see.
LEMMA ControlSteps ==
  ASSUME IInv,
         \/ StoreInputDone \/ PopInboundEmpty \/ InputNotDone \/ AcquireInputDone
         \/ StoreEngineDone \/ PopOutboundEmpty \/ EngineNotDone \/ AcquireEngineDone
         \/ UNCHANGED vars
  PROVE  IInv'
<1> USE DEF IInv
<1>1. /\ Len(commands) \in Nat /\ Len(inbound) \in Nat /\ Len(states) \in Nat
      /\ Len(sink) \in Nat /\ Len(outbound) \in Nat
  BY SMTT(30), Lengths
<1>2. UNCHANGED <<commands, next, inbound, engine, held, states, outbound, sink>>
  BY DEF StoreInputDone, PopInboundEmpty, InputNotDone, AcquireInputDone, StoreEngineDone,
         PopOutboundEmpty, EngineNotDone, AcquireEngineDone, vars, inputVars, engineVars,
         outputVars
<1>3. Holding' = Holding
  BY SMTT(30) DEF StoreInputDone, PopInboundEmpty, InputNotDone, AcquireInputDone,
         StoreEngineDone, PopOutboundEmpty, EngineNotDone, AcquireEngineDone, vars, inputVars, engineVars,
         outputVars, Holding
<1>4. SequentialRun' /\ SinkInOrder'
  <2>1. SequentialRun /\ SinkInOrder
    OBVIOUS
  <2> QED  BY Zenon, <1>2, <2>1 DEF SequentialRun, SinkInOrder, Applied, RecordOf
<1>5. InFlight'
  BY Zenon, <1>2, <1>3 DEF InFlight, Applied, RecordOf
<1>6. CASE StoreInputDone
  BY <1>1, <1>4, <1>5, <1>6 DEF StoreInputDone, engineVars, outputVars, TypeOK, Shutdown
<1>7. CASE PopInboundEmpty
  BY <1>1, <1>4, <1>5, <1>7 DEF PopInboundEmpty, inputVars, outputVars, TypeOK, Shutdown
<1>8. CASE InputNotDone
  BY <1>1, <1>4, <1>5, <1>8 DEF InputNotDone, inputVars, outputVars, TypeOK, Shutdown
<1>9. CASE AcquireInputDone
  BY <1>1, <1>4, <1>5, <1>9 DEF AcquireInputDone, inputVars, outputVars, TypeOK, Shutdown
<1>10. CASE StoreEngineDone
  BY <1>1, <1>4, <1>5, <1>10 DEF StoreEngineDone, inputVars, outputVars, TypeOK, Shutdown
<1>11. CASE PopOutboundEmpty
  BY <1>1, <1>4, <1>5, <1>11 DEF PopOutboundEmpty, inputVars, engineVars, TypeOK, Shutdown
<1>12. CASE EngineNotDone
  BY <1>1, <1>4, <1>5, <1>12 DEF EngineNotDone, inputVars, engineVars, TypeOK, Shutdown
<1>13. CASE AcquireEngineDone
  BY <1>1, <1>4, <1>5, <1>13 DEF AcquireEngineDone, inputVars, engineVars, TypeOK, Shutdown
<1>14. CASE UNCHANGED vars
  BY <1>4, <1>5, <1>14 DEF vars, inputVars, engineVars, outputVars, TypeOK, Shutdown
<1> QED  BY SMTT(30), <1>6, <1>7, <1>8, <1>9, <1>10, <1>11, <1>12, <1>13, <1>14

\* Every step of a thread keeps the invariant.
LEMMA NextIInv == IInv /\ [Next]_vars => IInv'
<1> SUFFICES ASSUME IInv, [Next]_vars PROVE IInv'
  OBVIOUS
<1>1. CASE PushInbound  BY <1>1, PushInboundStep
<1>2. CASE \E seen \in 0..Len(inbound) : PopInbound(seen)  BY <1>2, PopInboundStep
<1>3. CASE PushOutbound  BY <1>3, PushOutboundStep
<1>4. CASE \E seen \in 0..Len(outbound) : PopOutbound(seen)  BY <1>4, PopOutboundStep
<1>5. CASE \/ StoreInputDone \/ PopInboundEmpty \/ InputNotDone \/ AcquireInputDone
           \/ StoreEngineDone \/ PopOutboundEmpty \/ EngineNotDone \/ AcquireEngineDone
           \/ UNCHANGED vars
  BY <1>5, ControlSteps
<1> QED  BY <1>1, <1>2, <1>3, <1>4, <1>5 DEF Next

-----------------------------------------------------------------------------
\* The inductive invariant of the pipeline holds in every reachable state.
THEOREM Invariance == Spec => []IInv
<1>1. IInv /\ [Next]_vars => IInv'  BY NextIInv
<1> QED  BY InitIInv, <1>1, PTL DEF Spec

\* Program counters, flags and views keep their ranges in the three stages.
THEOREM TypeCorrect == Spec => []TypeOK
<1>1. IInv => TypeOK  BY DEF IInv
<1> QED  BY <1>1, Invariance, PTL

\* The engine thread (run_engine_stage) applies the commands once each and in
\* order, and the publisher (run_output_stage) receives the single-threaded
\* run's records, for every timing and ring capacity.
THEOREM Sequential == Spec => []MatchesSequential
<1>1. IInv => MatchesSequential  BY DEF IInv, MatchesSequential
<1> QED  BY <1>1, Invariance, PTL

\* The done flags lose nothing: when run returns every command was applied and
\* published, and the snapshot is the engine after the last one.
THEOREM NothingLost == Spec => []CompleteWhenJoined
<1>1. IInv => CompleteWhenJoined
  <2> SUFFICES ASSUME IInv, Joined
               PROVE  /\ Applied = Len(commands) /\ Len(sink) = Len(commands)
                      /\ snapshot = <<states[Len(states)]>>
    BY DEF CompleteWhenJoined
  <2>1. /\ Len(commands) \in Nat /\ Len(states) \in Nat /\ Len(sink) \in Nat
    BY Lengths DEF IInv
  <2>2. /\ Len(inbound) = 0 /\ Len(outbound) = 0 /\ ~Holding
        /\ next = Len(commands) + 1 /\ snapshot = <<engine>>
    BY DEF IInv, Shutdown, Joined, Holding
  <2>3. next = Applied + Len(inbound) + 1 /\ Applied = Len(sink) + Len(outbound)
    BY <2>1, <2>2 DEF IInv, InFlight
  <2>4. engine = states[Applied + 1] /\ Applied + 1 = Len(states)
    BY <2>1 DEF IInv, InFlight, Applied
  <2>5. Applied \in Int
    BY <2>1 DEF Applied
  <2>6. Applied = Len(commands) /\ Len(sink) = Len(commands)
    BY <2>1, <2>2, <2>3, <2>5
  <2> QED  BY <2>2, <2>4, <2>6
<1> QED  BY <1>1, Invariance, PTL
=============================================================================
