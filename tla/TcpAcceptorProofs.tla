-------------------------- MODULE TcpAcceptorProofs --------------------------
(***************************************************************************)
(* For every set of connections, every cap, accept limit and number of     *)
(* descriptors, the threaded server keeps its limits and leaves nothing    *)
(* open or unjoined when it returns: safety of module TcpAcceptor, proved  *)
(* from the inductive invariant IInv.                                      *)
(***************************************************************************)
EXTENDS TcpAcceptor, SequenceTheorems, FiniteSetTheorems, TLAPS

TypeOK ==
  /\ options \in [max_active_connections : Caps, max_accepts : Limits, fds : FdLimits]
  /\ conn \in [Conns -> {"new", "backlog", "held", "served", "shut", "closed", "shed"}]
  /\ pc \in {"accept", "reap", "admit", "join", "returned"}
  /\ held \in {<<>>} \cup {<<c>> : c \in Conns}
  /\ workers \in Seq(Conns) /\ visit \in Nat
  /\ done \subseteq Conns /\ accepted \in Nat

\* This connection's worker is in the vector.
Working(c) == \E k \in 1..Len(workers) : workers[k] = c

\* The acceptor has a connection in hand exactly between accept and admission.
HeldInHand ==
  /\ pc \in {"reap", "admit"} <=> held # <<>>
  /\ \A c \in Conns : conn[c] = "held" <=> held = <<c>>

\* A connection being served has its worker in the vector, and a worker leaves
\* the vector only to be joined, once its thread has closed the connection and ended.
WorkersOwn ==
  /\ \A c \in Conns : conn[c] \in {"served", "shut"} => Working(c)
  /\ \A c \in Conns : conn[c] = "closed" => Working(c) \/ c \in joined
  /\ \A c \in done : conn[c] = "closed"
  /\ pc = "returned" => workers = <<>>

\* The vector is within the cap; while the loop runs, the accept limit is ahead.
WithinLimits ==
  /\ options.max_active_connections # 0 => Len(workers) <= options.max_active_connections
  /\ options.max_accepts # 0 =>
       /\ accepted <= options.max_accepts
       /\ pc \notin {"join", "returned"} => accepted < options.max_accepts

IInv == TypeOK /\ HeldInHand /\ WorkersOwn /\ WithinLimits

-----------------------------------------------------------------------------
(* Sequences.                                                              *)

\* Erasing a worker from the vector moves those behind it up by one.
LEMMA RemoveAtFacts ==
  ASSUME NEW S, NEW s \in Seq(S), NEW i \in 1..Len(s)
  PROVE  /\ RemoveAt(s, i) \in Seq(S)
         /\ Len(RemoveAt(s, i)) = Len(s) - 1
         /\ \A k \in 1..(Len(s) - 1) :
              RemoveAt(s, i)[k] = IF k < i THEN s[k] ELSE s[k + 1]
<1> DEFINE a == SubSeq(s, 1, i - 1)
           b == SubSeq(s, i + 1, Len(s))
<1>1. Len(s) \in Nat /\ \A k \in 1..Len(s) : s[k] \in S
  BY LenProperties, ElementOfSeq
<1>2. a \in Seq(S) /\ Len(a) = i - 1 /\ \A k \in 1..(i - 1) : a[k] = s[k]
  <2>1. \A k \in 1..(i - 1) : s[k] \in S  BY <1>1
  <2> QED  BY <1>1, <2>1, SubSeqProperties
<1>3. b \in Seq(S) /\ Len(b) = Len(s) - i /\ \A k \in 1..(Len(s) - i) : b[k] = s[i + k]
  <2>1. \A k \in (i + 1)..Len(s) : s[k] \in S  BY <1>1
  <2>2. /\ b \in Seq(S)
        /\ Len(b) = IF i + 1 <= Len(s) THEN Len(s) - (i + 1) + 1 ELSE 0
        /\ \A k \in 1..(Len(s) - (i + 1) + 1) : b[k] = s[(i + 1) + k - 1]
    BY <1>1, <2>1, SubSeqProperties
  <2> QED  BY <1>1, <2>2
<1> HIDE DEF a, b
<1>4. RemoveAt(s, i) = a \o b
  BY DEF RemoveAt, a, b
<1>5. /\ a \o b \in Seq(S) /\ Len(a \o b) = Len(a) + Len(b)
      /\ \A k \in 1..(Len(a) + Len(b)) :
           (a \o b)[k] = IF k <= Len(a) THEN a[k] ELSE b[k - Len(a)]
  BY Zenon, <1>2, <1>3, ConcatProperties
<1>6. ASSUME NEW k \in 1..(Len(s) - 1)
      PROVE  (a \o b)[k] = IF k < i THEN s[k] ELSE s[k + 1]
  <2>1. CASE k < i
    BY <1>1, <1>2, <1>3, <1>5, <2>1
  <2>2. CASE ~(k < i)
    <3>1. k - (i - 1) \in 1..(Len(s) - i) /\ i + (k - (i - 1)) = k + 1
      BY <1>1, <2>2
    <3>2. b[k - (i - 1)] = s[k + 1]
      BY <1>3, <3>1
    <3>3. (a \o b)[k] = b[k - (i - 1)]
      BY <1>1, <1>2, <1>3, <1>5, <2>2
    <3> QED  BY <2>2, <3>2, <3>3
  <2> QED  BY Zenon, <2>1, <2>2
<1> QED  BY <1>1, <1>2, <1>3, <1>4, <1>5, <1>6

\* A vector has at least as many entries as distinct elements.
LEMMA DistinctAtMostLen ==
  ASSUME NEW S, NEW s \in Seq(S), NEW T, \A x \in T : \E k \in 1..Len(s) : s[k] = x
  PROVE  Cardinality(T) <= Len(s) /\ Cardinality(T) \in Nat
<1> DEFINE R == {s[k] : k \in 1..Len(s)}
<1>1. Len(s) \in Nat
  BY LenProperties
<1>2. IsFiniteSet(1..Len(s)) /\ Cardinality(1..Len(s)) = Len(s)
  BY SMTT(30), <1>1, FS_Interval
<1>3. IsFiniteSet(R) /\ Cardinality(R) <= Len(s) /\ Cardinality(R) \in Nat
  <2>1. s \in [1..Len(s) -> S]
    BY LenProperties
  <2>2. s \in Surjection(1..Len(s), R)
    BY <2>1 DEF Surjection
  <2>3. IsFiniteSet(R) /\ Cardinality(R) <= Cardinality(1..Len(s))
    BY <1>2, <2>2, FS_Surjection DEF ExistsSurjection
  <2> QED  BY <1>2, <2>3, FS_CardinalityType
<1>4. T \subseteq R
  OBVIOUS
<1> HIDE DEF R
<1>5. Cardinality(T) <= Cardinality(R) /\ Cardinality(T) \in Nat
  BY <1>3, <1>4, FS_Subset, FS_CardinalityType
<1> QED  BY <1>1, <1>3, <1>5

-----------------------------------------------------------------------------
(* The invariant.                                                          *)

\* Before the first accept there is no worker.
LEMMA InitIInv == Init => IInv
<1> SUFFICES ASSUME Init PROVE IInv
  OBVIOUS
<1>1. Len(workers) = 0 /\ workers \in Seq(Conns)
  BY DEF Init
<1>2. TypeOK
  BY <1>1 DEF Init, TypeOK
<1>3. HeldInHand
  BY DEF Init, HeldInHand
<1>4. WorkersOwn
  BY DEF Init, WorkersOwn
<1>5. WithinLimits
  <2>1. options.max_active_connections \in Nat /\ options.max_accepts \in Nat
    BY Zenon, <1>2, OptionsAssumption DEF TypeOK
  <2> QED  BY <1>1, <2>1 DEF Init, WithinLimits
<1> QED  BY <1>2, <1>3, <1>4, <1>5 DEF IInv

\* An accepted connection is the one in hand.
LEMMA AcceptRetryStep ==
  ASSUME IInv, NEW c \in Conns, accept_retry(c)
  PROVE  IInv'
<1> USE DEF accept_retry
<1>1. TypeOK'
  BY DEF IInv, TypeOK
<1>2. HeldInHand'
  BY DEF IInv, TypeOK, HeldInHand
<1>3. WorkersOwn'
  BY DEF IInv, TypeOK, WorkersOwn, Working
<1>4. WithinLimits'
  BY DEF IInv, WithinLimits
<1> QED  BY <1>1, <1>2, <1>3, <1>4 DEF IInv

\* Dropping the k-th worker, which has ended, and joining it.
LEMMA JoinedWorker ==
  ASSUME IInv, NEW k \in 1..Len(workers), conn[workers[k]] = "closed",
         workers' \in Seq(Conns), Len(workers') = Len(workers) - 1,
         \A j \in 1..(Len(workers) - 1) :
           workers'[j] = IF j < k THEN workers[j] ELSE workers[j + 1],
         joined' = joined \cup {workers[k]},
         UNCHANGED <<options, conn, pc, held, done, accepted>>,
         pc # "returned"
  PROVE  WorkersOwn' /\ WithinLimits' /\ HeldInHand'
<1>1. Len(workers) \in Nat
  BY LenProperties DEF IInv, TypeOK
<1>2. ASSUME NEW c \in Conns, Working(c), c # workers[k]
      PROVE  Working(c)'
  <2>1. PICK j \in 1..Len(workers) : workers[j] = c
    BY <1>2 DEF Working
  <2>2. CASE j < k
    <3>1. j \in 1..(Len(workers) - 1)  BY <1>1, <2>2
    <3>2. workers'[j] = c  BY <2>1, <2>2, <3>1
    <3> QED  BY <3>1, <3>2 DEF Working
  <2>3. CASE j > k
    <3>1. j - 1 \in 1..(Len(workers) - 1) /\ ~(j - 1 < k) /\ (j - 1) + 1 = j
      BY <1>1, <2>3
    <3>2. workers'[j - 1] = c  BY <2>1, <3>1
    <3> QED  BY <3>1, <3>2 DEF Working
  <2>4. j # k
    BY <1>2, <2>1
  <2> QED  BY <1>1, <2>2, <2>3, <2>4
<1>3. WorkersOwn'
  <2>1. ASSUME NEW c \in Conns, conn[c] \in {"served", "shut"}
        PROVE  Working(c)'
    <3>1. c # workers[k]
      BY <2>1
    <3> QED  BY <1>2, <2>1, <3>1 DEF IInv, WorkersOwn
  <2>2. ASSUME NEW c \in Conns, conn[c] = "closed"
        PROVE  Working(c)' \/ c \in joined'
    BY <1>2, <2>2 DEF IInv, WorkersOwn
  <2> QED  BY <2>1, <2>2 DEF IInv, WorkersOwn
<1>4. WithinLimits'
  <2>1. options.max_active_connections \in Nat
    BY Zenon, OptionsAssumption DEF IInv, TypeOK
  <2> QED  BY <1>1, <2>1 DEF IInv, WithinLimits
<1>5. HeldInHand'
  BY DEF IInv, HeldInHand
<1> QED  BY <1>3, <1>4, <1>5

\* A worker whose flag is set has closed its connection, so it may leave the
\* vector.
LEMMA JoinFinishedStep == IInv /\ join_finished => IInv'
<1> SUFFICES ASSUME IInv, join_finished PROVE IInv'
  OBVIOUS
<1>1. Len(workers) \in Nat /\ visit \in Nat /\ visit + 1 \in 1..Len(workers)
  BY LenProperties DEF IInv, TypeOK, join_finished
<1>2. CASE workers[visit + 1] \in done
  <2>1. /\ joined' = joined \cup {workers[visit + 1]} /\ visit' = visit
        /\ workers' = RemoveAt(workers, visit + 1)
        /\ UNCHANGED <<options, conn, pc, held, done, accepted>> /\ pc # "returned"
    BY <1>2 DEF join_finished
  <2>2. /\ workers' \in Seq(Conns) /\ Len(workers') = Len(workers) - 1
        /\ \A j \in 1..(Len(workers) - 1) :
             workers'[j] = IF j < visit + 1 THEN workers[j] ELSE workers[j + 1]
    <3> DEFINE w == RemoveAt(workers, visit + 1)
    <3>1. workers \in Seq(Conns)  BY DEF IInv, TypeOK
    <3>2. /\ w \in Seq(Conns) /\ Len(w) = Len(workers) - 1
          /\ \A j \in 1..(Len(workers) - 1) :
               w[j] = IF j < visit + 1 THEN workers[j] ELSE workers[j + 1]
      BY <1>1, <3>1, RemoveAtFacts
    <3> HIDE DEF w
    <3>3. workers' = w  BY <2>1 DEF w
    <3> QED  BY <3>2, <3>3
  <2>3. WorkersOwn' /\ WithinLimits' /\ HeldInHand'
    <3>1. conn[workers[visit + 1]] = "closed"
      BY <1>2 DEF IInv, WorkersOwn
    <3> QED  BY SMTT(30), <1>1, <2>1, <2>2, <3>1, JoinedWorker
  <2>4. TypeOK'
    BY <2>1, <2>2 DEF IInv, TypeOK
  <2> QED  BY <2>3, <2>4 DEF IInv
<1>3. CASE workers[visit + 1] \notin done
  <2>1. visit' = visit + 1 /\ UNCHANGED <<options, conn, pc, held, workers, done, joined, accepted>>
    BY <1>3 DEF join_finished
  <2>2. TypeOK'
    BY <1>1, <2>1 DEF IInv, TypeOK
  <2> QED  BY <2>1, <2>2 DEF IInv, HeldInHand, WorkersOwn, Working, WithinLimits
<1> QED  BY <1>2, <1>3

\* A connection refused at the cap is closed by the acceptor itself.
LEMMA ShedStep == IInv /\ Shed => IInv'
<1> SUFFICES ASSUME IInv, Shed PROVE IInv'
  OBVIOUS
<1>1. PICK c \in Conns : held = <<c>>
  BY DEF IInv, TypeOK, HeldInHand, Shed
<1>2. conn' = [conn EXCEPT ![c] = "shed"] /\ held' = <<>> /\ pc' = "accept" /\ pc = "admit"
  BY <1>1 DEF Shed
<1>3. UNCHANGED <<options, workers, visit, done, joined, accepted>> /\ conn[c] = "held"
  BY <1>1 DEF Shed, IInv, HeldInHand
<1>4. TypeOK'
  BY <1>2, <1>3 DEF IInv, TypeOK
<1>5. HeldInHand'
  BY <1>1, <1>2, <1>3 DEF IInv, TypeOK, HeldInHand
<1>6. WorkersOwn'
  BY <1>2, <1>3 DEF IInv, TypeOK, WorkersOwn, Working
<1>7. WithinLimits'
  BY SMTT(30), <1>2, <1>3 DEF IInv, WithinLimits
<1> QED  BY SMTT(30), <1>4, <1>5, <1>6, <1>7 DEF IInv

\* A new worker enters the vector below the cap and the accept limit.
LEMMA SpawnWorkerStep == IInv /\ spawn_worker => IInv'
<1> SUFFICES ASSUME IInv, spawn_worker PROVE IInv'
  OBVIOUS
<1>1. PICK c \in Conns : held = <<c>>
  BY DEF IInv, TypeOK, HeldInHand, spawn_worker
<1>2. /\ conn' = [conn EXCEPT ![c] = "served"] /\ held' = <<>> /\ pc = "admit"
      /\ pc' = IF reached_accept_limit(accepted + 1) THEN "join" ELSE "accept"
  BY <1>1 DEF spawn_worker
<1>3. /\ UNCHANGED <<options, visit, done, joined>> /\ conn[c] = "held"
      /\ accepted' = accepted + 1 /\ accepted \in Nat
  BY <1>1 DEF spawn_worker, IInv, HeldInHand, TypeOK
<1>4. /\ workers' \in Seq(Conns) /\ Len(workers') = Len(workers) + 1 /\ Len(workers) \in Nat
      /\ \A k \in 1..Len(workers) : workers'[k] = workers[k]
      /\ workers'[Len(workers) + 1] = c
  <2>1. workers \in Seq(Conns) /\ workers' = Append(workers, c)
    BY <1>1 DEF IInv, TypeOK, spawn_worker
  <2> QED  BY SMTT(30), <2>1, AppendProperties, LenProperties
<1>5. \A d \in Conns : Working(d) => Working(d)'
  BY <1>4 DEF Working
<1>6. Working(c)'
  BY <1>4 DEF Working
<1>7. TypeOK'
  BY <1>2, <1>3, <1>4 DEF IInv, TypeOK
<1>8. HeldInHand'
  BY <1>1, <1>2, <1>3 DEF IInv, TypeOK, HeldInHand
<1>9. WorkersOwn'
  <2>1. \A d \in Conns : conn'[d] \in {"served", "shut"} => Working(d)'
    BY <1>2, <1>5, <1>6 DEF IInv, TypeOK, WorkersOwn
  <2>2. \A d \in Conns : conn'[d] = "closed" => Working(d)' \/ d \in joined'
    BY <1>2, <1>3, <1>5 DEF IInv, TypeOK, WorkersOwn
  <2>3. \A d \in done' : conn'[d] = "closed"
    BY <1>2, <1>3 DEF IInv, TypeOK, WorkersOwn
  <2>4. pc' # "returned"
    BY <1>2
  <2> QED  BY SMTT(30), <2>1, <2>2, <2>3, <2>4 DEF WorkersOwn
<1>10. WithinLimits'
  <2>1. options.max_active_connections \in Nat /\ options.max_accepts \in Nat
    BY Zenon, OptionsAssumption DEF IInv, TypeOK
  <2>2. options.max_active_connections # 0 => Len(workers') <= options.max_active_connections
    BY <1>4, <2>1 DEF spawn_worker, at_capacity
  <2>3. options.max_accepts # 0 =>
          /\ accepted' <= options.max_accepts
          /\ pc' \notin {"join", "returned"} => accepted' < options.max_accepts
    BY SMTT(30), <1>2, <1>3, <2>1 DEF IInv, WithinLimits, reached_accept_limit
  <2> QED  BY <1>3, <2>2, <2>3 DEF WithinLimits
<1> QED  BY <1>7, <1>8, <1>9, <1>10 DEF IInv

\* join_all takes a worker off once its thread has ended.
LEMMA JoinAllStep == IInv /\ join_all => IInv'
<1> SUFFICES ASSUME IInv, join_all PROVE IInv'
  OBVIOUS
<1>1. workers \in Seq(Conns) /\ workers # <<>>
  BY DEF IInv, TypeOK, join_all
<1>2. Len(workers) \in Nat /\ 1 \in 1..Len(workers)
  BY <1>1, LenProperties, EmptySeq
<1>3. /\ conn[workers[1]] = "closed" /\ joined' = joined \cup {workers[1]}
      /\ workers' = Tail(workers)
      /\ UNCHANGED <<options, conn, pc, held, visit, done, accepted>> /\ pc # "returned"
  BY DEF join_all
<1>4. /\ workers' \in Seq(Conns) /\ Len(workers') = Len(workers) - 1
      /\ \A j \in 1..(Len(workers) - 1) : workers'[j] = workers[j + 1]
  <2> DEFINE w == Tail(workers)
  <2>1. /\ w \in Seq(Conns) /\ Len(w) = Len(workers) - 1
        /\ \A j \in 1..Len(w) : w[j] = workers[j + 1]
    BY <1>1, HeadTailProperties
  <2> HIDE DEF w
  <2>2. workers' = w  BY <1>3 DEF w
  <2> QED  BY <2>1, <2>2
<1>5. \A j \in 1..(Len(workers) - 1) :
        workers'[j] = IF j < 1 THEN workers[j] ELSE workers[j + 1]
  BY <1>2, <1>4
<1>6. WorkersOwn' /\ WithinLimits' /\ HeldInHand'
  BY SMTT(30), <1>2, <1>3, <1>4, <1>5, JoinedWorker
<1>7. TypeOK'
  BY <1>3, <1>4 DEF IInv, TypeOK
<1> QED  BY <1>6, <1>7 DEF IInv

\* The acceptor only moves on: a fatal error, the end of reaping, the return.
LEMMA MovesOnStep == IInv /\ (AcceptFatal \/ Reaped \/ Return) => IInv'
<1> SUFFICES ASSUME IInv, AcceptFatal \/ Reaped \/ Return PROVE IInv'
  OBVIOUS
<1>1. UNCHANGED <<options, conn, held, workers, visit, done, joined, accepted>>
  BY DEF AcceptFatal, Reaped, Return
<1>2. TypeOK'
  BY <1>1 DEF IInv, TypeOK, AcceptFatal, Reaped, Return
<1>3. HeldInHand'
  BY <1>1 DEF IInv, HeldInHand, AcceptFatal, Reaped, Return
<1>4. WorkersOwn'
  BY <1>1 DEF IInv, WorkersOwn, Working, AcceptFatal, Reaped, Return
<1>5. WithinLimits'
  BY <1>1 DEF IInv, WithinLimits, AcceptFatal, Reaped, Return
<1> QED  BY <1>2, <1>3, <1>4, <1>5 DEF IInv

\* A client connects, or a worker ends its connection.
LEMMA ConnectionStep ==
  ASSUME IInv, NEW c \in Conns, Connect(c) \/ WorkerCloses(c) \/ WorkerDone(c)
  PROVE  IInv'
<1> USE DEF Connect, WorkerCloses, WorkerDone
<1>1. UNCHANGED <<options, pc, held, workers, visit, joined, accepted>>
  OBVIOUS
<1>2. TypeOK'
  BY <1>1 DEF IInv, TypeOK
<1>3. HeldInHand'
  BY <1>1 DEF IInv, TypeOK, HeldInHand
<1>4. WorkersOwn'
  <2>1. \A d \in Conns : Working(d)' <=> Working(d)
    BY <1>1 DEF Working
  <2>2. CASE Connect(c)
    BY <1>1, <2>1, <2>2 DEF IInv, TypeOK, WorkersOwn
  <2>3. CASE WorkerCloses(c)
    BY <1>1, <2>1, <2>3 DEF IInv, TypeOK, WorkersOwn
  <2>4. CASE WorkerDone(c)
    BY <1>1, <2>1, <2>4 DEF IInv, TypeOK, WorkersOwn
  <2> QED  BY SMTT(30), <2>2, <2>3, <2>4
<1>5. WithinLimits'
  BY <1>1 DEF IInv, WithinLimits
<1> QED  BY SMTT(30), <1>2, <1>3, <1>4, <1>5 DEF IInv

\* Every step of acceptor, workers and clients keeps the invariant.
LEMMA NextIInv == IInv /\ [Next]_vars => IInv'
<1> SUFFICES ASSUME IInv, [Next]_vars PROVE IInv'
  OBVIOUS
<1>1. CASE Acceptor
  BY SMTT(30), <1>1, AcceptRetryStep, JoinFinishedStep, ShedStep, SpawnWorkerStep,
     JoinAllStep, MovesOnStep DEF Acceptor
<1>2. CASE AcceptFatal
  BY <1>2, MovesOnStep
<1>3. CASE \E c \in Conns : Connect(c) \/ Worker(c)
  BY <1>3, ConnectionStep DEF Worker
<1>4. CASE UNCHANGED vars
  BY <1>4 DEF vars, IInv, TypeOK, HeldInHand, WorkersOwn, Working, WithinLimits
<1> QED  BY <1>1, <1>2, <1>3, <1>4 DEF Next

-----------------------------------------------------------------------------
(* The properties.                                                         *)

\* The number of workers bounds the number of connections served, and an
\* empty vector leaves none open.
LEMMA InvariantImplies == IInv => LimitsRespected /\ DrainedOnReturn
<1> SUFFICES ASSUME IInv PROVE LimitsRespected /\ DrainedOnReturn
  OBVIOUS
<1>1. LimitsRespected
  <2> DEFINE Served == {c \in Conns : conn[c] = "served"}
  <2>1. \A c \in Served : \E k \in 1..Len(workers) : workers[k] = c
    BY DEF IInv, WorkersOwn, Working
  <2>2. workers \in Seq(Conns) /\ Len(workers) \in Nat
    BY LenProperties DEF IInv, TypeOK
  <2>3. Cardinality(Served) <= Len(workers) /\ Cardinality(Served) \in Nat
    <3> HIDE DEF Served
    <3> QED  BY <2>1, <2>2, DistinctAtMostLen
  <2>4. options.max_active_connections \in Nat
    BY Zenon, OptionsAssumption DEF IInv, TypeOK
  <2>5. options.max_active_connections # 0 =>
          Cardinality(Served) <= options.max_active_connections
    <3> HIDE DEF Served
    <3> QED  BY SMTT(30), <2>2, <2>3, <2>4 DEF IInv, WithinLimits
  <2> QED  BY <2>5 DEF LimitsRespected, IInv, WithinLimits
<1>2. DrainedOnReturn
  <2> SUFFICES ASSUME pc = "returned", NEW c \in Conns
               PROVE  conn[c] \in {"new", "backlog", "shed"} \/ (conn[c] = "closed" /\ c \in joined)
    BY DEF DrainedOnReturn
  <2>1. Len(workers) = 0 /\ ~Working(c)
    BY DEF IInv, WorkersOwn, Working
  <2>2. conn[c] # "held"
    BY DEF IInv, HeldInHand
  <2> QED  BY <2>1, <2>2 DEF IInv, TypeOK, WorkersOwn
<1> QED  BY <1>1, <1>2

\* However many connections arrive, and whatever the cap, the accept limit and the
\* descriptors: never more are served at once than max_active_connections, nor
\* more in all than max_accepts.
THEOREM LimitsKept == Spec => []LimitsRespected
  BY InitIInv, NextIInv, InvariantImplies, PTL DEF Spec

\* When serve_listen_socket returns, on its accept limit or on a fatal error,
\* every connection it took is closed and every worker joined.
THEOREM NothingLeftOpen == Spec => []DrainedOnReturn
  BY InitIInv, NextIInv, InvariantImplies, PTL DEF Spec
=============================================================================
