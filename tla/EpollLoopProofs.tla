--------------------------- MODULE EpollLoopProofs ---------------------------
(***************************************************************************)
(* The epoll server. For every number of clients, descriptors, generations *)
(* and accepts per turn: the events of an epoll_wait batch reach the       *)
(* connections they were reported for, although the loop closes            *)
(* connections and reuses their descriptors while it works through the     *)
(* batch.                                                                  *)
(*                                                                         *)
(* For one connection (EpollClient), every stream of requests and all      *)
(* buffer limits: the responses reach the peer once each and in the order  *)
(* of the requests, and the backlog keeps its limits.                      *)
(***************************************************************************)
EXTENDS EpollLoop, EpollClient, SequenceTheorems, FiniteSetTheorems,
        WellFoundedInduction, NaturalsInduction, TLAPS

ClientGenerations == 1 .. Generations - 1

Event == [fd : Fds, gen : ClientGenerations, conn : Conns]

TypeOK ==
  /\ backlog \in Seq(Conns)
  /\ DOMAIN clients \subseteq Fds
  /\ \A fd \in DOMAIN clients : clients[fd] \in [gen : ClientGenerations, conn : Conns]
  /\ next_generation \in ClientGenerations
  /\ batch \in Seq(Event \cup {Listener})
  /\ pc \in {"init", "wait", "dispatch", "accept", "returned"}

\* e was reported for a connection of C.
Reported(C, e) ==
  e # Listener => e.fd \in DOMAIN C /\ C[e.fd].gen = e.gen /\ C[e.fd].conn = e.conn

\* The events not yet dispatched are for live connections, one per connection.
BatchLive ==
  pc # "returned" =>
    \A i \in DOMAIN batch :
      /\ Reported(clients, batch[i])
      /\ \A j \in DOMAIN batch \ {i} :
           batch[i] # Listener /\ batch[j] # Listener => batch[i].fd # batch[j].fd

IInv == TypeOK /\ BatchLive

\* The listener's event is no connection's.
LEMMA ListenerNotEvent == \A e \in Event : e # Listener
<1> SUFFICES ASSUME NEW e \in Event, e = Listener PROVE FALSE
  OBVIOUS
<1>1. e.gen \in ClientGenerations /\ e.gen = 0
  BY DEF Event, Listener, kListenerGeneration
<1> QED  BY <1>1, EpollLoopAssumption DEF ClientGenerations

\* An empty batch reaches everyone.
LEMMA InitIInv == Init => IInv
<1> SUFFICES ASSUME Init PROVE IInv
  OBVIOUS
<1>1. 1 \in ClientGenerations
  BY EpollLoopAssumption DEF ClientGenerations
<1>2. clients = <<>> /\ DOMAIN clients = {} /\ batch = <<>> /\ backlog = <<>> /\ DOMAIN batch = {}
  BY DEF Init
<1> QED  BY <1>1, <1>2 DEF Init, IInv, TypeOK, BatchLive

-----------------------------------------------------------------------------
(* Steps that leave the batch and the clients.                             *)

\* A step that moves neither batch nor clients keeps the invariant.
LEMMA SameKept ==
  ASSUME IInv, clients' = clients, batch' = batch,
         backlog' \in Seq(Conns), next_generation' \in ClientGenerations,
         pc # "returned",
         pc' \in {"init", "wait", "dispatch", "accept"} \/ pc' = pc
  PROVE  IInv'
<1>1. TypeOK'
  BY DEF IInv, TypeOK
<1>2. BatchLive'
  BY DEF IInv, BatchLive, Reported
<1> QED  BY <1>1, <1>2 DEF IInv

\* next_client_generation skips the listener's generation and stays in range.
LEMMA GenerationInRange ==
  ASSUME NEW g \in ClientGenerations
  PROVE  NextGeneration(g) \in ClientGenerations
<1>1. Generations \in Nat /\ Generations > 1 /\ g \in 1 .. Generations - 1
  BY EpollLoopAssumption DEF ClientGenerations
<1>2. CASE g + 1 = Generations
  BY <1>1, <1>2 DEF NextGeneration, kListenerGeneration, ClientGenerations
<1>3. CASE g + 1 # Generations
  <2>1. (g + 1) % Generations = g + 1
    BY <1>1, <1>3
  <2> QED  BY <1>1, <1>3, <2>1 DEF NextGeneration, kListenerGeneration, ClientGenerations
<1> QED  BY <1>2, <1>3

\* The lowest free descriptor is a free descriptor.
LEMMA LowestFree ==
  ASSUME FreeFds # {}
  PROVE  Min(FreeFds) \in FreeFds
<1>1. FreeFds \subseteq Nat
  BY Zenon, EpollLoopAssumption DEF FreeFds
<1>2. \E x \in FreeFds : \A y \in FreeFds : ~(<<y, x>> \in OpToRel(<, Nat))
  BY <1>1, WFMin, NatLessThanWellFounded, Zenon
<1>3. \E x \in FreeFds : \A y \in FreeFds : x <= y
  <2>1. ASSUME NEW x \in Nat, NEW y \in Nat, ~(<<y, x>> \in OpToRel(<, Nat)) PROVE ~(y < x)
    BY <2>1, Zenon DEF OpToRel
  <2>2. \A x, y \in Nat : ~(y < x) => x <= y
    OBVIOUS
  <2> QED  BY Zenon, <1>1, <1>2, <2>1, <2>2
<1> QED  BY <1>3 DEF Min

-----------------------------------------------------------------------------
(* Other parties.                                                          *)

\* What happens outside the loop leaves clients and batch alone.
LEMMA OthersKept ==
  ASSUME IInv,
         (\E c \in Conns : Connect(c)) \/ OtherOpen \/ OtherClose \/ request_stop
  PROVE  IInv'
<1>1. /\ clients' = clients /\ batch' = batch /\ pc' = pc
      /\ next_generation' = next_generation
  BY DEF Connect, OtherOpen, OtherClose, request_stop
<1>2. backlog' \in Seq(Conns)
  <2>1. ASSUME NEW c \in Conns, Connect(c) PROVE backlog' \in Seq(Conns)
    BY <2>1, AppendProperties DEF Connect, IInv, TypeOK
  <2>2. CASE OtherOpen \/ OtherClose \/ request_stop
    BY <2>2 DEF OtherOpen, OtherClose, request_stop, IInv, TypeOK
  <2> QED  BY <2>1, <2>2
<1>3. TypeOK'
  BY <1>1, <1>2 DEF IInv, TypeOK
<1>4. BatchLive'
  BY <1>1 DEF IInv, BatchLive, Reported
<1> QED  BY <1>3, <1>4 DEF IInv

-----------------------------------------------------------------------------
(* The loop.                                                               *)

\* Starting, and turning from the batch to accepting and back, are such
\* steps.
LEMMA IdleKept ==
  ASSUME IInv, Start \/ BatchDone \/ AcceptDrained \/ AcceptExhausted
  PROVE  IInv'
<1>1. /\ clients' = clients /\ batch' = batch /\ backlog' = backlog
      /\ next_generation' = next_generation /\ pc # "returned"
      /\ pc' \in {"wait", "dispatch"}
  BY Zenon DEF Start, BatchDone, AcceptDrained, AcceptExhausted
<1> QED  BY <1>1, SameKept DEF IInv, TypeOK

\* The loop returns with no client left.
LEMMA ReturnKept ==
  ASSUME IInv, Stop \/ AcceptFatal
  PROVE  IInv'
<1>1. /\ clients' = <<>> /\ batch' = batch /\ backlog' = backlog
      /\ next_generation' = next_generation /\ pc' = "returned"
  BY DEF Stop, AcceptFatal
<1>2. DOMAIN clients' = {}
  BY <1>1
<1> QED  BY <1>1, <1>2 DEF IInv, TypeOK, BatchLive

\* epoll_wait reports live connections, one event for each descriptor.
LEMMA WaitKept ==
  ASSUME IInv, Wait
  PROVE  IInv'
<1>1. PICK fds \in SUBSET DOMAIN clients :
        batch' \in SetToSeqs({EventOf(fd) : fd \in fds}
                             \cup IF listener_armed /\ backlog # <<>> THEN {Listener} ELSE {})
  BY Zenon DEF Wait
<1> DEFINE reports == {EventOf(fd) : fd \in fds}
           listening == IF listener_armed /\ backlog # <<>> THEN {Listener} ELSE {}
           events == reports \cup listening
<1>2. /\ clients' = clients /\ backlog' = backlog /\ next_generation' = next_generation
      /\ pc' = "dispatch" /\ pc # "returned"
  BY DEF Wait
<1>3. \A fd \in fds : EventOf(fd) \in Event /\ EventOf(fd).fd = fd
  BY DEF EventOf, Event, IInv, TypeOK
<1>4. events \subseteq Event \cup {Listener}
  BY <1>3
<1>5. Cardinality(events) \in Nat
  <2>1. IsFiniteSet(fds)
    BY EpollLoopAssumption, FS_Subset DEF IInv, TypeOK
  <2>2. IsFiniteSet(reports)
    <3> DEFINE f == [fd \in fds |-> EventOf(fd)]
    <3>1. f \in Surjection(fds, reports)
      BY DEF Surjection
    <3> HIDE DEF f
    <3> QED  BY <2>1, <3>1, FS_Surjection
  <2>3. IsFiniteSet(listening)
    BY Zenon, FS_EmptySet, FS_Singleton
  <2>4. IsFiniteSet(events)
    BY <2>2, <2>3, FS_Union
  <2> QED  BY <2>4, FS_CardinalityType
<1>6. /\ batch' \in [1 .. Cardinality(events) -> events]
      /\ \A i, j \in 1 .. Cardinality(events) : i # j => batch'[i] # batch'[j]
  BY <1>1 DEF SetToSeqs
<1>7. \A e \in events : e # Listener => \E fd \in fds : e = EventOf(fd)
  OBVIOUS
<1>8. \A e \in events : Reported(clients', e)
  BY <1>2, <1>7 DEF Reported, EventOf
<1>9. \A e, f \in events : e # f /\ e # Listener /\ f # Listener => e.fd # f.fd
  BY <1>3, <1>7
<1> HIDE DEF events, reports, listening
<1>10. batch' \in Seq(Event \cup {Listener}) /\ DOMAIN batch' = 1 .. Cardinality(events)
  BY <1>4, <1>5, <1>6
<1>11. TypeOK'
  BY <1>2, <1>10 DEF IInv, TypeOK
<1>12. BatchLive'
  BY SMTT(30), <1>6, <1>8, <1>9, <1>10 DEF BatchLive
<1> QED  BY <1>11, <1>12 DEF IInv

\* The rest of a batch, its first event dispatched.
LEMMA TailOfBatch ==
  ASSUME TypeOK, batch # <<>>, batch' = Tail(batch)
  PROVE  /\ batch' \in Seq(Event \cup {Listener})
         /\ \A i \in DOMAIN batch' : i + 1 \in DOMAIN batch \ {1} /\ batch'[i] = batch[i + 1]
         /\ 1 \in DOMAIN batch
<1>1. Len(batch) \in Nat /\ Len(batch) # 0 /\ DOMAIN batch = 1 .. Len(batch)
  BY EmptySeq, LenProperties DEF TypeOK
<1>2. /\ batch' \in Seq(Event \cup {Listener}) /\ Len(batch') = Len(batch) - 1
      /\ \A i \in 1 .. Len(batch') : batch'[i] = batch[i + 1]
  BY HeadTailProperties DEF TypeOK
<1> QED  BY SMTT(30), <1>1, <1>2, LenProperties

\* Serving a client and pausing to accept take one event off the batch.
LEMMA DispatchKept ==
  ASSUME IInv, Serve \/ ListenerEvent
  PROVE  IInv'
<1>1. /\ batch # <<>> /\ batch' = Tail(batch) /\ clients' = clients /\ backlog' = backlog
      /\ next_generation' = next_generation /\ pc = "dispatch" /\ pc' \in {"dispatch", "accept"}
  BY DEF Serve, IsClientEvent, ListenerEvent
<1>2. /\ batch' \in Seq(Event \cup {Listener})
      /\ \A i \in DOMAIN batch' : i + 1 \in DOMAIN batch \ {1} /\ batch'[i] = batch[i + 1]
  BY <1>1, TailOfBatch DEF IInv
<1>3. TypeOK'
  BY <1>1, <1>2 DEF IInv, TypeOK
<1>4. DOMAIN batch' \subseteq Int
  BY <1>2, LenProperties
<1>5. \A i \in DOMAIN batch' : Reported(clients', batch'[i])
  BY <1>1, <1>2 DEF IInv, BatchLive, Reported
<1>6. \A i, j \in DOMAIN batch' :
        i # j /\ batch'[i] # Listener /\ batch'[j] # Listener => batch'[i].fd # batch'[j].fd
  <2> TAKE i, j \in DOMAIN batch'
  <2>1. i # j => i + 1 # j + 1
    BY <1>4
  <2> QED  BY <1>1, <1>2, <2>1 DEF IInv, BatchLive
<1> QED  BY <1>3, <1>5, <1>6 DEF IInv, BatchLive

\* close_client_entry takes a connection and its event away; no other event
\* of the batch was its own.
LEMMA CloseKept ==
  ASSUME IInv, close_client_entry
  PROVE  IInv'
<1>1. /\ batch # <<>> /\ batch[1] # Listener /\ batch' = Tail(batch)
      /\ clients' = [fd \in DOMAIN clients \ {batch[1].fd} |-> clients[fd]]
      /\ backlog' = backlog /\ next_generation' = next_generation
      /\ pc = "dispatch" /\ pc' = pc
  BY DEF close_client_entry, IsClientEvent
<1>2. /\ batch' \in Seq(Event \cup {Listener})
      /\ \A i \in DOMAIN batch' : i + 1 \in DOMAIN batch \ {1} /\ batch'[i] = batch[i + 1]
      /\ 1 \in DOMAIN batch
  BY <1>1, TailOfBatch DEF IInv
<1>3. TypeOK'
  BY SMTT(30), <1>1, <1>2 DEF IInv, TypeOK
<1>4. DOMAIN batch' \subseteq Int
  BY <1>2, LenProperties
<1>5. \A i \in DOMAIN batch' : Reported(clients', batch'[i])
  <2> SUFFICES ASSUME NEW i \in DOMAIN batch', batch'[i] # Listener
               PROVE  Reported(clients', batch'[i])
    BY DEF Reported
  <2>1. batch'[i].fd # batch[1].fd /\ Reported(clients, batch'[i])
    BY <1>1, <1>2 DEF IInv, BatchLive
  <2> QED  BY <1>1, <2>1 DEF Reported
<1>6. \A i, j \in DOMAIN batch' :
        i # j /\ batch'[i] # Listener /\ batch'[j] # Listener => batch'[i].fd # batch'[j].fd
  <2> TAKE i, j \in DOMAIN batch'
  <2>1. i # j => i + 1 # j + 1
    BY <1>4
  <2> QED  BY <1>1, <1>2, <2>1 DEF IInv, BatchLive
<1> QED  BY <1>3, <1>5, <1>6 DEF IInv, BatchLive

\* A new connection gets a descriptor no live connection has, so no event in the
\* batch is redirected to it.
LEMMA AcceptKept ==
  ASSUME IInv, Accept
  PROVE  IInv'
<1> DEFINE new == Min(FreeFds)
<1>1. new \in Fds /\ new \notin DOMAIN clients
  BY LowestFree DEF Accept, FreeFds
<1>2. /\ clients' = [fd \in DOMAIN clients \cup {new} |->
                       IF fd = new THEN [gen |-> next_generation, conn |-> backlog[1]]
                                   ELSE clients[fd]]
      /\ backlog # <<>> /\ backlog' = Tail(backlog) /\ batch' = batch
      /\ next_generation' = NextGeneration(next_generation)
      /\ pc = "accept" /\ pc' \in {"dispatch", "accept"}
  BY DEF Accept
<1> HIDE DEF new
<1>3. backlog' \in Seq(Conns) /\ backlog[1] \in Conns
  BY <1>2, EmptySeq, HeadTailProperties DEF IInv, TypeOK
<1>4. next_generation' \in ClientGenerations
  BY <1>2, GenerationInRange DEF IInv, TypeOK
<1>5. TypeOK'
  BY SMTT(30), <1>1, <1>2, <1>3, <1>4 DEF IInv, TypeOK
<1>6. \A i \in DOMAIN batch : Reported(clients', batch[i])
  <2> SUFFICES ASSUME NEW i \in DOMAIN batch, batch[i] # Listener PROVE Reported(clients', batch[i])
    BY DEF Reported
  <2>1. Reported(clients, batch[i])
    BY <1>2 DEF IInv, BatchLive
  <2>2. batch[i].fd \in DOMAIN clients' /\ clients'[batch[i].fd] = clients[batch[i].fd]
    BY <1>1, <1>2, <2>1 DEF Reported
  <2> QED  BY <2>1, <2>2 DEF Reported
<1> QED  BY ZenonT(60), <1>2, <1>5, <1>6 DEF IInv, BatchLive

\* A connection accepted and dropped at once changes no client.
LEMMA DroppedKept ==
  ASSUME IInv, AcceptDropped
  PROVE  IInv'
<1>1. /\ backlog # <<>> /\ backlog' = Tail(backlog) /\ batch' = batch /\ clients' = clients
      /\ next_generation' \in {next_generation, NextGeneration(next_generation)}
      /\ pc = "accept" /\ pc' \in {"dispatch", "accept"}
  BY DEF AcceptDropped
<1>2. backlog' \in Seq(Conns)
  BY <1>1, HeadTailProperties DEF IInv, TypeOK
<1>3. next_generation' \in ClientGenerations
  BY <1>1, GenerationInRange DEF IInv, TypeOK
<1> QED  BY SMTT(30), <1>1, <1>2, <1>3, SameKept

\* Every step of the loop keeps the invariant.
LEMMA NextIInv == IInv /\ [Next]_vars => IInv'
<1> SUFFICES ASSUME IInv, [Next]_vars PROVE IInv'
  OBVIOUS
<1>1. CASE Loop
  BY SMTT(30), <1>1, IdleKept, ReturnKept, WaitKept, DispatchKept, CloseKept, AcceptKept,
     DroppedKept DEF Loop
<1>2. CASE UNCHANGED vars
  BY <1>2 DEF vars, IInv, TypeOK, BatchLive, Reported
<1> QED  BY <1>1, <1>2, OthersKept DEF Next

-----------------------------------------------------------------------------
\* Within a turn no event is redirected by a close and a reuse of its descriptor,
\* and none carries the generation of the listener (dispatch_ready_event,
\* find_live_client, next_client_generation), for every bound on accepts per turn
\* and every number of descriptors.
THEOREM EventsReach == Spec => []EventsReachTheirClient
<1>1. IInv => EventsReachTheirClient
  <2> SUFFICES ASSUME IInv, pc # "returned"
               PROVE  /\ \A fd \in DOMAIN clients : clients[fd].gen # kListenerGeneration
                      /\ \A i \in DOMAIN batch : Reported(clients, batch[i])
    BY DEF EventsReachTheirClient, find_live_client, Reported
  <2>1. \A fd \in DOMAIN clients : clients[fd].gen \in ClientGenerations
    BY DEF IInv, TypeOK
  <2>2. 0 \notin ClientGenerations
    BY EpollLoopAssumption DEF ClientGenerations
  <2> QED  BY <2>1, <2>2 DEF IInv, BatchLive, kListenerGeneration
<1> QED  BY InitIInv, NextIInv, <1>1, PTL DEF Spec

-----------------------------------------------------------------------------
(* The connection of one client: EpollClient.                              *)

-----------------------------------------------------------------------------
(* Induction over naturals, the property as a set; recursive functions.    *)

\* Induction over the naturals in a first-order form: the property is a set.
LEMMA NatSetInduction ==
  ASSUME NEW P, 0 \in P, \A n \in Nat : n \in P => n + 1 \in P
  PROVE  Nat \subseteq P
<1> DEFINE Bad == Nat \ P
<1> SUFFICES ASSUME Bad # {} PROVE FALSE
  OBVIOUS
<1>1. \E n \in Bad : \A m \in Bad : ~(<<m, n>> \in OpToRel(<, Nat))
  <2>1. Bad \subseteq Nat
    OBVIOUS
  <2> HIDE DEF Bad
  <2> QED  BY Zenon, <2>1, WFMin, NatLessThanWellFounded
<1>2. PICK n \in Bad : \A m \in Bad : ~(<<m, n>> \in OpToRel(<, Nat))
  BY Zenon, <1>1
<1>3. \A m \in Bad : ~(m < n)
  BY Zenon, <1>2 DEF OpToRel
<1>4. n # 0 /\ n \in Nat
  BY Zenon, <1>2
<1>5. n - 1 \in P
  BY <1>3, <1>4
<1>6. n - 1 \in Nat /\ (n - 1) + 1 = n
  BY <1>4
<1> QED  BY Zenon, <1>2, <1>5, <1>6

\* g holds the flattenings of the first 1, 2, ..., n sequences of seqs.
FlatTable(seqs, n, g) ==
  g = [i \in 1..n |-> IF i = 1 THEN seqs[i] ELSE g[i - 1] \o seqs[i]]

\* FlattenSeq is the last entry of such a table.
LEMMA FlatUnfold ==
  ASSUME NEW seqs, Len(seqs) # 0
  PROVE  FlattenSeq(seqs) = (CHOOSE g : FlatTable(seqs, Len(seqs), g))[Len(seqs)]
  BY DEF FlattenSeq, FlatTable

\* Every list of sequences has a table, by induction on its length.
LEMMA FlatTableExists ==
  ASSUME NEW seqs, NEW n \in Nat
  PROVE  \E g : FlatTable(seqs, n, g)
<1> DEFINE P == {m \in Nat : \E g : FlatTable(seqs, m, g)}
<1>1. 0 \in P
  <2> DEFINE g == [i \in 1..0 |-> i]
  <2>1. FlatTable(seqs, 0, g)
    BY DEF FlatTable
  <2> QED  BY <2>1
<1>2. ASSUME NEW m \in Nat, m \in P PROVE m + 1 \in P
  <2>1. PICK g : FlatTable(seqs, m, g)
    BY <1>2
  <2> DEFINE x == IF m = 0 THEN seqs[1] ELSE g[m] \o seqs[m + 1]
             h == [i \in 1..(m + 1) |-> IF i = m + 1 THEN x ELSE g[i]]
  <2>2. \A i \in 1..m : g[i] = IF i = 1 THEN seqs[i] ELSE g[i - 1] \o seqs[i]
    BY Zenon, <2>1 DEF FlatTable
  <2> HIDE DEF x
  <2>3. (\A i \in 1..m : h[i] = g[i]) /\ h[m + 1] = x
    OBVIOUS
  <2> HIDE DEF h
  <2>4. \A i \in 1..(m + 1) : h[i] = IF i = 1 THEN seqs[i] ELSE h[i - 1] \o seqs[i]
    <3> SUFFICES ASSUME NEW i \in 1..(m + 1)
                 PROVE  h[i] = IF i = 1 THEN seqs[i] ELSE h[i - 1] \o seqs[i]
      BY Zenon
    <3>1. CASE i = m + 1 /\ m = 0
      <4>1. i = 1 /\ x = seqs[1]
        BY <3>1 DEF x
      <4> QED  BY Zenon, <2>3, <3>1, <4>1
    <3>2. CASE i = m + 1 /\ m # 0
      <4>1. i # 1 /\ i - 1 = m /\ m \in 1..m
        BY <3>2
      <4>2. x = g[m] \o seqs[i]
        BY Zenon, <3>2 DEF x
      <4>3. h[m] = g[m]
        BY Zenon, <2>3, <4>1
      <4> QED  BY Zenon, <2>3, <3>2, <4>1, <4>2, <4>3
    <3>3. CASE i # m + 1
      <4>1. i \in 1..m /\ (i # 1 => i - 1 \in 1..m)
        BY <3>3
      <4> QED  BY Zenon, <2>2, <2>3, <4>1
    <3> QED  BY Zenon, <3>1, <3>2, <3>3
  <2>5. h = [i \in 1..(m + 1) |-> h[i]]
    BY DEF h
  <2>6. FlatTable(seqs, m + 1, h)
    BY Zenon, <2>4, <2>5 DEF FlatTable
  <2> QED  BY <2>6
<1> HIDE DEF P
<1>3. Nat \subseteq P
  BY Zenon, <1>1, <1>2, NatSetInduction
<1> QED  BY <1>3 DEF P

Agree(s, t, n) == \A i \in 1..n : s[i] = t[i]

\* Tables of two lists agree as far as the lists do.
LEMMA FlatTablesAgree ==
  ASSUME NEW n \in Nat, NEW m \in Nat, n <= m, NEW s, NEW t, Agree(s, t, n),
         NEW g, NEW h, FlatTable(s, n, g), FlatTable(t, m, h)
  PROVE  n # 0 => g[n] = h[n]
<1> DEFINE P == {i \in Nat : i \in 1..n => g[i] = h[i]}
<1>1. /\ \A i \in 1..n : g[i] = IF i = 1 THEN s[i] ELSE g[i - 1] \o s[i]
      /\ \A i \in 1..m : h[i] = IF i = 1 THEN t[i] ELSE h[i - 1] \o t[i]
  BY Zenon DEF FlatTable
<1>2. 0 \in P
  OBVIOUS
<1>3. ASSUME NEW i \in Nat, i \in P PROVE i + 1 \in P
  <2> SUFFICES ASSUME i + 1 \in 1..n PROVE g[i + 1] = h[i + 1]
    OBVIOUS
  <2>1. i + 1 \in 1..m /\ s[i + 1] = t[i + 1]
    BY DEF Agree
  <2>2. CASE i = 0
    BY <1>1, <2>1, <2>2
  <2>3. CASE i # 0
    <3>1. i \in 1..n /\ (i + 1) - 1 = i /\ i + 1 # 1
      BY <2>3
    <3>2. g[i] = h[i]
      BY <1>3, <3>1
    <3>3. g[i + 1] = g[i] \o s[i + 1] /\ h[i + 1] = h[i] \o t[i + 1]
      BY Zenon, <1>1, <2>1, <3>1
    <3> QED  BY Zenon, <2>1, <3>2, <3>3
  <2> QED  BY <2>2, <2>3
<1> HIDE DEF P
<1>4. Nat \subseteq P
  BY Zenon, <1>2, <1>3, NatSetInduction
<1>5. n \in P
  BY Zenon, <1>4
<1> QED  BY <1>5 DEF P

\* Flattening nothing gives nothing.
LEMMA FlattenEmpty == FlattenSeq(<<>>) = <<>>
  BY DEF FlattenSeq

\* One more sequence adds its entries at the end of the flattening.
LEMMA FlattenAppend ==
  ASSUME NEW S, NEW seqs \in Seq(Seq(S)), NEW x \in Seq(S)
  PROVE  FlattenSeq(Append(seqs, x)) = FlattenSeq(seqs) \o x
<1> DEFINE n == Len(seqs)
           t == Append(seqs, x)
           G == CHOOSE g : FlatTable(seqs, n, g)
           H == CHOOSE g : FlatTable(t, n + 1, g)
<1>1. /\ n \in Nat /\ Len(t) = n + 1 /\ t[n + 1] = x
      /\ Agree(seqs, t, n)
  BY AppendProperties DEF Agree
<1> HIDE DEF t, n
<1>2. FlatTable(seqs, n, G)
  BY Zenon, <1>1, FlatTableExists
<1>3. FlatTable(t, n + 1, H)
  <2>1. n + 1 \in Nat
    BY <1>1
  <2> QED  BY Zenon, <2>1, FlatTableExists
<1>4. Len(t) # 0
  BY <1>1
<1>5. FlattenSeq(t) = H[n + 1]
  BY Zenon, <1>1, <1>4, FlatUnfold
<1> HIDE DEF G, H
<1>6. CASE n = 0
  <2>1. seqs = <<>>
    BY <1>6, EmptySeq DEF n
  <2>2. H[1] = t[1]
    BY <1>3, <1>6 DEF FlatTable
  <2>3. FlattenSeq(t) = x
    BY <1>1, <1>5, <1>6, <2>2
  <2> QED  BY <2>1, <2>3, FlattenEmpty DEF t
<1>7. CASE n # 0
  <2>1. FlattenSeq(seqs) = G[n]
    BY Zenon, <1>2, <1>7, FlatUnfold DEF n, G
  <2>2. H[n + 1] = H[n] \o x
    <3>1. n + 1 \in 1..(n + 1) /\ n + 1 # 1 /\ (n + 1) - 1 = n
      BY <1>1, <1>7
    <3>2. H[n + 1] = H[n] \o t[n + 1]
      BY Zenon, <1>3, <3>1 DEF FlatTable
    <3> QED  BY Zenon, <1>1, <3>2
  <2>3. G[n] = H[n]
    <3>1. n + 1 \in Nat /\ n <= n + 1
      BY <1>1
    <3> DEFINE m == n + 1
    <3>2. m \in Nat /\ n <= m /\ FlatTable(t, m, H)
      BY Zenon, <1>3, <3>1
    <3> HIDE DEF m
    <3>3. n # 0 => G[n] = H[n]
      BY SMTT(30), <1>1, <1>2, <3>2, FlatTablesAgree
    <3> QED  BY Zenon, <1>7, <3>3
  <2> QED  BY Zenon, <1>5, <2>1, <2>2, <2>3 DEF t
<1> QED  BY <1>6, <1>7

-----------------------------------------------------------------------------
(* The responses of a list of requests.                                    *)

\* The responses to each of the requests of h, and all of them in a row.
Listed(h) == [k \in DOMAIN h |-> Responses(k, h[k])]
Flat(h) == FlattenSeq(Listed(h))

\* The responses of the requests of h are one sequence for each.
LEMMA ListedSeq ==
  ASSUME NEW h \in Seq(Nat)
  PROVE  Listed(h) \in Seq(Seq(Nat)) /\ Len(Listed(h)) = Len(h)
<1>1. \A k \in 1..Len(h) : Responses(k, h[k]) \in Seq(Nat)
  BY DEF Responses
<1>2. Listed(h) \in [1..Len(h) -> Seq(Nat)]
  BY <1>1 DEF Listed
<1> HIDE DEF Listed
<1>3. Len(h) \in Nat
  OBVIOUS
<1> QED  BY <1>2, <1>3, SeqDef, LenProperties

\* Serving one more request adds its responses at the end of the stream.
LEMMA FlatGrows ==
  ASSUME NEW h \in Seq(Nat), NEW r \in Nat
  PROVE  Flat(Append(h, r)) = Flat(h) \o Responses(Len(h) + 1, r)
<1> DEFINE n == Len(h)
           g == Append(h, r)
           x == Responses(n + 1, r)
           a == Listed(g)
           b == Append(Listed(h), x)
<1>1. n \in Nat /\ g \in Seq(Nat) /\ Len(g) = n + 1 /\ g[n + 1] = r /\ DOMAIN h = 1..n
      /\ DOMAIN g = 1..(n + 1) /\ \A k \in 1..n : g[k] = h[k]
  BY AppendProperties
<1>2. x \in Seq(Nat)
  BY <1>1 DEF Responses
<1>3. Listed(h) \in Seq(Seq(Nat)) /\ Len(Listed(h)) = n
  BY Zenon, ListedSeq
<1>4. a \in Seq(Seq(Nat)) /\ Len(a) = n + 1
  BY Zenon, <1>1, ListedSeq
<1> HIDE DEF g, x, n
<1>5. /\ \A k \in 1..n : Listed(h)[k] = Responses(k, h[k])
      /\ \A k \in 1..(n + 1) : a[k] = Responses(k, g[k])
  BY <1>1 DEF Listed
<1> HIDE DEF a
<1>6. b \in Seq(Seq(Nat)) /\ Len(b) = n + 1 /\ b[n + 1] = x
      /\ \A k \in 1..n : b[k] = Listed(h)[k]
  BY <1>2, <1>3, AppendProperties
<1> HIDE DEF b
<1>7. a[n + 1] = x
  BY <1>1, <1>5 DEF x
<1>8. ASSUME NEW k \in 1..n PROVE a[k] = b[k]
  <2>1. k \in 1..(n + 1)
    BY <1>1
  <2> QED  BY Zenon, <1>1, <1>5, <1>6, <2>1
<1>9. ASSUME NEW k \in 1..(n + 1) PROVE a[k] = b[k]
  <2>1. k \in 1..n \/ k = n + 1
    BY <1>1
  <2> QED  BY Zenon, <1>6, <1>7, <1>8, <2>1
<1>10. a = b
  BY <1>4, <1>6, <1>9, SeqEqual
<1>11. FlattenSeq(Append(Listed(h), x)) = FlattenSeq(Listed(h)) \o x
  BY Zenon, <1>2, <1>3, FlattenAppend
<1> QED  BY Zenon, <1>10, <1>11 DEF Flat, a, b, g, x, n

\* Before anything is served the stream is empty.
LEMMA FlatEmpty == Flat(<<>>) = <<>>
<1>1. Listed(<<>>) = <<>>
  BY DEF Listed
<1> QED  BY Zenon, <1>1, FlattenEmpty DEF Flat

-----------------------------------------------------------------------------
(* on_bytes, request by request.                                           *)

\* Where on_bytes starts.
Started == [out |-> outbuf, served |-> served, end |-> "none"]

\* g holds the states of on_bytes's loop after 0, 1, ..., n requests.
BytesTable(s, chunk, n, g) ==
  g = [i \in 0..n |-> IF i = 0 THEN s ELSE OnBytes(g[i - 1], chunk[i])]

\* on_bytes is the last entry of the table of the states of its loop.
LEMMA BytesUnfold ==
  ASSUME NEW chunk
  PROVE  on_bytes(chunk) = (CHOOSE g : BytesTable(Started, chunk, Len(chunk), g))[Len(chunk)]
  BY DEF on_bytes, BytesTable, Started

\* The table of the loop's states exists, by induction on the length of the
\* chunk.
LEMMA BytesTableExists ==
  ASSUME NEW s, NEW chunk, NEW n \in Nat
  PROVE  \E g : BytesTable(s, chunk, n, g)
<1> DEFINE P == {m \in Nat : \E g : BytesTable(s, chunk, m, g)}
<1>1. 0 \in P
  <2> DEFINE g == [i \in 0..0 |-> s]
  <2>1. g = [i \in 0..0 |-> IF i = 0 THEN s ELSE OnBytes(g[i - 1], chunk[i])]
    OBVIOUS
  <2>2. BytesTable(s, chunk, 0, g)
    BY Zenon, <2>1 DEF BytesTable
  <2> QED  BY <2>2
<1>2. ASSUME NEW m \in Nat, m \in P PROVE m + 1 \in P
  <2>1. PICK g : BytesTable(s, chunk, m, g)
    BY <1>2
  <2> DEFINE x == OnBytes(g[m], chunk[m + 1])
             h == [i \in 0..(m + 1) |-> IF i = m + 1 THEN x ELSE g[i]]
  <2>2. \A i \in 0..m : g[i] = IF i = 0 THEN s ELSE OnBytes(g[i - 1], chunk[i])
    BY Zenon, <2>1 DEF BytesTable
  <2> HIDE DEF x
  <2>3. (\A i \in 0..m : h[i] = g[i]) /\ h[m + 1] = x
    OBVIOUS
  <2>4. h = [i \in 0..(m + 1) |-> h[i]]
    OBVIOUS
  <2> HIDE DEF h
  <2>5. \A i \in 0..(m + 1) : h[i] = IF i = 0 THEN s ELSE OnBytes(h[i - 1], chunk[i])
    <3> SUFFICES ASSUME NEW i \in 0..(m + 1)
                 PROVE  h[i] = IF i = 0 THEN s ELSE OnBytes(h[i - 1], chunk[i])
      BY Zenon
    <3>1. CASE i = m + 1
      <4>1. i # 0 /\ i - 1 = m /\ m \in 0..m
        BY <3>1
      <4>2. h[m] = g[m]
        BY Zenon, <2>3, <4>1
      <4> QED  BY Zenon, <2>3, <3>1, <4>1, <4>2 DEF x
    <3>2. CASE i # m + 1
      <4>1. i \in 0..m /\ (i # 0 => i - 1 \in 0..m)
        BY <3>2
      <4> QED  BY Zenon, <2>2, <2>3, <4>1
    <3> QED  BY Zenon, <3>1, <3>2
  <2>6. BytesTable(s, chunk, m + 1, h)
    BY Zenon, <2>4, <2>5 DEF BytesTable
  <2> QED  BY <2>6
<1> HIDE DEF P
<1>3. Nat \subseteq P
  BY Zenon, <1>1, <1>2, NatSetInduction
<1> QED  BY <1>3 DEF P

\* Where on_bytes is after i requests of what has arrived.
Progress(s, i) ==
  /\ s = [out |-> s.out, served |-> s.served, end |-> s.end]
  /\ s.out \in Seq(Nat) /\ Len(s.out) <= HardLimit
  /\ s.served \in Seq(Requests)
  /\ s.end \in {"none", "logout", "over"}
  /\ Len(served) <= Len(s.served) /\ Len(s.served) <= Len(served) + i
  /\ s.end = "none" => Len(s.served) = Len(served) + i
  /\ \A k \in 1..Len(s.served) : s.served[k] = requests[k]
  /\ (got \o wire) \o s.out = Flat(s.served)

\* Three pieces put together from the left or from the right.
LEMMA Regrouped ==
  ASSUME NEW S, NEW s \in Seq(S), NEW t \in Seq(S), NEW u \in Seq(S)
  PROVE  s \o (t \o u) = (s \o t) \o u
  BY ConcatAssociative

\* One turn of on_bytes's loop: the next request of the stream is served in
\* order, is over the limit, or finds the session already ended.
LEMMA OnBytesProgress ==
  ASSUME NEW s, NEW i \in Nat, Progress(s, i), served \in Seq(Requests),
         got \in Seq(Nat), wire \in Seq(Nat),
         NEW r \in Requests, requests[Len(served) + i + 1] = r
  PROVE  Progress(OnBytes(s, r), i + 1)
<1> DEFINE t == OnBytes(s, r)
<1>1. r \in Nat /\ Requests \subseteq Nat /\ HardLimit \in Nat
  BY ClientAssumption
<1>2. /\ s = [out |-> s.out, served |-> s.served, end |-> s.end]
      /\ s.out \in Seq(Nat) /\ Len(s.out) <= HardLimit
      /\ s.served \in Seq(Requests)
      /\ s.end \in {"none", "logout", "over"}
      /\ Len(served) <= Len(s.served) /\ Len(s.served) <= Len(served) + i
      /\ s.end = "none" => Len(s.served) = Len(served) + i
      /\ \A k \in 1..Len(s.served) : s.served[k] = requests[k]
      /\ (got \o wire) \o s.out = Flat(s.served)
  BY Zenon DEF Progress
<1>3. Len(served) \in Nat /\ Len(s.served) \in Nat /\ Len(s.out) \in Nat
  BY <1>2
<1>4. Len(s.served) <= Len(served) + (i + 1)
  BY <1>2, <1>3
<1>5. CASE s.end # "none"
  <2>1. t = s
    BY <1>5 DEF OnBytes
  <2>2. Progress(s, i + 1)
    BY Zenon, <1>2, <1>4, <1>5 DEF Progress
  <2> QED  BY Zenon, <2>1, <2>2
<1>6. CASE s.end = "none" /\ (r = 0 \/ Len(s.out) + r > HardLimit)
  <2>1. PICK e \in {"logout", "over"} : t = [s EXCEPT !.end = e]
    BY <1>6 DEF OnBytes
  <2>2. t.out = s.out /\ t.served = s.served /\ t.end = e
        /\ t = [out |-> t.out, served |-> t.served, end |-> t.end]
    BY Zenon, <1>2, <2>1
  <2> HIDE DEF t
  <2>3. t.end \in {"none", "logout", "over"} /\ t.end # "none"
    BY <2>2
  <2>4. Progress(t, i + 1)
    BY Zenon, <1>2, <1>4, <2>2, <2>3 DEF Progress
  <2> QED  BY Zenon, <2>4 DEF t
<1>7. CASE s.end = "none" /\ r # 0 /\ ~(Len(s.out) + r > HardLimit)
  <2> DEFINE x == Responses(Len(s.served) + 1, r)
             h == s.served
             w == got \o wire
  <2>1. t = [s EXCEPT !.out = @ \o x, !.served = Append(@, r)]
    BY <1>7 DEF OnBytes
  <2>2. t.out = s.out \o x /\ t.served = Append(s.served, r) /\ t.end = "none"
        /\ t = [out |-> t.out, served |-> t.served, end |-> t.end]
    BY Zenon, <1>2, <1>7, <2>1
  <2>3. x \in Seq(Nat) /\ Len(x) = r
    BY <1>1, <1>3 DEF Responses
  <2> HIDE DEF t, x
  <2>4. t.out \in Seq(Nat) /\ Len(t.out) = Len(s.out) + r
    <3> DEFINE o == s.out
    <3>1. o \in Seq(Nat)
      BY <1>2
    <3> HIDE DEF o
    <3>2. o \o x \in Seq(Nat) /\ Len(o \o x) = Len(o) + Len(x)
      BY Zenon, <2>3, <3>1, ConcatProperties
    <3> QED  BY Zenon, <2>2, <2>3, <3>2 DEF o
  <2>5. Len(t.out) <= HardLimit
    BY SMTT(30), <1>1, <1>3, <1>7, <2>4
  <2>6. t.served \in Seq(Requests) /\ Len(t.served) = Len(h) + 1
        /\ t.served[Len(h) + 1] = r /\ \A k \in 1..Len(h) : t.served[k] = h[k]
    BY <1>2, <2>2, AppendProperties
  <2>7. Len(h) = Len(served) + i /\ Len(served) + i + 1 = Len(h) + 1
    BY <1>2, <1>3, <1>7
  <2>8. ASSUME NEW k \in 1..Len(t.served) PROVE t.served[k] = requests[k]
    <3>1. k \in 1..Len(h) \/ k = Len(h) + 1
      BY <1>3, <2>6
    <3> QED  BY Zenon, <1>2, <2>6, <2>7, <3>1
  <2>9. Flat(t.served) = Flat(h) \o x
    <3>1. h \in Seq(Nat)
      BY <1>1, <1>2
    <3> QED  BY Zenon, <1>1, <2>2, <3>1, FlatGrows DEF x
  <2>10. w \o t.out = (w \o s.out) \o x
    <3>1. w \in Seq(Nat)
      BY ConcatProperties
    <3> DEFINE o == s.out
    <3>2. o \in Seq(Nat)
      BY <1>2
    <3> HIDE DEF w, o
    <3>3. w \o (o \o x) = (w \o o) \o x
      BY SMTT(90), <2>3, <3>1, <3>2, Regrouped
    <3> QED  BY Zenon, <2>2, <3>3 DEF o
  <2>11. w \o t.out = Flat(t.served)
    BY Zenon, <1>2, <2>9, <2>10
  <2>12. Len(served) <= Len(t.served) /\ Len(t.served) = Len(served) + (i + 1)
         /\ Len(t.served) <= Len(served) + (i + 1) /\ t.end \in {"none", "logout", "over"}
    BY <1>2, <1>3, <2>2, <2>6, <2>7
  <2>13. Progress(t, i + 1)
    BY Zenon, <2>2, <2>4, <2>5, <2>6, <2>8, <2>11, <2>12 DEF Progress
  <2> QED  BY Zenon, <2>13 DEF t
<1> QED  BY Zenon, <1>5, <1>6, <1>7

\* The chunk is what comes next of the requests sent.
NextRequests(chunk) ==
  /\ chunk \in Seq(Requests)
  /\ \A k \in 1..Len(chunk) : requests[Len(served) + k] = chunk[k]

\* The whole loop, by induction over the frames of the chunk.
LEMMA BytesProgress ==
  ASSUME Progress(Started, 0), served \in Seq(Requests), got \in Seq(Nat), wire \in Seq(Nat),
         NEW chunk, NextRequests(chunk)
  PROVE  Progress(on_bytes(chunk), Len(chunk))
<1> DEFINE n == Len(chunk)
           G == CHOOSE g : BytesTable(Started, chunk, n, g)
           P == {i \in Nat : i <= n => Progress(G[i], i)}
<1>1. n \in Nat /\ \A k \in 1..n : chunk[k] \in Requests /\ requests[Len(served) + k] = chunk[k]
  BY DEF NextRequests
<1>2. on_bytes(chunk) = G[n]
  BY Zenon, BytesUnfold
<1> HIDE DEF n
<1>3. BytesTable(Started, chunk, n, G)
  BY Zenon, <1>1, BytesTableExists
<1> HIDE DEF G
<1>4. \A i \in 0..n : G[i] = IF i = 0 THEN Started ELSE OnBytes(G[i - 1], chunk[i])
  BY Zenon, <1>3 DEF BytesTable
<1>5. 0 \in P
  <2>1. 0 \in 0..n
    BY <1>1
  <2>2. G[0] = Started
    BY Zenon, <1>4, <2>1
  <2> QED  BY <2>2
<1>6. ASSUME NEW i \in Nat, i \in P PROVE i + 1 \in P
  <2> SUFFICES ASSUME i + 1 <= n PROVE Progress(G[i + 1], i + 1)
    OBVIOUS
  <2>1. i + 1 \in 0..n /\ i + 1 \in 1..n /\ i + 1 # 0 /\ (i + 1) - 1 = i /\ i <= n
    BY <1>1
  <2>2. Progress(G[i], i)
    BY <1>6, <2>1
  <2>3. G[i + 1] = OnBytes(G[i], chunk[i + 1])
    BY Zenon, <1>4, <2>1
  <2>4. chunk[i + 1] \in Requests /\ requests[Len(served) + (i + 1)] = chunk[i + 1]
    BY Zenon, <1>1, <2>1
  <2>5. Len(served) + (i + 1) = Len(served) + i + 1
    OBVIOUS
  <2>6. Progress(OnBytes(G[i], chunk[i + 1]), i + 1)
    BY Zenon, <2>2, <2>4, <2>5, OnBytesProgress
  <2> QED  BY Zenon, <2>3, <2>6
<1> HIDE DEF P
<1>7. Nat \subseteq P
  BY Zenon, <1>5, <1>6, NatSetInduction
<1>8. n \in P
  BY Zenon, <1>1, <1>7
<1>9. Progress(G[n], n)
  BY <1>1, <1>8 DEF P
<1> QED  BY Zenon, <1>2, <1>9 DEF n

-----------------------------------------------------------------------------
(* The connection.                                                         *)

\* The requests received and not handled are those that follow the ones served.
Awaiting ==
  /\ Len(requests) = Len(served) + Len(net)
  /\ \A k \in 1..Len(net) : requests[Len(served) + k] = net[k]

\* The histories and queues of a connection are sequences of their elements.
ClientTypes ==
  /\ requests \in Seq(Requests) /\ net \in Seq(Requests) /\ served \in Seq(Requests)
  /\ got \in Seq(Nat) /\ wire \in Seq(Nat) /\ outbuf \in Seq(Nat)
  /\ close_after_flush \in BOOLEAN

\* The backlogs are within their limits.
Bounded == Len(wire) <= SendBuffer /\ Len(outbuf) <= HardLimit

\* The requests served are the first ones sent, and all their responses are told.
InOrder ==
  /\ Len(served) <= Len(requests)
  /\ \A k \in 1..Len(served) : served[k] = requests[k]
  /\ (got \o wire) \o outbuf = Flat(served)

\* A session that is to be closed reads no more.
Open == ~close_after_flush /\ stage # "closed"

\* The inductive invariant of a connection.
ClientInv ==
  /\ ClientTypes /\ Bounded /\ InOrder
  /\ close_after_flush => stage # "read"
  /\ Open => Awaiting

\* A connection just registered has served nothing of nothing.
LEMMA InitClientInv == ClientInit => ClientInv
<1> SUFFICES ASSUME ClientInit PROVE ClientInv
  OBVIOUS
<1>1. /\ requests = <<>> /\ net = <<>> /\ wire = <<>> /\ got = <<>> /\ outbuf = <<>>
      /\ served = <<>> /\ close_after_flush = FALSE
  BY DEF ClientInit
<1>2. ClientTypes
  <2>1. <<>> \in Seq(Requests) /\ <<>> \in Seq(Nat)
    OBVIOUS
  <2> QED  BY Zenon, <1>1, <2>1 DEF ClientTypes
<1>5. Awaiting
  BY <1>1 DEF Awaiting
<1>3. Bounded
  BY <1>1, ClientAssumption DEF Bounded
<1>4. InOrder
  <2>1. (<<>> \o <<>>) \o <<>> = <<>>
    OBVIOUS
  <2>2. (got \o wire) \o outbuf = Flat(served)
    BY Zenon, <1>1, <2>1, FlatEmpty
  <2> QED  BY <1>1, <2>2 DEF InOrder
<1> QED  BY <1>1, <1>2, <1>3, <1>4, <1>5 DEF ClientInv

-----------------------------------------------------------------------------
\* A step that moves no request and no response.
LEMMA QuietKept ==
  ASSUME ClientInv, requests' = requests, net' = net, served' = served, got' = got,
         wire' = wire, outbuf' = outbuf, close_after_flush' = close_after_flush,
         close_after_flush => stage' # "read", stage = "closed" => stage' = "closed"
  PROVE  ClientInv' /\ BacklogStep
<1>1. ClientTypes' /\ Bounded' /\ InOrder' /\ (Awaiting => Awaiting') /\ (Open' => Open)
  BY DEF ClientInv, ClientTypes, Bounded, InOrder, Awaiting, Open
<1>2. Len(outbuf) \in Nat
  BY DEF ClientInv, ClientTypes
<1>3. BacklogStep
  BY <1>2 DEF ClientInv, Bounded, BacklogStep
<1> QED  BY <1>1, <1>3 DEF ClientInv

\* The handlers that only wait, fail, rearm or hang up are such steps.
LEMMA QuietSteps ==
  ASSUME ClientInv,
         \/ \E how \in {"half", "hup", "error"} : PeerLeaves(how)
         \/ ClientEvent \/ NothingToDrain \/ SendFails
         \/ ReadNothing \/ ReadError \/ Backpressure \/ rearm_client
  PROVE  ClientInv' /\ BacklogStep
<1>1. CASE \E how \in {"half", "hup", "error"} : PeerLeaves(how)
  BY <1>1, QuietKept DEF PeerLeaves, clientVars, ClientInv
<1>2. CASE ClientEvent
  BY <1>2, QuietKept DEF ClientEvent, peerVars, clientVars
<1>3. CASE NothingToDrain
  BY <1>3, QuietKept DEF NothingToDrain, AfterDrain, peerVars, clientVars
<1>4. CASE SendFails
  BY <1>4, QuietKept DEF SendFails, AfterDrain, peerVars, clientVars
<1>5. CASE ReadNothing
  BY <1>5, QuietKept DEF ReadNothing, peerVars
<1>6. CASE ReadError
  BY <1>6, QuietKept DEF ReadError, peerVars, clientVars
<1>7. CASE Backpressure
  BY <1>7, QuietKept DEF Backpressure, peerVars, clientVars
<1>8. CASE rearm_client
  BY <1>8, QuietKept DEF rearm_client, peerVars
<1> QED  BY <1>1, <1>2, <1>3, <1>4, <1>5, <1>6, <1>7, <1>8

\* The peer sends one more request, which joins those still to be read.
LEMMA AskKept ==
  ASSUME ClientInv, NEW r \in Requests, Ask(r)
  PROVE  ClientInv' /\ BacklogStep
<1>1. /\ requests' = Append(requests, r) /\ net' = Append(net, r)
      /\ got' = got /\ wire' = wire /\ outbuf' = outbuf /\ served' = served
      /\ close_after_flush' = close_after_flush /\ stage' = stage
  BY DEF Ask, clientVars
<1>2. /\ requests \in Seq(Requests) /\ net \in Seq(Requests) /\ served \in Seq(Requests)
      /\ Len(served) <= Len(requests)
      /\ \A k \in 1..Len(served) : served[k] = requests[k]
      /\ (got \o wire) \o outbuf = Flat(served)
      /\ Len(outbuf) \in Nat
  BY DEF ClientInv, ClientTypes, InOrder
<1>3. /\ requests' \in Seq(Requests) /\ Len(requests') = Len(requests) + 1
      /\ requests'[Len(requests) + 1] = r
      /\ \A k \in 1..Len(requests) : requests'[k] = requests[k]
  BY <1>1, <1>2, AppendProperties
<1>4. /\ net' \in Seq(Requests) /\ Len(net') = Len(net) + 1
      /\ net'[Len(net) + 1] = r
      /\ \A k \in 1..Len(net) : net'[k] = net[k]
  BY <1>1, <1>2, AppendProperties
<1>5. Len(requests) \in Nat /\ Len(net) \in Nat /\ Len(served) \in Nat
  BY <1>2
<1>6. ClientTypes'
  BY Zenon, <1>1, <1>3, <1>4 DEF ClientInv, ClientTypes
<1>7. Bounded' /\ BacklogStep
  BY <1>1, <1>2 DEF ClientInv, Bounded, BacklogStep
<1>8. InOrder'
  <2>1. \A k \in 1..Len(served) : k \in 1..Len(requests)
    BY <1>2, <1>5
  <2>2. \A k \in 1..Len(served) : served[k] = requests'[k]
    BY Zenon, <1>2, <1>3, <2>1
  <2>3. Len(served) <= Len(requests')
    BY <1>2, <1>3, <1>5
  <2> QED  BY Zenon, <1>1, <1>2, <2>2, <2>3 DEF InOrder
<1>9. Awaiting => Awaiting'
  <2> SUFFICES ASSUME Awaiting PROVE Awaiting'
    OBVIOUS
  <2>1. Len(requests) = Len(served) + Len(net)
        /\ \A k \in 1..Len(net) : requests[Len(served) + k] = net[k]
    BY Zenon DEF Awaiting
  <2>2. Len(requests') = Len(served') + Len(net')
    BY <1>1, <1>3, <1>4, <1>5, <2>1
  <2>3. ASSUME NEW k \in 1..Len(net') PROVE requests'[Len(served) + k] = net'[k]
    <3>1. CASE k \in 1..Len(net)
      <4>1. Len(served) + k \in 1..Len(requests)
        BY <1>5, <2>1, <3>1
      <4> QED  BY Zenon, <1>3, <1>4, <2>1, <3>1, <4>1
    <3>2. CASE k = Len(net) + 1
      <4>1. Len(served) + k = Len(requests) + 1
        BY <1>5, <2>1, <3>2
      <4> QED  BY Zenon, <1>3, <1>4, <3>2, <4>1
    <3>3. k \in 1..Len(net) \/ k = Len(net) + 1
      BY <1>4, <1>5
    <3> QED  BY Zenon, <3>1, <3>2, <3>3
  <2> QED  BY Zenon, <1>1, <2>2, <2>3 DEF Awaiting
<1> QED  BY Zenon, <1>1, <1>6, <1>7, <1>8, <1>9 DEF ClientInv, Open

\* Taking the first of t to the end of s leaves s \o t as it is.
HeadMoves(s, t) == Append(s, t[1]) \o Tail(t) = s \o t

\* The first entry of a sequence moved to the end of the one before it.
LEMMA MovedHead ==
  ASSUME NEW S, NEW s \in Seq(S), NEW t \in Seq(S), t # <<>>
  PROVE  /\ Append(s, t[1]) \in Seq(S) /\ Tail(t) \in Seq(S) /\ Len(Tail(t)) = Len(t) - 1
         /\ HeadMoves(s, t)
<1> DEFINE a == Append(s, t[1])
           b == Tail(t)
           u == a \o b
           v == s \o t
<1>1. t[1] \in S /\ Len(t) \in Nat /\ Len(t) # 0 /\ Len(s) \in Nat
  BY EmptySeq
<1>2. /\ a \in Seq(S) /\ Len(a) = Len(s) + 1 /\ a[Len(s) + 1] = t[1]
      /\ \A k \in 1..Len(s) : a[k] = s[k]
  BY <1>1, AppendProperties
<1>3. /\ b \in Seq(S) /\ Len(b) = Len(t) - 1
      /\ \A k \in 1..Len(b) : b[k] = t[k + 1]
  BY HeadTailProperties
<1> HIDE DEF a, b
<1>4. /\ u \in Seq(S) /\ Len(u) = Len(a) + Len(b)
      /\ \A k \in 1..Len(a) + Len(b) : u[k] = IF k <= Len(a) THEN a[k] ELSE b[k - Len(a)]
  BY Zenon, <1>2, <1>3, ConcatProperties
<1>5. /\ v \in Seq(S) /\ Len(v) = Len(s) + Len(t)
      /\ \A k \in 1..Len(s) + Len(t) : v[k] = IF k <= Len(s) THEN s[k] ELSE t[k - Len(s)]
  BY ConcatProperties
<1> HIDE DEF u, v
<1>6. Len(u) = Len(v)
  BY <1>1, <1>2, <1>3, <1>4, <1>5
<1>7. ASSUME NEW k \in 1..Len(u) PROVE u[k] = v[k]
  <2>1. k \in 1..Len(a) + Len(b) /\ k \in 1..Len(s) + Len(t)
    BY <1>4, <1>5, <1>6
  <2>2. CASE k <= Len(s)
    <3>1. k <= Len(a) /\ k \in 1..Len(s)
      BY <1>1, <1>2, <2>1, <2>2
    <3>2. u[k] = a[k] /\ v[k] = s[k]
      BY Zenon, <1>4, <1>5, <2>1, <2>2, <3>1
    <3> QED  BY Zenon, <1>2, <3>1, <3>2
  <2>3. CASE k = Len(s) + 1
    <3>1. k <= Len(a) /\ ~(k <= Len(s)) /\ k - Len(s) = 1
      BY <1>1, <1>2, <2>3
    <3>2. u[k] = a[k] /\ v[k] = t[1]
      BY Zenon, <1>4, <1>5, <2>1, <3>1
    <3> QED  BY Zenon, <1>2, <2>3, <3>2
  <2>4. CASE k > Len(s) + 1
    <3>1. /\ ~(k <= Len(a)) /\ ~(k <= Len(s)) /\ k - Len(a) \in 1..Len(b)
          /\ (k - Len(a)) + 1 = k - Len(s)
      BY <1>1, <1>2, <1>3, <2>1, <2>4
    <3>2. u[k] = b[k - Len(a)] /\ v[k] = t[k - Len(s)]
      BY Zenon, <1>4, <1>5, <2>1, <3>1
    <3> QED  BY ZenonT(60), <1>3, <3>1, <3>2
  <2> QED  BY <1>1, <2>1, <2>2, <2>3, <2>4
<1>8. u = v
  BY Zenon, <1>4, <1>5, <1>6, <1>7, SeqEqual
<1> QED  BY Zenon, <1>2, <1>3, <1>8 DEF HeadMoves, a, b, u, v

\* The peer takes a response off the wire: the stream stays the same.
LEMMA PeerReadsKept ==
  ASSUME ClientInv, PeerReads
  PROVE  ClientInv' /\ BacklogStep
<1>1. /\ got' = Append(got, wire[1]) /\ wire' = Tail(wire) /\ wire # <<>>
      /\ requests' = requests /\ net' = net /\ outbuf' = outbuf /\ served' = served
      /\ close_after_flush' = close_after_flush /\ stage' = stage
  BY DEF PeerReads, clientVars
<1>2. got \in Seq(Nat) /\ wire \in Seq(Nat) /\ outbuf \in Seq(Nat) /\ Len(wire) <= SendBuffer
      /\ Len(wire) \in Nat /\ Len(outbuf) \in Nat
  BY DEF ClientInv, ClientTypes, Bounded
<1>3. /\ got' \in Seq(Nat) /\ wire' \in Seq(Nat) /\ Len(wire') = Len(wire) - 1
      /\ got' \o wire' = got \o wire
  <2>1. /\ Append(got, wire[1]) \in Seq(Nat) /\ Tail(wire) \in Seq(Nat)
        /\ Len(Tail(wire)) = Len(wire) - 1 /\ HeadMoves(got, wire)
    BY Zenon, <1>1, <1>2, MovedHead
  <2> QED  BY Zenon, <1>1, <2>1 DEF HeadMoves
<1>4. ClientTypes'
  BY Zenon, <1>1, <1>3 DEF ClientInv, ClientTypes
<1>5. Bounded' /\ BacklogStep
  BY <1>1, <1>2, <1>3, ClientAssumption DEF ClientInv, Bounded, BacklogStep
<1>6. InOrder' /\ (Awaiting => Awaiting')
  BY Zenon, <1>1, <1>3 DEF ClientInv, InOrder, Awaiting
<1> QED  BY Zenon, <1>1, <1>4, <1>5, <1>6 DEF ClientInv, Open

\* What is cut in two after n entries is whole again when put together.
Rejoins(s, n) == SubSeq(s, 1, n) \o SubSeq(s, n + 1, Len(s)) = s

\* What SubSeq gives when a sequence is cut after n entries.
LEMMA SplitAt ==
  ASSUME NEW S, NEW s \in Seq(S), NEW n \in 0..Len(s)
  PROVE  /\ SubSeq(s, 1, n) \in Seq(S) /\ Len(SubSeq(s, 1, n)) = n
         /\ SubSeq(s, n + 1, Len(s)) \in Seq(S) /\ Len(SubSeq(s, n + 1, Len(s))) = Len(s) - n
         /\ Rejoins(s, n)
         /\ \A k \in 1..n : SubSeq(s, 1, n)[k] = s[k]
         /\ \A k \in 1..(Len(s) - n) : SubSeq(s, n + 1, Len(s))[k] = s[n + k]
<1> DEFINE a == SubSeq(s, 1, n)
           b == SubSeq(s, n + 1, Len(s))
           u == a \o b
<1>1. Len(s) \in Nat
  OBVIOUS
<1>2. /\ a \in Seq(S) /\ Len(a) = n /\ \A k \in 1..n : a[k] = s[k]
  BY <1>1, SubSeqProperties
<1>3. /\ b \in Seq(S) /\ Len(b) = Len(s) - n /\ \A k \in 1..(Len(s) - n) : b[k] = s[n + k]
  BY <1>1, SubSeqProperties
<1> HIDE DEF a, b
<1>4. /\ u \in Seq(S) /\ Len(u) = Len(a) + Len(b)
      /\ \A k \in 1..Len(a) + Len(b) : u[k] = IF k <= Len(a) THEN a[k] ELSE b[k - Len(a)]
  BY <1>2, <1>3, ConcatProperties
<1> HIDE DEF u
<1>5. Len(u) = Len(s)
  BY <1>1, <1>2, <1>3, <1>4
<1>6. ASSUME NEW k \in 1..Len(u) PROVE u[k] = s[k]
  <2>1. k \in 1..Len(a) + Len(b)
    BY <1>4
  <2>2. CASE k <= Len(a)
    <3>1. k \in 1..n
      BY <1>2, <2>1, <2>2
    <3> QED  BY Zenon, <1>2, <1>4, <2>1, <2>2, <3>1
  <2>3. CASE ~(k <= Len(a))
    <3>1. k - Len(a) \in 1..(Len(s) - n) /\ n + (k - Len(a)) = k
      BY <1>1, <1>2, <1>3, <2>1, <2>3
    <3> QED  BY Zenon, <1>3, <1>4, <2>1, <2>3, <3>1
  <2> QED  BY <2>2, <2>3
<1>7. u = s
  BY <1>4, <1>5, <1>6, SeqEqual
<1> QED  BY Zenon, <1>2, <1>3, <1>7 DEF Rejoins, a, b, u

\* The two ways to put three sequences together agree.
Associates(s, t, u) == s \o (t \o u) = (s \o t) \o u

\* They agree for any three sequences.
LEMMA Associated ==
  ASSUME NEW S, NEW s \in Seq(S), NEW t \in Seq(S), NEW u \in Seq(S)
  PROVE  Associates(s, t, u)
  BY Regrouped DEF Associates

\* send_some moves responses from the backlog to the wire: the stream stays
\* the same, the backlog only shrinks.
LEMMA SendKept ==
  ASSUME ClientInv, send_some
  PROVE  ClientInv' /\ BacklogStep
<1> DEFINE n == IF Len(outbuf) <= SendBuffer - Len(wire) THEN Len(outbuf)
                                                         ELSE SendBuffer - Len(wire)
           a == SubSeq(outbuf, 1, n)
           b == SubSeq(outbuf, n + 1, Len(outbuf))
<1>1. /\ wire' = wire \o a /\ outbuf' = b /\ stage = "drain" /\ stage' = AfterDrain
      /\ got' = got /\ requests' = requests /\ net' = net /\ served' = served
      /\ close_after_flush' = close_after_flush
  BY Zenon DEF send_some, peerVars
<1>2. /\ got \in Seq(Nat) /\ wire \in Seq(Nat) /\ outbuf \in Seq(Nat)
      /\ Len(wire) <= SendBuffer /\ Len(outbuf) <= HardLimit
      /\ Len(wire) \in Nat /\ Len(outbuf) \in Nat
      /\ (got \o wire) \o outbuf = Flat(served)
  BY DEF ClientInv, ClientTypes, Bounded, InOrder
<1>3. n \in 0..Len(outbuf) /\ n + Len(wire) <= SendBuffer
  BY <1>2, ClientAssumption
<1> HIDE DEF n
<1>4. /\ a \in Seq(Nat) /\ Len(a) = n /\ b \in Seq(Nat) /\ Len(b) = Len(outbuf) - n
      /\ a \o b = outbuf
  <2>1. /\ a \in Seq(Nat) /\ Len(a) = n /\ b \in Seq(Nat) /\ Len(b) = Len(outbuf) - n
        /\ Rejoins(outbuf, n)
    BY SMTT(90), <1>2, <1>3, SplitAt
  <2> QED  BY Zenon, <2>1 DEF Rejoins
<1> HIDE DEF a, b
<1>5. wire \o a \in Seq(Nat) /\ Len(wire \o a) = Len(wire) + n
  <2>1. wire \o a \in Seq(Nat) /\ Len(wire \o a) = Len(wire) + Len(a)
    BY ZenonT(60), <1>2, <1>4, ConcatProperties
  <2> QED  BY Zenon, <1>4, <2>1
<1>6. (got \o (wire \o a)) \o b = (got \o wire) \o outbuf
  <2> DEFINE w == got \o wire
  <2>1. got \o (wire \o a) = w \o a
    <3>1. Associates(got, wire, a)
      BY Zenon, <1>2, <1>4, Associated
    <3> QED  BY Zenon, <3>1 DEF Associates
  <2>2. w \in Seq(Nat)
    BY <1>2, ConcatProperties
  <2> HIDE DEF w
  <2>3. w \o (a \o b) = (w \o a) \o b
    <3>1. Associates(w, a, b)
      BY Zenon, <1>4, <2>2, Associated
    <3> QED  BY Zenon, <3>1 DEF Associates
  <2> QED  BY Zenon, <1>4, <2>1, <2>3 DEF w
<1>7. ClientTypes'
  BY Zenon, <1>1, <1>4, <1>5 DEF ClientInv, ClientTypes
<1>8. Len(outbuf') <= Len(outbuf) /\ Len(wire') <= SendBuffer /\ Len(outbuf') \in Nat
  BY <1>1, <1>2, <1>3, <1>4, <1>5, ClientAssumption
<1>9. Bounded' /\ BacklogStep
  BY <1>1, <1>2, <1>8, ClientAssumption DEF Bounded, BacklogStep
<1>10. InOrder' /\ (Awaiting => Awaiting')
  BY Zenon, <1>1, <1>6 DEF ClientInv, InOrder, Awaiting
<1>11. stage # "closed" /\ (close_after_flush => stage' # "read")
  BY <1>1 DEF AfterDrain
<1> QED  BY Zenon, <1>1, <1>7, <1>9, <1>10, <1>11 DEF ClientInv, Open

\* One read: the chunk is the next requests of the stream, on_bytes serves
\* them in order, and apply_session_input keeps the session or ends it for
\* good.
LEMMA ReadKept ==
  ASSUME ClientInv, ReadData
  PROVE  ClientInv' /\ BacklogStep
<1>1. PICK n \in 1..Len(net) : /\ apply_session_input(on_bytes(SubSeq(net, 1, n)))
                               /\ net' = SubSeq(net, n + 1, Len(net))
  BY Zenon DEF ReadData
<1> DEFINE chunk == SubSeq(net, 1, n)
           s == on_bytes(chunk)
<1>2. /\ stage = "read" /\ should_read_available_input
      /\ requests' = requests /\ got' = got /\ wire' = wire
  BY DEF ReadData, peerVars
<1>3. /\ outbuf' = s.out /\ served' = s.served
      /\ close_after_flush' = (s.end = "logout" \/ (s.end = "over" /\ s.out # <<>>))
      /\ stage' = IF s.end = "none" THEN "read"
                  ELSE IF s.end = "over" /\ s.out = <<>> THEN "closed" ELSE "rearm"
  BY Zenon, <1>1 DEF apply_session_input
<1>4. /\ requests \in Seq(Requests) /\ net \in Seq(Requests) /\ served \in Seq(Requests)
      /\ got \in Seq(Nat) /\ wire \in Seq(Nat) /\ outbuf \in Seq(Nat)
      /\ Len(net) \in Nat /\ Len(served) \in Nat /\ Len(outbuf) \in Nat
  BY DEF ClientInv, ClientTypes
<1>5. close_after_flush = FALSE /\ Awaiting
  BY <1>2 DEF ClientInv, ClientTypes, Open
<1>6. /\ Len(requests) = Len(served) + Len(net)
      /\ \A k \in 1..Len(net) : requests[Len(served) + k] = net[k]
  BY Zenon, <1>5 DEF Awaiting
<1>7. /\ chunk \in Seq(Requests) /\ Len(chunk) = n /\ n \in Nat
      /\ net' \in Seq(Requests) /\ Len(net') = Len(net) - n
      /\ \A k \in 1..n : chunk[k] = net[k]
      /\ \A k \in 1..(Len(net) - n) : net'[k] = net[n + k]
  <2>1. n \in 0..Len(net)
    BY <1>4
  <2> QED  BY SMTT(30), <1>1, <1>4, <2>1, SplitAt
<1>8. NextRequests(chunk)
  <2> HIDE DEF chunk
  <2>1. \A k \in 1..n : k \in 1..Len(net)
    BY <1>4
  <2> QED  BY Zenon, <1>6, <1>7, <2>1 DEF NextRequests
<1>9. Progress(Started, 0)
  <2>1. /\ Started.out = outbuf /\ Started.served = served /\ Started.end = "none"
        /\ Started = [out |-> Started.out, served |-> Started.served, end |-> Started.end]
    BY DEF Started
  <2>2. Started.end \in {"none", "logout", "over"}
    BY <2>1
  <2>3. Len(served) <= Len(served) /\ Len(served) <= Len(served) + 0 /\ Len(served) = Len(served) + 0
    BY <1>4
  <2> QED  BY Zenon, <1>4, <2>1, <2>2, <2>3 DEF ClientInv, Bounded, InOrder, Progress
<1> HIDE DEF chunk
<1>10. Progress(s, n)
  BY Zenon, <1>4, <1>7, <1>8, <1>9, BytesProgress
<1> HIDE DEF s
<1>11. /\ s.out \in Seq(Nat) /\ Len(s.out) <= HardLimit
       /\ s.served \in Seq(Requests)
       /\ s.end \in {"none", "logout", "over"}
       /\ Len(served) <= Len(s.served) /\ Len(s.served) <= Len(served) + n
       /\ s.end = "none" => Len(s.served) = Len(served) + n
       /\ \A k \in 1..Len(s.served) : s.served[k] = requests[k]
       /\ (got \o wire) \o s.out = Flat(s.served)
  BY Zenon, <1>10 DEF Progress
<1>12. ClientTypes'
  <2>1. close_after_flush' \in BOOLEAN
    BY Zenon, <1>3
  <2> QED  BY Zenon, <1>2, <1>3, <1>4, <1>7, <1>11, <2>1 DEF ClientTypes
<1>13. Bounded'
  BY Zenon, <1>2, <1>3, <1>11 DEF ClientInv, Bounded
<1>14. Len(s.served) \in Nat /\ Len(s.served) <= Len(requests)
  BY <1>4, <1>6, <1>7, <1>11
<1>15. InOrder'
  BY Zenon, <1>2, <1>3, <1>11, <1>14 DEF InOrder
<1>16. BacklogStep
  BY <1>2, <1>3, <1>5, <1>11 DEF BacklogStep, should_read_available_input
<1>17. close_after_flush' => stage' # "read"
  BY Zenon, <1>3
<1>18. Open' => s.end = "none"
  BY Zenon, <1>3, <1>11 DEF Open
<1>19. s.end = "none" => Awaiting'
  <2> SUFFICES ASSUME s.end = "none" PROVE Awaiting'
    OBVIOUS
  <2>1. Len(s.served) = Len(served) + n
    BY <1>11
  <2>2. Len(requests') = Len(served') + Len(net')
    BY <1>2, <1>3, <1>4, <1>6, <1>7, <2>1
  <2>3. ASSUME NEW k \in 1..Len(net') PROVE requests[Len(s.served) + k] = net'[k]
    <3>1. k \in 1..(Len(net) - n) /\ n + k \in 1..Len(net)
          /\ Len(s.served) + k = Len(served) + (n + k)
      BY <1>4, <1>7, <2>1
    <3> QED  BY Zenon, <1>6, <1>7, <3>1
  <2> QED  BY Zenon, <1>2, <1>3, <2>2, <2>3 DEF Awaiting
<1> QED  BY Zenon, <1>12, <1>13, <1>15, <1>16, <1>17, <1>18, <1>19 DEF ClientInv

\* Every step keeps the invariant and obeys the limits of the backlog.
LEMMA ClientSteps == ClientInv /\ ClientNext => ClientInv' /\ BacklogStep
<1> SUFFICES ASSUME ClientInv, ClientNext PROVE ClientInv' /\ BacklogStep
  OBVIOUS
<1>1. CASE \E r \in Requests : Ask(r)
  BY Zenon, <1>1, AskKept
<1>2. CASE PeerReads
  BY Zenon, <1>2, PeerReadsKept
<1>3. CASE send_some
  BY Zenon, <1>3, SendKept
<1>4. CASE ReadData
  BY Zenon, <1>4, ReadKept
<1> QED  BY Zenon, <1>1, <1>2, <1>3, <1>4, QuietSteps DEF ClientNext, Service

\* The invariant of the connection holds throughout.
LEMMA AlwaysClientInv == ClientSpec => []ClientInv
<1>1. ClientInv /\ UNCHANGED connectionVars => ClientInv'
  <2> SUFFICES ASSUME ClientInv, UNCHANGED connectionVars PROVE ClientInv'
    OBVIOUS
  <2>1. /\ requests' = requests /\ net' = net /\ served' = served /\ got' = got
        /\ wire' = wire /\ outbuf' = outbuf /\ close_after_flush' = close_after_flush
        /\ stage' = stage
    BY DEF connectionVars, peerVars, clientVars
  <2> QED  BY Zenon, <2>1, QuietKept DEF ClientInv
<1>2. ClientInv /\ [ClientNext]_connectionVars => ClientInv'
  BY Zenon, <1>1, ClientSteps
<1> QED  BY InitClientInv, <1>2, PTL DEF ClientSpec

\* For every stream of requests and every limit: the bytes a peer has
\* received, those on the wire and those in outbuf are together the responses
\* to the requests served, each once and in order, and the requests served
\* are the first ones the peer sent (epoll_server.cpp: service_client,
\* apply_session_input, flush).
THEOREM AnsweredInOrder == ClientSpec => []ResponsesInOrder
<1>1. ClientInv => ResponsesInOrder
  <2> SUFFICES ASSUME ClientInv PROVE ResponsesInOrder
    OBVIOUS
  <2>1. /\ served \in Seq(Requests) /\ requests \in Seq(Requests) /\ Len(served) <= Len(requests)
        /\ \A k \in 1..Len(served) : served[k] = requests[k]
        /\ Len(served) \in Nat /\ Len(requests) \in Nat
    BY DEF ClientInv, ClientTypes, InOrder
  <2>2. served = SubSeq(requests, 1, Len(served))
    <3> DEFINE p == SubSeq(requests, 1, Len(served))
    <3>1. Len(served) \in 0..Len(requests)
      BY <2>1
    <3>2. p \in Seq(Requests) /\ Len(p) = Len(served) /\ \A k \in 1..Len(served) : p[k] = requests[k]
      BY SMTT(30), <2>1, <3>1, SplitAt
    <3> HIDE DEF p
    <3>3. \A k \in 1..Len(served) : served[k] = p[k]
      BY Zenon, <2>1, <3>2
    <3>4. served = p
      BY <2>1, <3>2, <3>3, SeqEqual
    <3> QED  BY <3>4 DEF p
  <2>3. got \o wire \o outbuf = FlattenSeq([k \in DOMAIN served |-> Responses(k, served[k])])
    BY Zenon DEF ClientInv, InOrder, Flat, Listed
  <2> QED  BY Zenon, <2>2, <2>3 DEF ResponsesInOrder
<1> QED  BY AlwaysClientInv, <1>1, PTL

\* For every limit: no step takes outbuf over max_outbuf_hard_bytes, a
\* backlog at the soft limit grows only once the peer has hung up, and a
\* session to be closed after its flush serves nothing more
\* (should_read_available_input, apply_session_input).
THEOREM BacklogStaysBounded == ClientSpec => BacklogBounded
<1>1. ClientInv /\ [ClientNext]_connectionVars => [BacklogStep]_connectionVars
  BY Zenon, ClientSteps
<1> QED  BY AlwaysClientInv, <1>1, PTL DEF ClientSpec, BacklogBounded
=============================================================================
