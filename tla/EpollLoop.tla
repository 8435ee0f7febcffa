------------------------------ MODULE EpollLoop ------------------------------
(***************************************************************************)
(* The event loop of the epoll gateway (src/gateway/epoll_server.cpp):     *)
(* accepting with a bound per turn, descriptors that are reused, events of *)
(* one epoll_wait batch applied after some of their connections are gone,  *)
(* the pause of the listener when descriptors run out, and the stop flag   *)
(* another thread sets.                                                    *)
(*                                                                         *)
(* What an event does to its connection is module EpollClient; here its    *)
(* service either keeps or closes the connection.                          *)
(***************************************************************************)
EXTENDS Integers, Sequences, FiniteSets, FiniteSetsExt, SequencesExt

CONSTANTS
  Conns,              \* the clients, which may connect again
  MaxConnects,        \* bound: connections opened
  Fds,                \* the process's descriptors the loop may get
  OtherFds,           \* bound: descriptors the rest of the process may hold
  Generations,        \* number of generation values (2^32)
  MaxAcceptsPerTick,  \* max_accepts_per_tick
  MayStop             \* whether request_stop is called

ASSUME EpollLoopAssumption ==
  /\ Generations \in Nat /\ MaxAcceptsPerTick \in Nat \ {0}
  /\ Fds \subseteq Nat /\ IsFiniteSet(Fds)
  \* fewer connections are accepted in one turn than there are generations
  /\ Generations > MaxAcceptsPerTick + 1

VARIABLES
  opened,           \* number of connections opened
  backlog,          \* connections the kernel has completed, in order
  clients,          \* ClientMap: descriptor -> [gen, conn]
  others,           \* descriptors held by the rest of the process
  next_generation, listener_armed, accepted,
  batch,            \* events of this turn not yet dispatched
  pc,               \* "init", "wait", "dispatch", "accept", "returned"
  stop_requested,
  asked,            \* history: request_stop has been called
  starved           \* history: the listener was paused when no client was open

vars == <<opened, backlog, clients, others, next_generation, listener_armed, accepted, batch, pc,
          stop_requested, asked, starved>>

kListenerGeneration == 0
Listener == [gen |-> kListenerGeneration]

Init ==
  /\ opened = 0 /\ backlog = <<>> /\ clients = <<>> /\ others = {}
  /\ next_generation = 1 /\ listener_armed = TRUE /\ accepted = 0
  /\ batch = <<>> /\ pc = "init"
  /\ stop_requested = FALSE /\ asked = FALSE /\ starved = FALSE

Live == {clients[fd].conn : fd \in DOMAIN clients}
FreeFds == Fds \ (DOMAIN clients \cup others)

-----------------------------------------------------------------------------
(* Other parties: clients, the process's other files, the stopping thread. *)

Connect(c) ==
  /\ c \notin Live /\ c \notin Range(backlog)
  /\ pc # "returned" /\ opened < MaxConnects
  /\ opened' = opened + 1
  /\ backlog' = Append(backlog, c)
  /\ UNCHANGED <<clients, others, next_generation, listener_armed, accepted, batch, pc,
                 stop_requested, asked, starved>>

OtherOpen ==
  /\ Cardinality(others) < OtherFds
  /\ \E fd \in FreeFds : others' = others \cup {fd}
  /\ UNCHANGED <<opened, backlog, clients, next_generation, listener_armed, accepted, batch, pc,
                 stop_requested, asked, starved>>

OtherClose ==
  /\ \E fd \in others : others' = others \ {fd}
  /\ UNCHANGED <<opened, backlog, clients, next_generation, listener_armed, accepted, batch, pc,
                 stop_requested, asked, starved>>

request_stop ==
  /\ MayStop /\ ~asked
  /\ asked' = TRUE /\ stop_requested' = TRUE
  /\ UNCHANGED <<opened, backlog, clients, others, next_generation, listener_armed, accepted, batch, pc, starved>>

-----------------------------------------------------------------------------
\* Mutant: the listener is not re-armed.
set_listener_armed_OneWay(armed) == listener_armed' = (listener_armed /\ armed)

set_listener_armed(armed) == listener_armed' = armed

\* serve_listen_socket up to the loop.
Start ==
  /\ pc = "init"
  /\ stop_requested' = FALSE
  /\ pc' = "wait"
  /\ UNCHANGED <<opened, backlog, clients, others, next_generation, listener_armed, accepted, batch, asked, starved>>

\* epoll_wait: any of the live connections may be ready, in any order.
EventOf(fd) == [fd |-> fd, gen |-> clients[fd].gen, conn |-> clients[fd].conn]

Wait ==
  /\ pc = "wait" /\ ~stop_requested
  /\ \E fds \in SUBSET DOMAIN clients :
       LET listening == IF listener_armed /\ backlog # <<>> THEN {Listener} ELSE {}
           events == {EventOf(fd) : fd \in fds} \cup listening
       IN  /\ events # {}
           /\ \E order \in SetToSeqs(events) : batch' = order
  /\ pc' = "dispatch"
  /\ UNCHANGED <<opened, backlog, clients, others, next_generation, listener_armed, accepted,
                 stop_requested, asked, starved>>

\* Mutant: the stop flag is looked at when there is nothing to serve only.
Stop_WhenIdle ==
  /\ pc = "wait" /\ stop_requested
  /\ DOMAIN clients = {}
  /\ pc' = "returned" /\ clients' = <<>>
  /\ UNCHANGED <<opened, backlog, others, next_generation, listener_armed, accepted, batch,
                 stop_requested, asked, starved>>

\* run_event_loop ends, close_all_clients.
Stop ==
  /\ pc = "wait" /\ stop_requested
  /\ pc' = "returned" /\ clients' = <<>>
  /\ UNCHANGED <<opened, backlog, others, next_generation, listener_armed, accepted, batch,
                 stop_requested, asked, starved>>

BatchDone ==
  /\ pc = "dispatch" /\ batch = <<>>
  /\ pc' = "wait"
  /\ UNCHANGED <<opened, backlog, clients, others, next_generation, listener_armed, accepted, batch,
                 stop_requested, asked, starved>>

-----------------------------------------------------------------------------
(* dispatch_ready_event.                                                   *)

find_live_client(e) == e.fd \in DOMAIN clients /\ clients[e.fd].gen = e.gen

IsClientEvent == pc = "dispatch" /\ batch # <<>> /\ batch[1] # Listener

\* process_client_event: nothing for a stale event, else the connection is
\* served and goes on ...
Serve ==
  /\ IsClientEvent
  /\ batch' = Tail(batch)
  /\ UNCHANGED <<opened, backlog, clients, others, next_generation, listener_armed, accepted, pc,
                 stop_requested, asked, starved>>

\* ... or is closed.
close_client_entry ==
  /\ IsClientEvent /\ find_live_client(batch[1])
  /\ clients' = [fd \in DOMAIN clients \ {batch[1].fd} |-> clients[fd]]
  /\ set_listener_armed(TRUE)
  /\ batch' = Tail(batch)
  /\ UNCHANGED <<opened, backlog, others, next_generation, accepted, pc, stop_requested, asked, starved>>

ListenerEvent ==
  /\ pc = "dispatch" /\ batch # <<>> /\ batch[1] = Listener
  /\ batch' = Tail(batch)
  /\ pc' = "accept" /\ accepted' = 0
  /\ UNCHANGED <<opened, backlog, clients, others, next_generation, listener_armed, stop_requested, asked, starved>>

-----------------------------------------------------------------------------
(* accept_connections.                                                     *)

\* Mutant: the counter wraps to the listener's generation.
NextGeneration_Wraps(g) == (g + 1) % Generations

\* next_client_generation
NextGeneration(g) ==
  IF (g + 1) % Generations = kListenerGeneration THEN 1 ELSE (g + 1) % Generations

\* The kernel gives the lowest free descriptor; register_client.
Accept ==
  /\ pc = "accept" /\ backlog # <<>> /\ FreeFds # {}
  /\ clients' = [fd \in DOMAIN clients \cup {Min(FreeFds)} |->
                   IF fd = Min(FreeFds) THEN [gen |-> next_generation, conn |-> backlog[1]]
                                        ELSE clients[fd]]
  /\ next_generation' = NextGeneration(next_generation)
  /\ backlog' = Tail(backlog)
  /\ accepted' = accepted + 1
  /\ pc' = IF accepted + 1 >= MaxAcceptsPerTick THEN "dispatch" ELSE "accept"
  /\ UNCHANGED <<opened, others, listener_armed, batch, stop_requested, asked, starved>>

\* register_client fails, or the connection was aborted before accept.
AcceptDropped ==
  /\ pc = "accept" /\ backlog # <<>> /\ FreeFds # {}
  /\ backlog' = Tail(backlog)
  /\ next_generation' \in {next_generation, NextGeneration(next_generation)}
  /\ accepted' = IF next_generation' = next_generation THEN accepted ELSE accepted + 1
  /\ pc' = IF accepted' >= MaxAcceptsPerTick THEN "dispatch" ELSE "accept"
  /\ UNCHANGED <<opened, clients, others, listener_armed, batch, stop_requested, asked, starved>>

AcceptDrained ==
  /\ pc = "accept" /\ backlog = <<>>
  /\ pc' = "dispatch"
  /\ UNCHANGED <<opened, backlog, clients, others, next_generation, listener_armed, accepted, batch,
                 stop_requested, asked, starved>>

\* EMFILE or ENFILE.
AcceptExhausted ==
  /\ pc = "accept" /\ backlog # <<>> /\ FreeFds = {}
  /\ set_listener_armed(FALSE)
  /\ starved' = (starved \/ DOMAIN clients = {})
  /\ pc' = "dispatch"
  /\ UNCHANGED <<opened, backlog, clients, others, next_generation, accepted, batch, stop_requested, asked>>

\* A fatal listener error.
AcceptFatal ==
  /\ pc = "accept" /\ MayStop
  /\ pc' = "returned" /\ clients' = <<>>
  /\ UNCHANGED <<opened, backlog, others, next_generation, listener_armed, accepted, batch,
                 stop_requested, asked, starved>>

-----------------------------------------------------------------------------
Loop ==
  \/ Start \/ Wait \/ Stop \/ BatchDone
  \/ Serve \/ close_client_entry \/ ListenerEvent
  \/ Accept \/ AcceptDropped \/ AcceptDrained \/ AcceptExhausted \/ AcceptFatal

Next ==
  \/ \E c \in Conns : Connect(c)
  \/ OtherOpen \/ OtherClose \/ request_stop
  \/ Loop

\* The listener is reported while it is ready: epoll_wait rotates its ready list.
ListenerTurn == Wait /\ Listener \in Range(batch')

Spec == Init /\ [][Next]_vars

\* The loop runs, clients end, other descriptors are closed again.
FairSpec ==
  Spec /\ WF_vars(Loop) /\ SF_vars(ListenerTurn) /\ SF_vars(close_client_entry)
       /\ WF_vars(OtherClose)

-----------------------------------------------------------------------------
(* Properties.                                                             *)

\* Events reach the connection they were reported for: closing a connection and
\* reusing its descriptor within a turn redirects none (the generation test in
\* find_live_client never has to save one), and no client event carries the
\* generation by which the listener is told.
EventsReachTheirClient ==
  pc # "returned" =>
    /\ \A fd \in DOMAIN clients : clients[fd].gen # kListenerGeneration
    /\ \A i \in DOMAIN batch :
         batch[i] # Listener =>
           find_live_client(batch[i]) /\ clients[batch[i].fd].conn = batch[i].conn

\* A pending connection is accepted or dropped, or the server returns: a paused
\* listener is armed again by the next client that ends.  The exception is a
\* pause that found no client, when the rest of the process held the descriptors:
\* nothing arms the listener after it.
Accepted ==
  \A c \in Conns :
    c \in Range(backlog) ~>
      \/ c \notin Range(backlog)
      \/ pc = "returned"
      \/ starved

\* A stop requested while the server runs is honoured.
StopHonoured == (stop_requested /\ pc # "init") ~> pc = "returned"
=============================================================================
