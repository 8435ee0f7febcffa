----------------------------- MODULE TcpAcceptor -----------------------------
(***************************************************************************)
(* The threaded TCP gateway's accept loop and its workers:                 *)
(* TcpServer::serve_listen_socket (src/gateway/tcp_server.cpp), with the   *)
(* cap on served connections, the reaping of finished workers through      *)
(* their done flags, exhaustion of descriptors, a fatal listener error and *)
(* the join at the end.  What a worker does with its connection is module  *)
(* Session.                                                                *)
(***************************************************************************)
EXTENDS Integers, Sequences, FiniteSets, SequencesExt

CONSTANTS
  Conns,      \* connections clients open
  Caps,       \* values of max_active_connections, 0: no cap
  Limits,     \* values of max_accepts, 0: serve for ever
  FdLimits    \* numbers of descriptors the process may have for connections

ASSUME OptionsAssumption == Caps \subseteq Nat /\ Limits \subseteq Nat

VARIABLES
  options,    \* TcpServerOptions and the process's descriptor limit
  conn,       \* where each connection is: "new", "backlog", "held" (accepted),
              \*   "served", "shut" (closed by its worker), "closed", "shed"
  pc,         \* the acceptor: "accept", "reap", "admit", "join", "returned"
  held,       \* the connection just accepted: <<>> or <<c>>
  workers,    \* the workers vector, as connections
  visit,      \* number of workers join_finished has looked at
  done,       \* connections whose worker has set its done flag
  joined,     \* connections whose worker has been joined
  accepted

vars == <<options, conn, pc, held, workers, visit, done, joined, accepted>>

Init ==
  /\ options \in [max_active_connections : Caps, max_accepts : Limits, fds : FdLimits]
  /\ conn = [c \in Conns |-> "new"]
  /\ pc = "accept" /\ held = <<>>
  /\ workers = <<>> /\ visit = 0
  /\ done = {} /\ joined = {} /\ accepted = 0

OpenFds == {c \in Conns : conn[c] \in {"held", "served"}}

Connect(c) ==
  /\ conn[c] = "new"
  /\ conn' = [conn EXCEPT ![c] = "backlog"]
  /\ UNCHANGED <<options, pc, held, workers, visit, done, joined, accepted>>

-----------------------------------------------------------------------------
(* The acceptor.                                                           *)

\* accept_retry gets a descriptor; without one it backs off and tries again.
accept_retry(c) ==
  /\ pc = "accept" /\ conn[c] = "backlog"
  /\ Cardinality(OpenFds) < options.fds
  /\ conn' = [conn EXCEPT ![c] = "held"]
  /\ held' = <<c>>
  /\ pc' = "reap" /\ visit' = 0
  /\ UNCHANGED <<options, workers, done, joined, accepted>>

AcceptFatal ==
  /\ pc = "accept"
  /\ pc' = "join"
  /\ UNCHANGED <<options, conn, held, workers, visit, done, joined, accepted>>

\* join_finished, one worker: its flag is read; if set, it is joined.
join_finished ==
  /\ pc = "reap" /\ visit < Len(workers)
  /\ IF workers[visit + 1] \in done
       THEN /\ joined' = joined \cup {workers[visit + 1]}
            /\ workers' = RemoveAt(workers, visit + 1)
            /\ UNCHANGED visit
       ELSE visit' = visit + 1 /\ UNCHANGED <<workers, joined>>
  /\ UNCHANGED <<options, conn, pc, held, done, accepted>>

Reaped ==
  /\ pc = "reap" /\ visit = Len(workers)
  /\ pc' = "admit"
  /\ UNCHANGED <<options, conn, held, workers, visit, done, joined, accepted>>

\* Mutant: off by one.
at_capacity_OneMore ==
  /\ options.max_active_connections # 0
  /\ Len(workers) > options.max_active_connections

at_capacity ==
  /\ options.max_active_connections # 0
  /\ Len(workers) >= options.max_active_connections

\* Mutant: the refused descriptor is not closed.
Shed_Leaks ==
  /\ pc = "admit" /\ at_capacity
  /\ held' = <<>> /\ pc' = "accept"
  /\ UNCHANGED <<options, conn, workers, visit, done, joined, accepted>>

Shed ==
  /\ pc = "admit" /\ at_capacity
  /\ conn' = [conn EXCEPT ![held[1]] = "shed"]
  /\ held' = <<>> /\ pc' = "accept"
  /\ UNCHANGED <<options, workers, visit, done, joined, accepted>>

reached_accept_limit(n) == options.max_accepts # 0 /\ n >= options.max_accepts

spawn_worker ==
  /\ pc = "admit" /\ ~at_capacity
  /\ conn' = [conn EXCEPT ![held[1]] = "served"]
  /\ workers' = Append(workers, held[1])
  /\ held' = <<>>
  /\ accepted' = accepted + 1
  /\ pc' = IF reached_accept_limit(accepted + 1) THEN "join" ELSE "accept"
  /\ UNCHANGED <<options, visit, done, joined>>

\* join_all: the first worker left, once its thread has ended; no flag is read.
join_all ==
  /\ pc = "join" /\ workers # <<>>
  /\ conn[workers[1]] = "closed"
  /\ joined' = joined \cup {workers[1]}
  /\ workers' = Tail(workers)
  /\ UNCHANGED <<options, conn, pc, held, visit, done, accepted>>

\* Mutant: the workers are left running.
Return_Detaches ==
  /\ pc = "join"
  /\ pc' = "returned"
  /\ UNCHANGED <<options, conn, held, workers, visit, done, joined, accepted>>

Return ==
  /\ pc = "join" /\ workers = <<>>
  /\ pc' = "returned"
  /\ UNCHANGED <<options, conn, held, workers, visit, done, joined, accepted>>

-----------------------------------------------------------------------------
(* A worker: serve_connection returns and the descriptor is closed, then   *)
(* the flag is set.                                                        *)

WorkerCloses(c) ==
  /\ conn[c] = "served"
  /\ conn' = [conn EXCEPT ![c] = "shut"]
  /\ UNCHANGED <<options, pc, held, workers, visit, done, joined, accepted>>

WorkerDone(c) ==
  /\ conn[c] = "shut"
  /\ conn' = [conn EXCEPT ![c] = "closed"]
  /\ done' = done \cup {c}
  /\ UNCHANGED <<options, pc, held, workers, visit, joined, accepted>>

-----------------------------------------------------------------------------
Acceptor ==
  \/ \E c \in Conns : accept_retry(c)
  \/ join_finished \/ Reaped \/ Shed \/ spawn_worker \/ join_all \/ Return

Worker(c) == WorkerCloses(c) \/ WorkerDone(c)

Next ==
  \/ Acceptor \/ AcceptFatal
  \/ \E c \in Conns : Connect(c) \/ Worker(c)

\* Threads run, and clients leave in the end (a worker blocks in read as long
\* as its client stays).
Spec ==
  Init /\ [][Next]_vars /\ WF_vars(Acceptor) /\ \A c \in Conns : WF_vars(Worker(c))

-----------------------------------------------------------------------------
(* Properties.                                                             *)

\* Never more connections are served at once than max_active_connections, and
\* no more are served in all than max_accepts.
LimitsRespected ==
  /\ options.max_active_connections # 0 =>
       Cardinality({c \in Conns : conn[c] = "served"}) <= options.max_active_connections
  /\ options.max_accepts # 0 => accepted <= options.max_accepts

\* When serve_listen_socket returns, for whatever reason, every connection it
\* took from the backlog has been closed and every thread joined.
DrainedOnReturn ==
  pc = "returned" =>
    \A c \in Conns : conn[c] \in {"new", "backlog", "shed"} \/ (conn[c] = "closed" /\ c \in joined)

\* A connection in the backlog is served to its end or refused, unless the loop
\* ends: being out of descriptors or at the cap does not stop it.  Once it ends,
\* the server returns when its clients have left.
EachServed ==
  /\ \A c \in Conns :
       conn[c] = "backlog" ~> (conn[c] \in {"shed", "closed"} \/ pc \in {"join", "returned"})
  /\ pc = "join" ~> pc = "returned"
=============================================================================
