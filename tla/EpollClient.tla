----------------------------- MODULE EpollClient -----------------------------
(***************************************************************************)
(* One connection of the epoll gateway (src/gateway/epoll_server.cpp): its *)
(* outbound buffer between a soft and a hard limit, its epoll interest,    *)
(* and the ways it ends, while the peer sends, reads slowly, shuts down    *)
(* its sending side or goes away at any step of an event's service.        *)
(*                                                                         *)
(* A request is the number of response units it produces (0: a frame the   *)
(* session logs out on); on_bytes is taken whole, module Session has its   *)
(* steps.  The kernel's buffers are external.  The bytes already sent at   *)
(* the front of outbuf are dropped before anything looks at its size, so   *)
(* outbuf here is what is pending().                                       *)
(***************************************************************************)
EXTENDS Integers, Sequences, FiniteSets, SequencesExt

CONSTANTS
  Requests,     \* the response sizes of the requests the peer may send
  MaxRequests,  \* bound: requests sent
  SoftLimit,    \* max_outbuf_bytes
  HardLimit,    \* max_outbuf_hard_bytes
  SendBuffer    \* room in the kernel's send buffer

ASSUME ClientAssumption ==
  /\ Requests \subseteq Nat
  /\ SoftLimit \in Nat /\ HardLimit \in Nat /\ SendBuffer \in Nat

VARIABLES
  peer,               \* "open", "half" (sent FIN), "hup", "error"
  requests,              \* history: the requests the peer sent, in order
  net,                \* requests in the kernel's receive buffer
  wire,               \* response units in the kernel's send buffer
  got,                \* history: response units the peer has read
  stage, ev,             \* the event loop: where it is, the event in service
  interest,           \* events registered with epoll besides ERR and HUP
  outbuf, input_closed, close_after_flush,   \* ClientState
  served              \* history: the requests answered, in order

peerVars == <<peer, requests, got>>
clientVars == <<outbuf, input_closed, close_after_flush, served>>
connectionVars == <<peerVars, net, wire, stage, ev, interest, clientVars>>

\* register_client
ClientInit ==
  /\ peer = "open" /\ requests = <<>> /\ net = <<>> /\ wire = <<>> /\ got = <<>>
  /\ stage = "wait" /\ ev = {}
  /\ interest = {"IN", "RDHUP"}
  /\ outbuf = <<>> /\ input_closed = FALSE /\ close_after_flush = FALSE
  /\ served = <<>>

-----------------------------------------------------------------------------
(* The peer.                                                               *)

Ask(r) ==
  /\ peer = "open" /\ Len(requests) < MaxRequests
  /\ requests' = Append(requests, r)
  /\ net' = Append(net, r)
  /\ UNCHANGED <<peer, wire, got, stage, ev, interest, clientVars>>

PeerReads ==
  /\ wire # <<>> /\ peer \in {"open", "half"}
  /\ got' = Append(got, wire[1])
  /\ wire' = Tail(wire)
  /\ UNCHANGED <<peer, requests, net, stage, ev, interest, clientVars>>

PeerLeaves(how) ==
  /\ \/ peer = "open" /\ how \in {"half", "hup", "error"}
     \/ peer = "half" /\ how \in {"hup", "error"}
  /\ peer' = how
  /\ UNCHANGED <<requests, net, wire, got, stage, ev, interest, clientVars>>

-----------------------------------------------------------------------------
(* The event loop.                                                         *)

Ready ==
  {e \in interest \cup {"ERR", "HUP"} :
     \/ e = "IN" /\ (net # <<>> \/ peer # "open")
     \/ e = "OUT" /\ (Len(wire) < SendBuffer \/ peer \in {"hup", "error"})
     \/ e = "RDHUP" /\ peer # "open"
     \/ e = "HUP" /\ peer \in {"hup", "error"}
     \/ e = "ERR" /\ peer = "error"}

\* epoll_wait reports the connection; service_client_event on an error.
ClientEvent ==
  /\ stage = "wait" /\ Ready # {}
  /\ ev' = Ready
  /\ stage' = IF "ERR" \in Ready THEN "closed" ELSE "drain"
  /\ UNCHANGED <<peerVars, net, wire, interest, clientVars>>

AfterDrain ==
  IF "IN" \in ev /\ ~input_closed /\ ~close_after_flush THEN "read" ELSE "rearm"

NothingToDrain ==
  /\ stage = "drain"
  /\ "OUT" \notin ev
  /\ stage' = AfterDrain
  /\ UNCHANGED <<peerVars, net, wire, ev, interest, clientVars>>

\* Mutant: a partial send starts over.
send_some_StartsOver ==
  /\ stage = "drain" /\ "OUT" \in ev
  /\ peer \in {"open", "half"}
  /\ LET n == IF Len(outbuf) <= SendBuffer - Len(wire) THEN Len(outbuf) ELSE SendBuffer - Len(wire)
     IN  /\ wire' = wire \o SubSeq(outbuf, 1, n)
         /\ outbuf' = IF n = Len(outbuf) THEN <<>> ELSE outbuf
  /\ stage' = AfterDrain
  /\ UNCHANGED <<peerVars, net, ev, interest, input_closed, close_after_flush, served>>

\* send_some: to the end of outbuf or of the kernel's room.
send_some ==
  /\ stage = "drain" /\ "OUT" \in ev
  /\ peer \in {"open", "half"}
  /\ LET n == IF Len(outbuf) <= SendBuffer - Len(wire) THEN Len(outbuf) ELSE SendBuffer - Len(wire)
     IN  /\ wire' = wire \o SubSeq(outbuf, 1, n)
         /\ outbuf' = SubSeq(outbuf, n + 1, Len(outbuf))
  /\ stage' = AfterDrain
  /\ UNCHANGED <<peerVars, net, ev, interest, input_closed, close_after_flush, served>>

\* A send to a peer that is gone, with something to send, fails.
SendFails ==
  /\ stage = "drain" /\ "OUT" \in ev
  /\ peer \in {"hup", "error"}
  /\ stage' = IF outbuf = <<>> THEN AfterDrain ELSE "closed"
  /\ UNCHANGED <<peerVars, net, wire, ev, interest, clientVars>>

\* The responses of request number k.
Responses(k, r) == [i \in 1..r |-> k]

\* Session::on_bytes: each request in turn, until one that does not fit or that
\* logs the session out.
OnBytes(s, r) ==
  IF s.end # "none" THEN s
  ELSE IF r = 0 THEN [s EXCEPT !.end = "logout"]
  ELSE IF Len(s.out) + r > HardLimit THEN [s EXCEPT !.end = "over"]
  ELSE [s EXCEPT !.out = @ \o Responses(Len(s.served) + 1, r), !.served = Append(@, r)]

on_bytes(chunk) ==
  LET after[n \in 0..Len(chunk)] ==
        IF n = 0 THEN [out |-> outbuf, served |-> served, end |-> "none"]
                 ELSE OnBytes(after[n - 1], chunk[n])
  IN  after[Len(chunk)]

\* Mutant: no soft limit in the read loop.
should_read_available_input_Always == TRUE

should_read_available_input == "HUP" \in ev \/ Len(outbuf) < SoftLimit

apply_session_input(s) ==
  /\ outbuf' = s.out /\ served' = s.served
  /\ close_after_flush' = (s.end = "logout" \/ (s.end = "over" /\ s.out # <<>>))
  /\ stage' = IF s.end = "none" THEN "read"
           ELSE IF s.end = "over" /\ s.out = <<>> THEN "closed" ELSE "rearm"

\* read_once with data: any number of the requests that have arrived.
ReadData ==
  /\ stage = "read" /\ should_read_available_input
  /\ net # <<>>
  /\ \E n \in 1..Len(net) :
       /\ apply_session_input(on_bytes(SubSeq(net, 1, n)))
       /\ net' = SubSeq(net, n + 1, Len(net))
  /\ UNCHANGED <<peerVars, wire, ev, interest, input_closed>>

\* EOF, or EAGAIN.
ReadNothing ==
  /\ stage = "read" /\ should_read_available_input
  /\ net = <<>> /\ peer # "error"
  /\ input_closed' = (peer # "open")
  /\ stage' = "rearm"
  /\ UNCHANGED <<peerVars, net, wire, ev, interest, outbuf, close_after_flush, served>>

ReadError ==
  /\ stage = "read" /\ should_read_available_input
  /\ peer = "error"
  /\ stage' = "closed"
  /\ UNCHANGED <<peerVars, net, wire, ev, interest, clientVars>>

Backpressure ==
  /\ stage = "read" /\ ~should_read_available_input
  /\ stage' = "rearm"
  /\ UNCHANGED <<peerVars, net, wire, ev, interest, clientVars>>

\* Mutant: reads do not resume.
client_interests_NoResume(closed) ==
  {"RDHUP"}
  \cup (IF ~closed /\ ~close_after_flush /\ Len(outbuf) < SoftLimit /\ "IN" \in interest
          THEN {"IN"} ELSE {})
  \cup (IF outbuf # <<>> THEN {"OUT"} ELSE {})

client_interests(closed) ==
  {"RDHUP"}
  \cup (IF ~closed /\ ~close_after_flush /\ Len(outbuf) < SoftLimit THEN {"IN"} ELSE {})
  \cup (IF outbuf # <<>> THEN {"OUT"} ELSE {})

should_close_after_flush(closed) == outbuf = <<>> /\ (closed \/ close_after_flush)

\* rearm_client, and close_client_entry where it says so.
rearm_client ==
  LET closed == input_closed \/ "RDHUP" \in ev
  IN  /\ stage = "rearm"
      /\ IF "HUP" \in ev \/ should_close_after_flush(closed)
           THEN stage' = "closed" /\ UNCHANGED interest
           ELSE stage' = "wait" /\ interest' = client_interests(closed)
      /\ input_closed' = IF "HUP" \in ev THEN input_closed ELSE closed
      /\ UNCHANGED <<peerVars, net, wire, ev, outbuf, close_after_flush, served>>

-----------------------------------------------------------------------------
Service ==
  \/ ClientEvent \/ NothingToDrain \/ send_some \/ SendFails
  \/ ReadData \/ ReadNothing \/ ReadError \/ Backpressure
  \/ rearm_client

ClientNext ==
  \/ \E r \in Requests : Ask(r)
  \/ PeerReads
  \/ \E how \in {"half", "hup", "error"} : PeerLeaves(how)
  \/ Service

\* The loop keeps running; a peer that is there reads what has arrived.
ClientSpec == ClientInit /\ [][ClientNext]_connectionVars /\ WF_connectionVars(Service) /\ WF_connectionVars(PeerReads)

-----------------------------------------------------------------------------
(* Properties.                                                             *)

\* The unsent backlog never exceeds max_outbuf_hard_bytes, and one event adds
\* to a backlog at the soft limit only once the peer has hung up.  Once the
\* session is to be closed (logout, or a response over the hard limit) the backlog
\* is all that is left: nothing more is served.
BacklogStep ==
  /\ Len(outbuf') <= HardLimit
  /\ close_after_flush => close_after_flush' /\ served' = served
  /\ Len(outbuf') > Len(outbuf) => Len(outbuf) < SoftLimit \/ "HUP" \in ev

BacklogBounded == [][BacklogStep]_connectionVars

\* Requests are answered in the order sent, none twice and none skipped, and
\* every response unit is queued once and reaches the peer in order: partial
\* sends, backpressure and closing lose and repeat nothing in between.
ResponsesInOrder ==
  /\ served = SubSeq(requests, 1, Len(served))
  /\ got \o wire \o outbuf = FlattenSeq([k \in DOMAIN served |-> Responses(k, served[k])])

\* Neither requests in the receive buffer nor responses in outbuf wait for
\* ever: interest in reading and in writing is registered again in time.  A
\* connection whose peer has half-closed ends.
RequestsRead ==
  /\ net # <<>> ~> (net = <<>> \/ stage = "closed")
  /\ outbuf # <<>> ~> (outbuf = <<>> \/ stage = "closed")
  /\ peer # "open" ~> stage = "closed"

\* A connection removed because the peer has finished sending, and for no other
\* reason, has had every request delivered before the FIN answered.
DrainedBeforeRemoved ==
  stage = "closed" /\ peer = "half" /\ ~close_after_flush /\ outbuf = <<>>
    /\ (\A k \in DOMAIN requests : requests[k] \in 1..HardLimit)
      => served = requests
=============================================================================
