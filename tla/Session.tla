------------------------------- MODULE Session -------------------------------
(***************************************************************************)
(* The connection threads of the TCP gateway: TcpServer::serve_connection  *)
(* (src/gateway/tcp_server.cpp) running one Session per connection         *)
(* (src/gateway/session.cpp) over the shared OrderGateway, which           *)
(* gateway_mutex_ protects.                                                *)
(*                                                                         *)
(* The input stream comes in units, a header and a body per frame, and a   *)
(* read may end between any two units.  Message contents are those that    *)
(* sizes, order and outcome depend on; sizes are the ones of the wire.     *)
(* The budget of a read is checked with a preview of the order before the  *)
(* order is submitted: two steps, both under the mutex.                    *)
(***************************************************************************)
EXTENDS Engine

CONSTANTS
  Clients,
  Frames(_),          \* the frames a client may send
  MaxFrames,          \* bound: frames per client
  MaxResponseBytes    \* TcpServerOptions::max_response_bytes

\* What decode_header and the body decoders make of a frame: a well-typed request, a
\* message no client should send, or bytes that are not a message.
ASSUME FramesAssumption ==
  \A c \in Clients : \A f \in Frames(c) :
    /\ f.msg \in {"Limit", "Market", "CancelOrder", "Heartbeat", "BadHeader", "BadBody",
                 "Unexpected"}
    /\ f.msg \in {"Limit", "Market", "CancelOrder"} =>
         /\ IsCommand(f.command)
         /\ f.command.op = CASE f.msg = "Limit" -> "limit"
                             [] f.msg = "Market" -> "market"
                             [] f.msg = "CancelOrder" -> "cancel"

ASSUME ResponseAssumption == MaxResponseBytes \in Nat

VARIABLES
  engine,       \* the engine behind the gateway
  holder,       \* who holds gateway_mutex_: <<>> or <<client>>
  pc,           \* where the connection's thread is
  inbuf,        \* inbuf_: units received and not consumed
  logged_out,   \* logged_out_
  out,          \* response: messages generated from this read
  over,         \* on_bytes returned OutputLimitExceeded
  received,     \* number of headers received
  handled,      \* history: the frames answered, in order
  written,      \* history: the messages handed to write_all
  traded        \* history: the trades the client's orders made, in order

connection == <<inbuf, logged_out, out, over>>
history == <<handled, written, traded>>
vars == <<engine, holder, pc, connection, received, history>>

Each(x) == [c \in Clients |-> x]

Init ==
  /\ engine = register_symbol(NewEngine, "A")
  /\ holder = <<>>
  /\ pc = Each("read")
  /\ inbuf = Each(<<>>) /\ logged_out = Each(FALSE)
  /\ out = Each(<<>>) /\ over = Each(FALSE)
  /\ received = Each(0)
  /\ handled = Each(<<>>) /\ written = Each(<<>>) /\ traded = Each(<<>>)

-----------------------------------------------------------------------------
(* Messages.  A frame is a record with field msg; an order or cancel also  *)
(* has the command it carries.                                             *)

HeaderUnit(f) == [unit |-> "head", frame |-> f]
BodyUnit(f) == [unit |-> "body", frame |-> f]

\* kAckFrameBytes and the others: header and body.
WireSize(kind) ==
  16 + CASE kind = "Ack" -> 16 [] kind = "Reject" -> 9
         [] kind = "Fill" -> 36 [] kind = "HeartbeatAck" -> 8

WireSizes(messages) == SumFunction([k \in DOMAIN messages |-> WireSize(messages[k].kind)])

\* Mutant: the space already taken is not counted.
has_space_Ignoring(c, bytes) == bytes <= MaxResponseBytes

has_space(c, bytes) == WireSizes(out[c]) + bytes <= MaxResponseBytes

TradesOf(r) ==
  LET trades == Pick(r.events, {k \in DOMAIN r.events : r.events[k].kind = "trade"})
  IN  [k \in DOMAIN trades |-> trades[k].trade]

\* Mutant: a rejected order is not answered.
emit_result_SilentReject(id, r) ==
  IF ~r.accepted
    THEN <<>>
    ELSE <<[kind |-> "Ack", id |-> id]>>
         \o [k \in DOMAIN TradesOf(r) |-> [kind |-> "Fill", trade |-> TradesOf(r)[k]]]

\* emit_result: a Reject, or an Ack with a Fill per trade.
emit_result(id, r) ==
  IF ~r.accepted
    THEN <<[kind |-> "Reject", id |-> id]>>
    ELSE <<[kind |-> "Ack", id |-> id]>>
         \o [k \in DOMAIN TradesOf(r) |-> [kind |-> "Fill", trade |-> TradesOf(r)[k]]]

-----------------------------------------------------------------------------
(* serve_connection.                                                       *)

\* What one read may return: the body awaited, whole frames, a header.
Chunks(c) ==
  LET awaited == IF inbuf[c] = <<>> THEN <<>> ELSE <<BodyUnit(inbuf[c][1].frame)>>
      left == MaxFrames - received[c]
  IN  ({awaited}
       \cup {awaited \o <<HeaderUnit(f)>> : f \in IF left > 0 THEN Frames(c) ELSE {}}
       \cup {awaited \o <<HeaderUnit(f), BodyUnit(f)>> : f \in IF left > 0 THEN Frames(c) ELSE {}}
       \cup {awaited \o <<HeaderUnit(f), BodyUnit(f), HeaderUnit(g), BodyUnit(g)>> :
               f \in IF left > 1 THEN Frames(c) ELSE {}, g \in Frames(c)})
      \ {<<>>}

IsHead(u) == u.unit = "head"

Read(c) ==
  /\ pc[c] = "read"
  /\ \E chunk \in Chunks(c) :
       /\ inbuf' = [inbuf EXCEPT ![c] = @ \o chunk]
       /\ received' = [received EXCEPT ![c] = @ + Len(SelectSeq(chunk, IsHead))]
  /\ pc' = [pc EXCEPT ![c] = "lock"]
  /\ out' = [out EXCEPT ![c] = <<>>]
  /\ UNCHANGED <<engine, holder, logged_out, over, history>>

\* EOF or a read error.
Disconnect(c) ==
  /\ pc[c] = "read"
  /\ pc' = [pc EXCEPT ![c] = "closed"]
  /\ UNCHANGED <<engine, holder, connection, received, history>>

Lock(c) ==
  /\ pc[c] = "lock"
  /\ holder = <<>>
  /\ holder' = <<c>>
  /\ pc' = [pc EXCEPT ![c] = "frame"]
  /\ UNCHANGED <<engine, connection, received, history>>

\* on_bytes returns and the lock guard goes out of scope.
Unlock(c) ==
  /\ holder' = <<>>
  /\ pc' = [pc EXCEPT ![c] = "write"]

\* write_all succeeds or fails, then the loop of serve_connection ends or not.
Write(c) ==
  /\ pc[c] = "write"
  /\ written' = [written EXCEPT ![c] = @ \o out[c]]
  /\ out' = [out EXCEPT ![c] = <<>>]
  /\ \E sent \in BOOLEAN :
       pc' = [pc EXCEPT ![c] =
                IF (out[c] # <<>> /\ ~sent) \/ over[c] \/ logged_out[c] THEN "closed" ELSE "read"]
  /\ UNCHANGED <<engine, holder, inbuf, logged_out, over, received, handled, traded>>

-----------------------------------------------------------------------------
(* Session::on_bytes, one frame at a time.                                 *)

HeaderBad(c) == inbuf[c] # <<>> /\ inbuf[c][1].frame.msg = "BadHeader"
FrameReady(c) == pc[c] = "frame" /\ Len(inbuf[c]) >= 2 /\ ~HeaderBad(c)
FirstFrame(c) == inbuf[c][1].frame

\* Mutant: one frame per read.
NeedMoreBytes_OneFrame(c) ==
  /\ pc[c] = "frame"
  /\ Len(inbuf[c]) < 2 \/ out[c] # <<>>
  /\ ~HeaderBad(c)
  /\ Unlock(c)
  /\ UNCHANGED <<engine, connection, received, history>>

\* No header, or no body yet.
NeedMoreBytes(c) ==
  /\ pc[c] = "frame"
  /\ Len(inbuf[c]) < 2
  /\ ~HeaderBad(c)
  /\ Unlock(c)
  /\ UNCHANGED <<engine, connection, received, history>>

MalformedHeader(c) ==
  /\ pc[c] = "frame"
  /\ HeaderBad(c)
  /\ logged_out' = [logged_out EXCEPT ![c] = TRUE]
  /\ Unlock(c)
  /\ UNCHANGED <<engine, inbuf, out, over, received, history>>

\* close_for_malformed_body, handle_unexpected_message: the frame is consumed.
DropPeer(c) ==
  /\ FrameReady(c)
  /\ FirstFrame(c).msg \in {"BadBody", "Unexpected"}
  /\ logged_out' = [logged_out EXCEPT ![c] = TRUE]
  /\ inbuf' = [inbuf EXCEPT ![c] = SubSeq(@, 3, Len(@))]
  /\ Unlock(c)
  /\ UNCHANGED <<engine, out, over, received, history>>

\* close_for_output_limit: the frame stays in inbuf_.
OutputLimit(c) ==
  /\ logged_out' = [logged_out EXCEPT ![c] = TRUE]
  /\ over' = [over EXCEPT ![c] = TRUE]
  /\ Unlock(c)
  /\ UNCHANGED <<inbuf, out, handled>>

Answer(c, messages) ==
  /\ out' = [out EXCEPT ![c] = @ \o messages]
  /\ inbuf' = [inbuf EXCEPT ![c] = SubSeq(@, 3, Len(@))]
  /\ handled' = [handled EXCEPT ![c] = Append(@, FirstFrame(c))]
  /\ pc' = [pc EXCEPT ![c] = "frame"]
  /\ UNCHANGED <<holder, logged_out, over>>

\* emit_or_close, after the gateway has been called.
EmitOrClose(c, id, r) ==
  /\ engine' = r.engine
  /\ traded' = [traded EXCEPT ![c] = @ \o TradesOf(r)]
  /\ IF has_space(c, WireSizes(emit_result(id, r)))
       THEN Answer(c, emit_result(id, r))
       ELSE OutputLimit(c)
  /\ UNCHANGED <<received, written>>

handle_heartbeat(c) ==
  /\ FrameReady(c)
  /\ FirstFrame(c).msg = "Heartbeat"
  /\ IF has_space(c, WireSize("HeartbeatAck"))
       THEN Answer(c, <<[kind |-> "HeartbeatAck", id |-> 0]>>)
       ELSE OutputLimit(c)
  /\ UNCHANGED <<engine, received, written, traded>>

handle_cancel_order(c) ==
  /\ FrameReady(c)
  /\ FirstFrame(c).msg = "CancelOrder"
  /\ IF has_space(c, WireSize("Ack"))
       THEN EmitOrClose(c, FirstFrame(c).command.id, apply_command(engine, FirstFrame(c).command))
       ELSE OutputLimit(c) /\ UNCHANGED <<engine, received, written, traded>>

\* The response an order needs by its preview.
Required(p) == IF p.accepted THEN WireSize("Ack") + p.fill_count * WireSize("Fill")
                             ELSE WireSize("Reject")

PreviewOf(f) ==
  IF f.msg = "Limit"
    THEN preview_new_order(engine, f.command.symbol, f.command.id, f.command.side,
                           f.command.price, f.command.qty, FALSE, f.command.tif)
    ELSE preview_new_order(engine, f.command.symbol, f.command.id, f.command.side,
                           0, f.command.qty, TRUE, "IOC")

\* Mutant: room for the acknowledgment is taken to be enough.
ensure_new_order_budget_AckOnly(c) ==
  /\ FrameReady(c)
  /\ FirstFrame(c).msg \in {"Limit", "Market"}
  /\ IF has_space(c, WireSize("Ack"))
       THEN pc' = [pc EXCEPT ![c] = "submit"] /\ UNCHANGED <<holder, connection, handled>>
       ELSE OutputLimit(c)
  /\ UNCHANGED <<engine, received, written, traded>>

\* handle_new_order, first part.
ensure_new_order_budget(c) ==
  /\ FrameReady(c)
  /\ FirstFrame(c).msg \in {"Limit", "Market"}
  /\ IF has_space(c, Required(PreviewOf(FirstFrame(c))))
       THEN pc' = [pc EXCEPT ![c] = "submit"] /\ UNCHANGED <<holder, connection, handled>>
       ELSE OutputLimit(c)
  /\ UNCHANGED <<engine, received, written, traded>>

\* handle_new_order, second part.
SubmitNewOrder(c) ==
  /\ pc[c] = "submit"
  /\ EmitOrClose(c, FirstFrame(c).command.id, apply_command(engine, FirstFrame(c).command))

-----------------------------------------------------------------------------
Step(c) ==
  \/ Lock(c) \/ Write(c)
  \/ NeedMoreBytes(c) \/ MalformedHeader(c) \/ DropPeer(c)
  \/ handle_heartbeat(c) \/ handle_cancel_order(c)
  \/ ensure_new_order_budget(c) \/ SubmitNewOrder(c)

Next == \E c \in Clients : Read(c) \/ Disconnect(c) \/ Step(c)

Spec == Init /\ [][Next]_vars

-----------------------------------------------------------------------------
(* Properties.                                                             *)

\* The response of one read never exceeds max_response_bytes, whatever other
\* connections did to the book since the frame arrived.
ResponseBounded == \A c \in Clients : WireSizes(out[c]) <= MaxResponseBytes

Fills(messages) == Pick(messages, {k \in DOMAIN messages : messages[k].kind = "Fill"})
Replies(messages) == Pick(messages, {k \in DOMAIN messages : messages[k].kind # "Fill"})

\* A trade is never made without the taker being told: every trade of a
\* client's orders is a Fill handed to its connection, in order.  An order that
\* runs into the output limit has therefore not touched the engine.
NoSilentTrade ==
  \A c \in Clients :
    LET fills == Fills(written[c] \o out[c])
    IN  [k \in DOMAIN fills |-> fills[k].trade] = traded[c]

\* Each frame handled gets exactly one Ack, Reject or HeartbeatAck, and the
\* k-th such answer is the answer of the k-th frame.
OneAnswerEach ==
  \A c \in Clients :
    LET answers == Replies(written[c] \o out[c])
    IN  /\ Len(answers) = Len(handled[c])
        /\ \A k \in DOMAIN answers :
             IF handled[c][k].msg = "Heartbeat"
               THEN answers[k].kind = "HeartbeatAck"
               ELSE answers[k].kind \in {"Ack", "Reject"}
                    /\ answers[k].id = handled[c][k].command.id

\* A thread goes back to read only when it has dealt with every complete frame
\* it holds and has given gateway_mutex_ back: no request, its own or another
\* client's, waits for bytes the peer need not send.
NothingStranded ==
  \A c \in Clients :
    pc[c] = "read" =>
      Len(inbuf[c]) < 2 /\ ~HeaderBad(c) /\ ~logged_out[c] /\ holder # <<c>>
=============================================================================
