------------------------------ MODULE Exchange ------------------------------
(***************************************************************************)
(* The in-process exchange: commands go through the risk gateway to the    *)
(* engine, one at a time (OrderGateway in front of MatchingEngine), and    *)
(* the accepted ones are what a log holds.  Beside the live engine runs    *)
(* the engine a replay of that log would have rebuilt so far.              *)
(***************************************************************************)
EXTENDS Engine

CONSTANTS Commands,   \* the commands clients submit
          MaxSeq      \* bound: no command is submitted once seq has reached it

ASSUME CommandsAssumption == \A c \in Commands : IsCommand(c)

VARIABLES
  engine,     \* the live engine
  replayed,   \* the engine rebuilt by replaying the accepted commands
  answer      \* the command just answered and its outcome, until taken

vars == <<engine, replayed, answer>>

NoAnswer == [op |-> "none"]

Init ==
  /\ engine = NewEngine
  /\ replayed = NewEngine
  /\ answer = NoAnswer

IsNewOrder(c) == c.op \in {"limit", "market"}

\* preview_new_order of a new order; other commands have no preview.
Preview(e, c) ==
  IF c.op = "limit"
    THEN preview_new_order(e, c.symbol, c.id, c.side, c.price, c.qty, FALSE, c.tif)
    ELSE preview_new_order(e, c.symbol, c.id, c.side, 0, c.qty, TRUE, "IOC")

\* One command through the gateway, its preview asked just before.
Answered(c, r, again) ==
  /\ engine' = r.engine
  /\ replayed' = IF r.accepted THEN again.engine ELSE replayed
  /\ answer' = [op |-> c.op, command |-> c, accepted |-> r.accepted, reason |-> r.reason,
                events |-> r.events, since |-> engine.seq,
                again |-> IF r.accepted THEN again.events ELSE <<>>,
                preview |-> IF IsNewOrder(c) THEN Preview(engine, c) ELSE <<>>]

Submit(c) ==
  /\ answer = NoAnswer
  /\ engine.seq < MaxSeq
  /\ Answered(c, apply_command(engine, c), replay_apply(replayed, c))

Taken ==
  /\ answer # NoAnswer
  /\ answer' = NoAnswer
  /\ UNCHANGED <<engine, replayed>>

Next == (\E c \in Commands : Submit(c)) \/ Taken

Spec == Init /\ [][Next]_vars

-----------------------------------------------------------------------------
(* Properties.                                                             *)

\* An accepted command is answered by events, the first of which a session
\* reports as the Ack: the engine's own guards (unknown symbol, duplicate id,
\* storage) never refuse silently what the gateway let through.  Sequence
\* numbers are given out without a gap and none is lost.
AcceptedIsAnswered ==
  answer # NoAnswer =>
    /\ \A k \in DOMAIN answer.events : answer.events[k].seq = answer.since + k
    /\ engine.seq = answer.since + Len(answer.events)
    /\ answer.events = <<>> <=> (answer.op = "register" \/ ~answer.accepted)

\* The preview a session sizes its response with agrees with what the order
\* then does: same verdict, same number of fills.
PreviewExact ==
  answer # NoAnswer /\ IsNewOrder(answer.command) =>
    /\ answer.preview.accepted = answer.accepted
    /\ answer.preview.fill_count =
         Cardinality({k \in DOMAIN answer.events : answer.events[k].kind = "trade"})

\* Replaying the accepted commands without the gateway rebuilds the engine and
\* the event stream: the risk checks decide only what is logged.
ReplayAgrees ==
  /\ replayed = engine
  /\ answer # NoAnswer => answer.again = answer.events

\* Every resting order is within the risk limits and the storage's domain,
\* after any mix of partial fills, modifies and re-used ids.
RestingWithinLimits ==
  \A s \in DOMAIN engine.books :
    LET book == engine.books[s]
    IN  /\ Storable(book)
        /\ \A i \in DOMAIN book :
             /\ book[i].price > 0 /\ book[i].qty > 0
             /\ book[i].qty <= MaxOrderQuantity
             /\ book[i].price * book[i].qty <= MaxNotional
        /\ \A i, j \in DOMAIN book : book[i].id = book[j].id => i = j
        /\ \A i, j \in DOMAIN book :
             book[i].side = "Buy" /\ book[j].side = "Sell" => book[i].price < book[j].price
=============================================================================
