-------------------------------- MODULE Feed --------------------------------
(***************************************************************************)
(* The market-data feed: MarketDataPublisher (src/feed/publisher.cpp)      *)
(* turns the events of each command into numbered messages, UdpPublisher   *)
(* (src/feed/udp_feed.cpp) sends each as a datagram, and qsl-mdfeed's      *)
(* subscriber receives them through UdpFeedClient and its SequenceTracker. *)
(* Between the two, datagrams are lost, duplicated, reordered and damaged, *)
(* and the subscriber gives up after a while without any.                  *)
(*                                                                         *)
(* The engine is seen through its tops of book: a command touches one      *)
(* symbol, makes some trades and leaves that symbol any top of book.       *)
(***************************************************************************)
EXTENDS Integers, Sequences, FiniteSets

CONSTANTS Symbols,
          Bids, Asks,     \* prices a top of book can show, as optionals
          MaxTrades,      \* bound: trades of one command
          MaxSeq,         \* bound: no command once md_seq has reached it
          Count           \* qsl-mdfeed subscribe <count>

ASSUME CountAssumption == Count \in Nat \ {0}
ASSUME TradesAssumption == MaxTrades \in Nat
ASSUME OptionalPrices == \A p \in Bids \cup Asks : p = <<>> \/ p = <<p[1]>>

VARIABLES
  tob,                     \* the engine's best_bid and best_ask by symbol
  last_tob, md_seq,        \* MarketDataPublisher
  send_failures,           \* UdpPublisher
  wire,                    \* the datagrams sent: each may arrive at any time,
                           \*   more than once, damaged, or never
  tracker, total_gaps,     \* UdpFeedClient: SequenceTracker, total_gaps_
  pc, i, idle_ticks,       \* the loop of qsl-mdfeed subscribe
  received, late, view     \* history: numbers received, those of them that came
                           \*   after a higher one, tops of book shown by the
                           \*   messages that were not late

engineVars == <<tob, last_tob, md_seq, send_failures>>
clientVars == <<tracker, total_gaps, pc, i, idle_ticks, received, late, view>>
vars == <<engineVars, wire, clientVars>>

nullopt == <<>>
Tob == [bid : Bids, ask : Asks]
NoTob == [bid |-> nullopt, ask |-> nullopt]

-----------------------------------------------------------------------------
(* market_data.cpp: a frame is its header and body fields and its size.    *)

kHeaderSize == 16
kMdTradeBody == 16
kMdTopOfBookBody == 22

Frame(type, body, seq, fields) ==
  [type |-> type, body_len |-> body, size |-> kHeaderSize + body, md_seq |-> seq,
   fields |-> fields]

value_or_zero(p) == IF p = nullopt THEN 0 ELSE p[1]
flag(p) == IF p = nullopt THEN 0 ELSE 1

encode_trade(seq, symbol) == Frame("MdTrade", kMdTradeBody, seq, <<symbol>>)

encode_tob(seq, symbol, t) ==
  Frame("MdTopOfBook", kMdTopOfBookBody, seq,
        <<symbol, flag(t.bid), value_or_zero(t.bid), flag(t.ask), value_or_zero(t.ask)>>)

\* decode_md_trade and decode_md_top_of_book accept the frame.
Decodable(f, type, body) ==
  /\ f.size >= kHeaderSize
  /\ f.type = type
  /\ f.body_len = body
  /\ f.size >= kHeaderSize + body

decode_market_data(f) ==
  Decodable(f, "MdTrade", kMdTradeBody) \/ Decodable(f, "MdTopOfBook", kMdTopOfBookBody)

Shown(f) == [bid |-> IF f.fields[2] # 0 THEN <<f.fields[3]>> ELSE nullopt,
             ask |-> IF f.fields[4] # 0 THEN <<f.fields[5]>> ELSE nullopt]

-----------------------------------------------------------------------------
Init ==
  /\ tob = [s \in Symbols |-> NoTob]
  /\ last_tob = <<>> /\ md_seq = 0 /\ send_failures = 0
  /\ wire = {}
  /\ tracker = <<>> /\ total_gaps = 0
  /\ pc = "receive" /\ i = 0 /\ idle_ticks = 0
  /\ received = {} /\ late = {} /\ view = [s \in Symbols |-> NoTob]

\* Mutant: an emptied book is not announced.
TobChanged_OnlyIfAny(symbol, current) ==
  /\ current # NoTob
  /\ symbol \in DOMAIN last_tob => last_tob[symbol] # current

\* publish: a symbol seen for the first time is announced if it shows a price.
TobChanged(symbol, current) ==
  IF symbol \in DOMAIN last_tob THEN last_tob[symbol] # current ELSE current # NoTob

\* The messages of one command: its trades, then the top of book if it changed.
Messages(symbol, trades, current) ==
  [k \in 1..trades |-> encode_trade(md_seq + k, symbol)]
  \o (IF TobChanged(symbol, current)
        THEN <<encode_tob(md_seq + trades + 1, symbol, current)>> ELSE <<>>)

\* on_market_data: sendto takes the datagram or the failure is counted.
Emit(messages, failed) ==
  /\ md_seq' = md_seq + Len(messages)
  /\ wire' = wire \cup {messages[k] : k \in DOMAIN messages \ failed}
  /\ send_failures' = send_failures + Cardinality(failed)

publish(symbol, trades, current) ==
  /\ md_seq < MaxSeq
  /\ tob' = [tob EXCEPT ![symbol] = current]
  /\ last_tob' = [s \in DOMAIN last_tob \cup {symbol} |->
                    IF s = symbol THEN current ELSE last_tob[s]]
  /\ \E failed \in SUBSET DOMAIN Messages(symbol, trades, current) :
       Emit(Messages(symbol, trades, current), failed)
  /\ UNCHANGED clientVars

-----------------------------------------------------------------------------
(* The subscriber.                                                         *)

\* SequenceTracker::observe: what it returns.
observe(seq) ==
  IF tracker = <<>> \/ seq <= tracker[1].last THEN 0 ELSE seq - tracker[1].last - 1

\* Mutant: an out-of-order number moves last_ back.
Tracked_Backwards(seq) ==
  IF tracker = <<>> THEN <<[first |-> seq, last |-> seq]>>
                    ELSE <<[tracker[1] EXCEPT !.last = seq]>>

\* ... and what it keeps (first is a history).
Tracked(seq) ==
  IF tracker = <<>> THEN <<[first |-> seq, last |-> seq]>>
  ELSE IF seq <= tracker[1].last THEN tracker
  ELSE <<[tracker[1] EXCEPT !.last = seq]>>

\* The for loop goes on, or its count is used up.
NextIteration == i' = i + 1 /\ pc' = IF i + 1 < Count THEN "receive" ELSE "done"

\* A consumer of receive() that skips the numbers it is past.
Consume(f) ==
  /\ received' = received \cup {f.md_seq}
  /\ late' = IF f.md_seq \notin received /\ \E r \in received : r > f.md_seq
               THEN late \cup {f.md_seq} ELSE late
  /\ view' = IF f.type = "MdTopOfBook" /\ \A r \in received : r < f.md_seq
               THEN [view EXCEPT ![f.fields[1]] = Shown(f)] ELSE view

\* receive: a datagram arrives, early or late, for the first time or again.
receive(f) ==
  /\ pc = "receive"
  /\ decode_market_data(f)
  /\ total_gaps' = total_gaps + observe(f.md_seq)
  /\ tracker' = Tracked(f.md_seq)
  /\ idle_ticks' = 0
  /\ NextIteration
  /\ Consume(f)
  /\ UNCHANGED <<engineVars, wire>>

\* Mutant: a timeout does not count.
Idle_NoTick == UNCHANGED <<pc, i, idle_ticks>>

\* receive returned nullopt: stop at the third time in a row.
Idle ==
  IF idle_ticks + 1 >= 3
    THEN pc' = "done" /\ idle_ticks' = 3 /\ UNCHANGED i
    ELSE idle_ticks' = idle_ticks + 1 /\ NextIteration

\* What damage makes of a datagram: another type, another length, a partial
\* body, a partial header.
Damaged(f) ==
  {[f EXCEPT !.type = "Heartbeat"], [f EXCEPT !.body_len = 0],
   [f EXCEPT !.size = @ - 1], [f EXCEPT !.size = kHeaderSize - 1]}

ReceiveUndecodable(f) ==
  /\ pc = "receive"
  /\ ~decode_market_data(f)
  /\ Idle
  /\ UNCHANGED <<engineVars, wire, tracker, total_gaps, received, late, view>>

\* SO_RCVTIMEO: no datagram arrived within a second.
ReceiveTimeout ==
  /\ pc = "receive"
  /\ Idle
  /\ UNCHANGED <<engineVars, wire, tracker, total_gaps, received, late, view>>

-----------------------------------------------------------------------------
Next ==
  \/ \E s \in Symbols, trades \in 0..MaxTrades, current \in Tob : publish(s, trades, current)
  \/ \E f \in wire : receive(f) \/ \E g \in Damaged(f) : ReceiveUndecodable(g)
  \/ ReceiveTimeout

\* A receive returns within its timeout; nothing is asked of the rest.
Spec == Init /\ [][Next]_vars /\ WF_vars(ReceiveTimeout)

-----------------------------------------------------------------------------
(* Properties.                                                             *)

\* total_gaps_ is exact whatever the network does: it counts the numbers
\* between the first and the highest received that did not arrive, and those
\* that arrived only after a higher one - each once, damaged and unsent
\* messages included, duplicates not.
GapsExact ==
  IF tracker = <<>> THEN total_gaps = 0
  ELSE total_gaps = Cardinality({n \in tracker[1].first..tracker[1].last :
                                   n \notin received \/ n \in late})

\* A subscriber that was there from the first message, has been told of no gap
\* and is at the publisher's last number shows every symbol's top of book as
\* the engine has it, absent prices included.
ViewCurrent ==
  tracker # <<>> /\ total_gaps = 0 =>
    (tracker[1].first = 1 /\ tracker[1].last = md_seq => view = tob)

\* The subscriber's loop ends, however many datagrams are missing.
SubscriberEnds == <>(pc = "done")
=============================================================================
