----------------------------- MODULE MCSession -----------------------------
(* Model values for TLC: a maker and a taker.  The limit holds an Ack and one
   Fill, so that the second fill of the market order, or a second answer after
   a fill, is over it. *)
EXTENDS Session

AnyBook(book) == TRUE

Limit(id, side, price, qty) ==
  [msg |-> "Limit", command |-> [op |-> "limit", symbol |-> 1, id |-> id, side |-> side,
                                 price |-> price, qty |-> qty, tif |-> "GTC"]]

Cancel(id) == [msg |-> "CancelOrder", command |-> [op |-> "cancel", symbol |-> 1, id |-> id]]

Sweep ==
  [msg |-> "Market", command |-> [op |-> "market", symbol |-> 1, id |-> 3, side |-> "Buy", qty |-> 2]]

MakerFrames ==
  {Limit(1, "Sell", 1, 1), Limit(2, "Sell", 2, 1), Cancel(1), [msg |-> "BadBody"]}

TakerFrames ==
  {Sweep, Limit(4, "Buy", 1, 2), Cancel(4), [msg |-> "Heartbeat"], [msg |-> "BadHeader"]}

ClientFrames(c) == IF c = "maker" THEN MakerFrames ELSE TakerFrames
=============================================================================
