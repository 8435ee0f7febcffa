----------------------------- MODULE MCExchange -----------------------------
(* Model values for TLC: one listed symbol (position 1) and one unknown (2),
   prices and quantities on both sides of every limit, and a storage that holds
   PoolCapacity orders, at prices up to BandTop. *)
EXTENDS Exchange

CONSTANTS OrderIds, PriceSet, QuantitySet, PoolCapacity, BandTop

SmallStorage(book) ==
  /\ Len(book) <= PoolCapacity
  /\ \A i \in DOMAIN book : book[i].price <= BandTop

CommandsOn(symbol, ids, prices, quantities) ==
  [op : {"limit"}, symbol : {symbol}, id : ids, side : Sides, price : prices,
   qty : quantities, tif : {"GTC", "IOC"}]
  \cup [op : {"market"}, symbol : {symbol}, id : ids, side : Sides \cup {"Bad"},
        qty : quantities]
  \cup [op : {"cancel"}, symbol : {symbol}, id : ids]
  \cup [op : {"modify"}, symbol : {symbol}, id : ids, price : prices, qty : quantities]

SmallCommands ==
  [op : {"register"}, name : {"A"}]
  \cup CommandsOn(1, OrderIds, PriceSet, QuantitySet)
  \cup CommandsOn(2, {1}, {1}, {1})
=============================================================================
