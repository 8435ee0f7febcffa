------------------------------ MODULE OrderBook ------------------------------
(***************************************************************************)
(* One symbol's order book, src/engine/order_book.cpp, on one of its three *)
(* storages, chosen when the book is built.  The calls of OrderBook run    *)
(* their matching loop iteration by iteration; pc says where in the call   *)
(* in flight the book is.  A book is used by one thread, so a call runs to *)
(* its end before the next starts.                                         *)
(***************************************************************************)
EXTENDS PriceTime, SequencesExt

CONSTANTS Ids,          \* OrderId
          Prices,       \* Price, a signed integer
          Quantities,   \* Quantity of a request, unsigned
          PoolCapacity,                                      \* intrusive
          kMinPrice, kMaxPrice, kCompactMinSize, WordBits    \* contiguous

ASSUME PricesAssumption == Prices \subseteq Int
ASSUME QuantitiesAssumption == Quantities \subseteq Nat

VARIABLES
  mode,      \* BookStorage: "baseline", "intrusive" or "contiguous"
  store,     \* the store of that mode
  pc,        \* "idle", "match" (match_ordered_levels), "fill" (fill_level),
             \* "return" (the caller has the trades)
  at,        \* price of the level being filled
  taker,     \* <<>>, or <<the incoming order of MatchContext>>
  quantity,  \* MatchContext::quantity, what is left of it
  trades,    \* MatchContext::trades
  request,   \* history: the request being answered
  arrivals,  \* history: resting ids, oldest first
  before,    \* history: the resting orders when the call in flight began
  preview    \* history: fill_count asked just before the call in flight

callState == <<at, taker, quantity, trades, before, preview>>
vars == <<mode, store, pc, request, callState, arrivals>>

B == INSTANCE BaselineStore
I == INSTANCE IntrusiveStore
C == INSTANCE ContiguousStore

-----------------------------------------------------------------------------
\* Each call is passed to the storage in use.
dispatch_storage(baseline, intrusive, contiguous) ==
  CASE mode = "intrusive" -> intrusive
    [] mode = "contiguous" -> contiguous
    [] OTHER -> baseline

contains(st, id) ==
  dispatch_storage(B!contains(st, id), I!contains(st, id), C!contains(st, id))

locator(st, id) ==
  dispatch_storage(B!locator(st, id), I!locator(st, id), C!locator(st, id))

QuantityOf(st, id) ==
  dispatch_storage(B!QuantityOf(st, id), I!QuantityOf(st, id), C!QuantityOf(st, id))

\* The baseline stores everything.
can_store_limit(st, side, price, q, tif) ==
  dispatch_storage(TRUE, I!can_store_limit(st, side, price, q, tif),
                   C!can_store_limit(st, side, price, q, tif))

\* A baseline or intrusive modify always applies: the cancel frees what it needs.
can_apply_modify(st, id, price, q) ==
  dispatch_storage(TRUE, TRUE, C!can_apply_modify(st, id, price, q))

Rested(st, o, q) ==
  dispatch_storage(B!rest(st, o.id, o.side, o.limit, q),
                   I!rest(st, o.id, o.side, o.limit, q),
                   C!rest(st, o.id, o.side, o.limit, q))

Canceled(st, id) == dispatch_storage(B!cancel(st, id), I!cancel(st, id), C!cancel(st, id))
Reduced(st, id, q) ==
  dispatch_storage(B!reduce(st, id, q), I!reduce(st, id, q), C!reduce(st, id, q))

\* best_bid, best_ask, as a set of at most one price.
best_price(st, side) ==
  dispatch_storage(B!best_price(st, side), I!best_price(st, side), C!best_price(st, side))

\* The order at the front of the level being filled, as a set of at most one.
FrontOrder(st, side, p) ==
  dispatch_storage(
    {st.levels[side][p][i] : i \in {1} \cap DOMAIN st.levels[side][p]},
    {I!OrderAt(st, n) : n \in {st.levels[side][p].head} \ {I!nullptr}},
    LET level == st.levels[side][C!slot_of(p)]
    IN  {level.orders[h] : h \in IF level.alive > 0 THEN {level.head} ELSE {}})

Filled(st, side, p, traded) ==
  dispatch_storage(B!fill_front_order(st, side, p, traded),
                   I!fill_front_order(st, side, p, traded),
                   C!fill_front_order(st, side, C!slot_of(p), traded))

\* What match_against does with a level once fill_level is over.
LevelLeft(st, side, p) ==
  dispatch_storage(B!erase_level_if_empty(st, side, p),
                   I!erase_level_if_empty(st, side, p),
                   C!LeaveLevel(st, side, C!slot_of(p)))

fill_count(st, t, q) ==
  dispatch_storage(B!fill_count(st, t, q), I!fill_count(st, t, q), C!fill_count(st, t, q))

quantity_at(st, side, p) ==
  dispatch_storage(B!quantity_at(st, side, p), I!quantity_at(st, side, p),
                   C!quantity_at(st, side, p))

\* bid_levels, ask_levels
collect_levels(st, side) ==
  dispatch_storage(B!collect_levels(st, side), I!collect_levels(st, side),
                   C!collect_levels(st, side))

\* One side of resting_orders.
append_orders(st, side) ==
  dispatch_storage(B!append_orders(st, side), I!append_orders(st, side),
                   C!append_orders(st, side))

-----------------------------------------------------------------------------
\* The resting orders by arrival: what the abstract book holds.
Resting ==
  [i \in DOMAIN arrivals |->
     [id |-> arrivals[i], side |-> locator(store, arrivals[i]).side,
      price |-> locator(store, arrivals[i]).price, qty |-> QuantityOf(store, arrivals[i])]]

Gone(id) == SelectSeq(arrivals, LAMBDA i : i # id)

Init ==
  /\ mode \in {"baseline", "intrusive", "contiguous"}
  /\ store = dispatch_storage(B!NewStore, I!NewStore, C!NewStore)
  /\ pc = "idle" /\ at = 0 /\ taker = <<>> /\ quantity = 0 /\ trades = <<>>
  /\ request = <<>> /\ before = <<>> /\ preview = 0 /\ arrivals = <<>>

\* The call returns without a trade.
Return(req) ==
  /\ pc' = "return" /\ request' = req
  /\ UNCHANGED <<mode, callState>>

BeginMatch(req, t, q, st) ==
  /\ pc' = "match" /\ request' = req
  /\ taker' = <<t>> /\ quantity' = q /\ trades' = <<>>
  /\ before' = Resting
  /\ preview' = fill_count(st, t, q)
  /\ UNCHANGED <<mode, at>>

\* add_limit and add_market: the gate, then match_incoming's own check.
AddRefused(req, id, gate) ==
  /\ ~gate \/ contains(store, id)
  /\ Return(req)
  /\ UNCHANGED <<store, arrivals>>

AddBegins(req, t, q, gate) ==
  /\ gate /\ ~contains(store, t.id)
  /\ BeginMatch(req, t, q, store)
  /\ UNCHANGED <<store, arrivals>>

Add(req, t, q, gate) == AddRefused(req, t.id, gate) \/ AddBegins(req, t, q, gate)

add_limit(id, side, price, q, tif) ==
  Add(<<"limit", id, side, price, q, tif>>,
      [id |-> id, side |-> side, limit |-> price, market |-> FALSE, tif |-> tif], q,
      can_store_limit(store, side, price, q, tif))

add_market(id, side, q) ==
  Add(<<"market", id, side, q>>,
      [id |-> id, side |-> side, limit |-> 0, market |-> TRUE, tif |-> "IOC"], q, TRUE)

-----------------------------------------------------------------------------
(* The matching loop.                                                      *)

EnterLevel ==
  /\ pc = "match" /\ quantity > 0
  /\ \E p \in best_price(store, Opposite(taker[1].side)) :
       /\ CanMatch(taker[1].side, taker[1].market, taker[1].limit, p)
       /\ at' = p
  /\ pc' = "fill"
  /\ UNCHANGED <<mode, store, request, taker, quantity, trades, before, preview, arrivals>>

\* fill_front_order with fill_maker.
FillFront(maker, traded) ==
  /\ trades' = Append(trades, [taker |-> taker[1].id, maker |-> maker.id,
                               price |-> at, qty |-> traded])
  /\ quantity' = quantity - traded
  /\ store' = Filled(store, Opposite(taker[1].side), at, traded)
  /\ arrivals' = IF traded = maker.qty THEN Gone(maker.id) ELSE arrivals
  /\ UNCHANGED <<mode, pc, request, at, taker, before, preview>>

fill_level ==
  /\ pc = "fill" /\ quantity > 0
  /\ \E maker \in FrontOrder(store, Opposite(taker[1].side), at) :
       FillFront(maker, Least(quantity, maker.qty))

LeaveLevel ==
  /\ pc = "fill"
  /\ quantity = 0 \/ FrontOrder(store, Opposite(taker[1].side), at) = {}
  /\ store' = LevelLeft(store, Opposite(taker[1].side), at)
  /\ pc' = "match" /\ at' = 0
  /\ UNCHANGED <<mode, request, taker, quantity, trades, before, preview, arrivals>>

MatchOver ==
  /\ pc = "match"
  /\ \/ quantity = 0
     \/ \A p \in best_price(store, Opposite(taker[1].side)) :
          ~CanMatch(taker[1].side, taker[1].market, taker[1].limit, p)

\* should_rest_limit, rest; the trades are returned.
Finish(rests) ==
  /\ MatchOver
  /\ rests <=> quantity # 0 /\ taker[1].tif = "GTC"
  /\ pc' = "return"
  /\ store' = IF rests THEN Rested(store, taker[1], quantity) ELSE store
  /\ arrivals' = IF rests THEN Append(arrivals, taker[1].id) ELSE arrivals
  /\ at' = 0 /\ taker' = <<>> /\ quantity' = 0 /\ before' = <<>> /\ preview' = 0
  /\ UNCHANGED <<mode, request, trades>>

\* The caller has taken the result.
Returned ==
  /\ pc = "return"
  /\ pc' = "idle" /\ trades' = <<>> /\ request' = <<>>
  /\ UNCHANGED <<mode, store, at, taker, quantity, before, preview, arrivals>>

-----------------------------------------------------------------------------
(* cancel and modify.                                                      *)

cancel(id) ==
  /\ contains(store, id)
  /\ store' = Canceled(store, id)
  /\ arrivals' = Gone(id)
  /\ Return(<<"cancel", id>>)

UnknownOrder(req, id) ==
  /\ ~contains(store, id)
  /\ Return(req)
  /\ UNCHANGED <<store, arrivals>>

ReducesInPlace(id, p, q) == p = locator(store, id).price /\ q <= QuantityOf(store, id)

ModifyRefused(id, p, q) ==
  /\ contains(store, id)
  /\ ~can_apply_modify(store, id, p, q)
  /\ Return(<<"modify", id, p, q>>)
  /\ UNCHANGED <<store, arrivals>>

ModifyToZero(id, p, q) ==
  /\ contains(store, id)
  /\ q = 0
  /\ store' = Canceled(store, id)
  /\ arrivals' = Gone(id)
  /\ Return(<<"modify", id, p, q>>)

ModifyInPlace(id, p, q) ==
  /\ contains(store, id)
  /\ q # 0 /\ ReducesInPlace(id, p, q)
  /\ store' = Reduced(store, id, q)
  /\ Return(<<"modify", id, p, q>>)
  /\ UNCHANGED arrivals

\* add_limit on the store the cancel left; refused there, the order is lost.
Readd(req, t, q, st) ==
  /\ store' = st
  /\ arrivals' = Gone(t.id)
  /\ IF can_store_limit(st, t.side, t.limit, q, "GTC")
       THEN BeginMatch(req, t, q, st)
       ELSE Return(req)

ModifyReplace(id, p, q) ==
  /\ contains(store, id)
  /\ q # 0 /\ ~ReducesInPlace(id, p, q)
  /\ can_apply_modify(store, id, p, q)
  /\ Readd(<<"modify", id, p, q>>,
           [id |-> id, side |-> locator(store, id).side, limit |-> p, market |-> FALSE,
            tif |-> "GTC"], q, Canceled(store, id))

-----------------------------------------------------------------------------
\* The calls a caller can make, none being in flight.
Request(id) ==
  \/ cancel(id) \/ UnknownOrder(<<"cancel", id>>, id)
  \/ \E side \in Sides, q \in Quantities :
       \/ add_market(id, side, q)
       \/ \E p \in Prices, tif \in {"GTC", "IOC"} : add_limit(id, side, p, q, tif)
  \/ \E p \in Prices, q \in Quantities :
       \/ ModifyRefused(id, p, q)
       \/ ModifyToZero(id, p, q)
       \/ ModifyInPlace(id, p, q)
       \/ ModifyReplace(id, p, q)
       \/ UnknownOrder(<<"modify", id, p, q>>, id)

Next ==
  \/ pc = "idle" /\ \E id \in Ids : Request(id)
  \/ EnterLevel \/ fill_level \/ LeaveLevel
  \/ \E rests \in BOOLEAN : Finish(rests)
  \/ Returned

Spec == Init /\ [][Next]_vars

-----------------------------------------------------------------------------
(* Properties.                                                             *)

InCall == pc \in {"match", "fill"}
Filling == IF pc = "fill" THEN {at} ELSE {}

\* The book is never crossed, not even between two iterations of the matching
\* loop: what rest adds is behind the best price of the other side.
Uncrossed == \A b \in best_price(store, "Buy"), a \in best_price(store, "Sell") : b < a

\* Every storage keeps its own structures in step through every iteration of
\* the matching loop: lists, locators, cursors, counters and bitmaps agree,
\* and every pool slot is either free or owned by one order.
StoreSound ==
  dispatch_storage(B!Sound(store, Filling), I!Sound(store, Filling),
                   C!Sound(store, {C!slot_of(p) : p \in Filling}))

\* "churn at one price cannot grow its queue without bound": whatever was rested,
\* cancelled and filled there, a queue outside the level being filled holds no more
\* tombstones than live orders, or than a queue shorter than kCompactMinSize can.
ChurnBounded ==
  dispatch_storage(TRUE, TRUE, C!Compact(store, {C!slot_of(p) : p \in Filling}))

\* fill_count, which sizes a session's response before the order is submitted,
\* is exactly the number of trades the order then makes.
FillCountExact ==
  MatchOver /\ request[1] # "modify" => Len(trades) = preview

\* One side of the views, against the resting orders and those of the side in
\* matching order.
ViewsOf(resting, side, inOrder, listed, levels) ==
  /\ Len(listed) = Len(inOrder)
  /\ \A k \in DOMAIN listed : /\ listed[k].id = resting[inOrder[k]].id
                               /\ listed[k].price = resting[inOrder[k]].price
                               /\ listed[k].qty = resting[inOrder[k]].qty
  /\ \A k \in 2..Len(levels) : Better(side, levels[k - 1].price, levels[k].price)
  /\ {levels[k].price : k \in DOMAIN levels} = {resting[i].price : i \in ToSet(inOrder)}
  /\ \A k \in DOMAIN levels : levels[k].quantity = quantity_at(store, side, levels[k].price)
  /\ \A p \in Prices :
       quantity_at(store, side, p) =
         MapThenSumSet(LAMBDA i : resting[i].qty, {i \in ToSet(inOrder) : resting[i].price = p})

BothViews(resting) ==
  \A side \in Sides :
    ViewsOf(resting, side,
            SetToSortSeq({i \in DOMAIN resting : resting[i].side = side},
                         LAMBDA i, j : Precedes(resting, i, j)),
            append_orders(store, side), collect_levels(store, side))

\* Between calls the views of the book report the orders that rest, whatever was
\* filled, canceled or moved before: resting_orders in matching order, and
\* bid_levels, ask_levels and quantity_at the totals of the prices that have any.
ViewsExact == pc = "idle" => BothViews(Resting)

\* The books a storage can hold.
AnyBook(book) == TRUE
FitsPools(book) == Len(book) <= PoolCapacity
FitsBand(book) == \A i \in DOMAIN book : book[i].price \in kMinPrice..kMaxPrice

\* What is seen of the book from outside a call.
SeenResting == IF InCall THEN before ELSE Resting
SeenAnswered == IF pc = "return" THEN request ELSE <<>>
SeenTrades == IF pc = "return" THEN trades ELSE <<>>

Priced == INSTANCE PriceTimeBook WITH
  Storable <- AnyBook, resting <- SeenResting, answered <- SeenAnswered, trades <- SeenTrades
PricedInPool == INSTANCE PriceTimeBook WITH
  Storable <- FitsPools, resting <- SeenResting, answered <- SeenAnswered, trades <- SeenTrades
PricedInBand == INSTANCE PriceTimeBook WITH
  Storable <- FitsBand, resting <- SeenResting, answered <- SeenAnswered, trades <- SeenTrades

\* On every storage the loops implement price-time priority, and a request is
\* refused exactly when the storage could not hold the book it would leave: no
\* order is dropped on the way to its place, none refused that would have fitted.
StorageRefines ==
  /\ Priced!BookInit
  /\ [][dispatch_storage(Priced!BookNext, PricedInPool!BookNext,
                         PricedInBand!BookNext)]_(Priced!bookVars)
=============================================================================
