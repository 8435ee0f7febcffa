------------------------------- MODULE Engine -------------------------------
(***************************************************************************)
(* The multi-symbol matching engine (src/engine/matching_engine.cpp), the  *)
(* risk checks (src/engine/risk.cpp) and the order gateway in front of it  *)
(* (src/gateway/order_gateway.cpp), as operators on engine states: the     *)
(* modules above call them inside their actions.                           *)
(*                                                                         *)
(* An engine is [names, books, seq]: names[i] is the symbol registered     *)
(* i-th, whose SymbolId is i - 1 and whose book is books[i]; seq is the    *)
(* last sequence number given out.  A book is a PriceTime book.  Symbols   *)
(* are used here by their position i.                                      *)
(***************************************************************************)
EXTENDS PriceTime

CONSTANTS Storable(_),          \* the books a storage mode can hold
          MaxOrderQuantity,     \* RiskConfig::max_order_quantity
          MaxNotional           \* RiskConfig::max_notional

ASSUME LimitsAssumption == MaxOrderQuantity \in Nat /\ MaxNotional \in Nat

NewEngine == [names |-> <<>>, books |-> <<>>, seq |-> 0]

-----------------------------------------------------------------------------
(* MatchingEngine.                                                         *)

\* SymbolRegistry::intern is idempotent; register_symbol adds an empty book.
register_symbol(e, name) ==
  IF name \in Range(e.names)
    THEN e
    ELSE [e EXCEPT !.names = Append(@, name), !.books = Append(@, <<>>)]

has_symbol(e, symbol) == symbol \in DOMAIN e.books
EngineContains(e, symbol, id) == has_symbol(e, symbol) /\ IsResting(e.books[symbol], id)

\* What a mutator returns: the engine and the events_ buffer.
NoEvents(e) == [engine |-> e, events |-> <<>>]

\* The opening event takes next_seq(), then each trade of the book does.
Emit(e, symbol, kind, id, result) ==
  [engine |-> [e EXCEPT !.books[symbol] = result.book,
                        !.seq = @ + 1 + Len(result.trades)],
   events |-> <<[kind |-> kind, seq |-> e.seq + 1, symbol |-> symbol, id |-> id]>>
              \o [k \in DOMAIN result.trades |->
                    [kind |-> "trade", seq |-> e.seq + 1 + k, symbol |-> symbol,
                     trade |-> result.trades[k]]]]

\* The storage refuses a limit order whose outcome it could not hold.
can_store_limit(e, symbol, id, side, price, quantity, tif) ==
  /\ has_symbol(e, symbol)
  /\ Storable(LimitResult(e.books[symbol], id, side, price, quantity, tif).book)

can_apply_modify(e, symbol, id, price, quantity) ==
  /\ has_symbol(e, symbol)
  /\ IsResting(e.books[symbol], id) =>
       Storable(ModifyResult(e.books[symbol], id, price, quantity).book)

new_limit(e, symbol, id, side, price, quantity, tif) ==
  IF \/ ~has_symbol(e, symbol)
     \/ EngineContains(e, symbol, id)
     \/ ~can_store_limit(e, symbol, id, side, price, quantity, tif)
    THEN NoEvents(e)
    ELSE Emit(e, symbol, "accepted", id,
              LimitResult(e.books[symbol], id, side, price, quantity, tif))

new_market(e, symbol, id, side, quantity) ==
  IF ~has_symbol(e, symbol) \/ EngineContains(e, symbol, id)
    THEN NoEvents(e)
    ELSE Emit(e, symbol, "accepted", id, MarketResult(e.books[symbol], id, side, quantity))

cancel(e, symbol, id) ==
  IF ~EngineContains(e, symbol, id)
    THEN NoEvents(e)
    ELSE Emit(e, symbol, "canceled", id,
              NothingTraded(Without(e.books[symbol], id)))

modify(e, symbol, id, price, quantity) ==
  IF \/ ~EngineContains(e, symbol, id)
     \/ ~can_apply_modify(e, symbol, id, price, quantity)
    THEN NoEvents(e)
    ELSE Emit(e, symbol, "modified", id,
              ModifyResult(e.books[symbol], id, price, quantity))

\* Mutant: the limit price is ignored.
fill_count_AnyPrice(e, symbol, id, side, market, price, quantity) ==
  IF has_symbol(e, symbol)
    THEN Len(Match(e.books[symbol], id, side, TRUE, price, quantity).trades)
    ELSE 0

\* The number of fills a new order would make.
fill_count(e, symbol, id, side, market, price, quantity) ==
  IF has_symbol(e, symbol)
    THEN Len(Match(e.books[symbol], id, side, market, price, quantity).trades)
    ELSE 0

-----------------------------------------------------------------------------
(* Risk checks; a market order has no price and no notional check.         *)

\* Mutant: no notional check.
check_limit_values_NoNotional(price, quantity) ==
  IF price <= 0 THEN "InvalidPrice"
  ELSE IF quantity = 0 THEN "InvalidQuantity"
  ELSE IF quantity > MaxOrderQuantity THEN "MaxQuantityExceeded"
  ELSE "None"

check_limit_values(price, quantity) ==
  IF price <= 0 THEN "InvalidPrice"
  ELSE IF quantity = 0 THEN "InvalidQuantity"
  ELSE IF quantity > MaxOrderQuantity THEN "MaxQuantityExceeded"
  ELSE IF quantity > MaxNotional \div price THEN "MaxNotionalExceeded"
  ELSE "None"

check_limit(side, price, quantity) ==
  IF side \notin Sides THEN "InvalidSide" ELSE check_limit_values(price, quantity)

check_market(side, quantity) ==
  IF side \notin Sides THEN "InvalidSide"
  ELSE IF quantity = 0 THEN "InvalidQuantity"
  ELSE IF quantity > MaxOrderQuantity THEN "MaxQuantityExceeded"
  ELSE "None"

-----------------------------------------------------------------------------
(* OrderGateway: the checks in order, then the engine.                     *)

Reject(e, reason) == [engine |-> e, accepted |-> FALSE, reason |-> reason, events |-> <<>>]
Accept(r) == [engine |-> r.engine, accepted |-> TRUE, reason |-> "None", events |-> r.events]

\* Mutant: the storage is not asked.
gw_new_limit_NoStorageCheck(e, symbol, id, side, price, quantity, tif) ==
  LET risk == check_limit(side, price, quantity)
  IN  IF ~has_symbol(e, symbol) \/ EngineContains(e, symbol, id) \/ risk # "None"
        THEN Reject(e, risk)
        ELSE Accept(new_limit(e, symbol, id, side, price, quantity, tif))

gw_new_limit(e, symbol, id, side, price, quantity, tif) ==
  LET risk == check_limit(side, price, quantity)
  IN  IF ~has_symbol(e, symbol) THEN Reject(e, "UnknownSymbol")
      ELSE IF EngineContains(e, symbol, id) THEN Reject(e, "DuplicateOrderId")
      ELSE IF risk # "None" THEN Reject(e, risk)
      ELSE IF ~can_store_limit(e, symbol, id, side, price, quantity, tif)
        THEN Reject(e, "StorageExhausted")
      ELSE Accept(new_limit(e, symbol, id, side, price, quantity, tif))

gw_new_market(e, symbol, id, side, quantity) ==
  LET risk == check_market(side, quantity)
  IN  IF ~has_symbol(e, symbol) THEN Reject(e, "UnknownSymbol")
      ELSE IF EngineContains(e, symbol, id) THEN Reject(e, "DuplicateOrderId")
      ELSE IF risk # "None" THEN Reject(e, risk)
      ELSE Accept(new_market(e, symbol, id, side, quantity))

gw_cancel(e, symbol, id) ==
  IF ~has_symbol(e, symbol) THEN Reject(e, "UnknownSymbol")
  ELSE IF ~EngineContains(e, symbol, id) THEN Reject(e, "UnknownOrder")
  ELSE Accept(cancel(e, symbol, id))

\* A modify to quantity 0 is a cancel and skips the risk checks.
gw_modify(e, symbol, id, price, quantity) ==
  LET risk == IF quantity = 0 THEN "None" ELSE check_limit_values(price, quantity)
  IN  IF ~has_symbol(e, symbol) THEN Reject(e, "UnknownSymbol")
      ELSE IF ~EngineContains(e, symbol, id) THEN Reject(e, "UnknownOrder")
      ELSE IF risk # "None" THEN Reject(e, risk)
      ELSE IF quantity # 0 /\ ~can_apply_modify(e, symbol, id, price, quantity)
        THEN Reject(e, "StorageExhausted")
      ELSE Accept(modify(e, symbol, id, price, quantity))

preview_new_order(e, symbol, id, side, price, quantity, market, tif) ==
  LET risk == IF market THEN check_market(side, quantity)
                        ELSE check_limit(side, price, quantity)
      refused == \/ ~has_symbol(e, symbol)
                 \/ EngineContains(e, symbol, id)
                 \/ risk # "None"
                 \/ ~market /\ ~can_store_limit(e, symbol, id, side, price, quantity, tif)
  IN  [accepted |-> ~refused,
       fill_count |-> IF refused THEN 0
                      ELSE fill_count(e, symbol, id, side, market, price, quantity)]

-----------------------------------------------------------------------------
(* Commands, as the pipeline, the exporters and the shrinker apply them    *)
(* (through the gateway) and as replay applies them (to the engine).       *)

\* The alternatives of the Command variant and the types of the fields they have.
IsCommand(c) ==
  /\ c.op \in {"register", "limit", "market", "cancel", "modify"}
  /\ c.op \in {"limit", "modify"} => c.price \in Int
  /\ c.op \in {"limit", "market", "modify"} => c.qty \in Nat

\* replay/dispatch.hpp apply_command
apply_command(e, c) ==
  CASE c.op = "register" -> Accept(NoEvents(register_symbol(e, c.name)))
    [] c.op = "limit" -> gw_new_limit(e, c.symbol, c.id, c.side, c.price, c.qty, c.tif)
    [] c.op = "market" -> gw_new_market(e, c.symbol, c.id, c.side, c.qty)
    [] c.op = "cancel" -> gw_cancel(e, c.symbol, c.id)
    [] c.op = "modify" -> gw_modify(e, c.symbol, c.id, c.price, c.qty)

\* Mutant: a replayed limit order forgets its time in force.
replay_apply_DropsTif(e, c) ==
  IF c.op = "limit" THEN new_limit(e, c.symbol, c.id, c.side, c.price, c.qty, "GTC")
                    ELSE apply_command(e, c)

\* replay/recovery.cpp apply
replay_apply(e, c) ==
  CASE c.op = "register" -> NoEvents(register_symbol(e, c.name))
    [] c.op = "limit" -> new_limit(e, c.symbol, c.id, c.side, c.price, c.qty, c.tif)
    [] c.op = "market" -> new_market(e, c.symbol, c.id, c.side, c.qty)
    [] c.op = "cancel" -> cancel(e, c.symbol, c.id)
    [] c.op = "modify" -> modify(e, c.symbol, c.id, c.price, c.qty)
=============================================================================
