-------------------------------- MODULE Flow --------------------------------
(***************************************************************************)
(* The two generators of synthetic command streams (src/replay/            *)
(* recovery.cpp) and the payloads a command log stores them in             *)
(* (src/replay/command.cpp).  A draw of the seeded random number generator *)
(* is any of its outcomes, so a generator is given by the SET of commands  *)
(* it may append next.                                                     *)
(***************************************************************************)
EXTENDS Engine, SequencesExt

CONSTANTS MidStart, MidLow, MidHigh,   \* mid prices: initial, and what drift_mid clamps to
          Spreads, Offsets,            \* what a resting or crossing price keeps from the mid
          LotSizes,                    \* the quantities make_limit and the others draw
          PropertyPrices,              \* the prices of a property flow
          PropertyQuantities,          \* its quantities
          PropertyTimesInForce         \* and its times in force

ASSUME MidAssumption ==
  /\ MidLow <= MidStart /\ MidStart <= MidHigh
  /\ \A d \in Spreads \cup Offsets : d > 0 /\ d < MidLow
  /\ \A q \in LotSizes : q > 0

TimesInForce == {"GTC", "IOC"}

\* The registrations S0, S1, ... every flow begins with.
registrations(symbols) == [s \in 1..symbols |-> [op |-> "register", name |-> s]]

-----------------------------------------------------------------------------
(* FlowGenerator: market-like flow that follows its own copy of the engine *)
(* so that cancels and modifies address orders that still rest.            *)

NewGenerator(symbols) ==
  [model |-> FoldLeft(LAMBDA e, c : replay_apply(e, c).engine, NewEngine,
                      registrations(symbols)),
   active |-> <<>>,
   mid |-> [s \in 1..symbols |-> MidStart],
   next_id |-> 1]

drift_mid(g, symbol) ==
  {[g EXCEPT !.mid[symbol] = IF @ + d < MidLow THEN MidLow
                             ELSE IF @ + d > MidHigh THEN MidHigh ELSE @ + d]
     : d \in -1..1}

\* Mutant: filled and cancelled orders stay on the list.
refresh_active_Never(g) == g

refresh_active(g) ==
  [g EXCEPT !.active = SelectSeq(@, LAMBDA o : EngineContains(g.model, o.symbol, o.id))]

\* crossing_price and resting_price: on the far or the near side of the mid.
Prices(g, symbol, side, crosses) ==
  IF crosses = (side = "Buy")
    THEN {g.mid[symbol] + d : d \in IF crosses THEN Offsets ELSE Spreads}
    ELSE {g.mid[symbol] - d : d \in IF crosses THEN Offsets ELSE Spreads}

make_limit(g, symbol) ==
  {[op |-> "limit", symbol |-> symbol, id |-> g.next_id, side |-> side, price |-> price,
    qty |-> qty, tif |-> tif]
     : <<side, price, qty, tif>> \in
         UNION {{side} \X Prices(g, symbol, side, crosses) \X LotSizes \X TimesInForce
                  : side \in Sides, crosses \in BOOLEAN}}

make_market(g, symbol) ==
  [op : {"market"}, symbol : {symbol}, id : {g.next_id}, side : Sides, qty : LotSizes]

\* The order picked from active_, or an id not given out yet.
make_cancel(g) ==
  UNION {[op : {"cancel"}, symbol : {o.symbol}, id : {o.id, g.next_id}] : o \in Range(g.active)}

make_modify(g) ==
  UNION {[op : {"modify"}, symbol : {o.symbol}, id : {o.id},
          price : UNION {Prices(g, o.symbol, o.side, crosses) : crosses \in BOOLEAN},
          qty : LotSizes \cup {1 + o.qty \div 2}]
           : o \in Range(g.active)}

next_command(g, symbol) ==
  make_limit(g, symbol)
  \cup (IF g.active = <<>> THEN {}
        ELSE make_market(g, symbol) \cup make_cancel(g) \cup make_modify(g))

\* The id is used up; a limit order that rests is listed as active.
apply_and_track(g, c) ==
  LET model == replay_apply(g.model, c).engine
  IN  [g EXCEPT !.model = model,
                !.next_id = IF c.op \in {"limit", "market"} THEN @ + 1 ELSE @,
                !.active = IF c.op = "limit" /\ EngineContains(model, c.symbol, c.id)
                             THEN Append(@, [symbol |-> c.symbol, id |-> c.id,
                                             side |-> c.side, qty |-> c.qty])
                             ELSE @]

\* append_next: the commands that may come next, each with the generator after it.
append_next(g) ==
  UNION {{[command |-> c, gen |-> apply_and_track(h, c)] : c \in next_command(h, symbol)}
           : <<symbol, h>> \in
               UNION {{s} \X {refresh_active(h) : h \in drift_mid(g, s)} : s \in DOMAIN g.mid}}

-----------------------------------------------------------------------------
(* generate_property_flow: unknown symbols, reused and stale ids, invalid  *)
(* values; symbol symbols + 1 is never registered.                         *)

property_next(next_id, symbols) ==
  LET any == 1..(symbols + 1)
      NewLimits(ids) == [op : {"limit"}, symbol : any, id : ids, side : Sides,
                         price : PropertyPrices, qty : PropertyQuantities,
                         tif : PropertyTimesInForce]
  IN  {[command |-> c, next_id |-> next_id + 1]
         : c \in NewLimits({next_id})
                 \cup [op : {"market"}, symbol : any, id : {next_id}, side : Sides,
                       qty : PropertyQuantities]}
      \cup
      {[command |-> c, next_id |-> next_id]
         : c \in NewLimits(1..(next_id - 1))
                 \cup [op : {"cancel"}, symbol : any, id : 1..next_id]
                 \cup [op : {"modify"}, symbol : any, id : 1..next_id,
                       price : PropertyPrices, qty : PropertyQuantities]}

-----------------------------------------------------------------------------
(* Payloads of command records: a size and the field stored at each byte   *)
(* offset.  Enum bytes are numbers; a decoded payload is <<>> or <<c>>.    *)

SideByte(side) == IF side = "Buy" THEN 0 ELSE 1
TifByte(tif) == IF tif = "GTC" THEN 0 ELSE 1

encode_command(c) ==
  CASE c.op = "register" -> [size |-> 2, at |-> 0 :> 0 @@ 1 :> c.name]
    [] c.op = "limit" ->
         [size |-> 28, at |-> 0 :> 1 @@ 1 :> c.symbol @@ 5 :> c.id @@ 13 :> c.price
                              @@ 21 :> c.qty @@ 25 :> SideByte(c.side) @@ 26 :> TifByte(c.tif)]
    [] c.op = "market" ->
         [size |-> 18, at |-> 0 :> 2 @@ 1 :> c.symbol @@ 5 :> c.id
                              @@ 13 :> SideByte(c.side) @@ 14 :> c.qty]
    [] c.op = "cancel" -> [size |-> 13, at |-> 0 :> 3 @@ 1 :> c.symbol @@ 5 :> c.id]
    [] c.op = "modify" ->
         [size |-> 25, at |-> 0 :> 4 @@ 1 :> c.symbol @@ 5 :> c.id @@ 13 :> c.price
                              @@ 21 :> c.qty]

IsEnumByte(b) == b \in {0, 1}
SideOf(b) == IF b = 0 THEN "Buy" ELSE "Sell"
TifOf(b) == IF b = 0 THEN "GTC" ELSE "IOC"

\* The shortest payload each tag accepts; a registration's name may be empty.
MinSize == 0 :> 1 @@ 1 :> 28 @@ 2 :> 18 @@ 3 :> 13 @@ 4 :> 25

decode_fields(tag, at) ==
  CASE tag = 0 -> <<[op |-> "register", name |-> at[1]]>>
    [] tag = 1 ->
         IF ~IsEnumByte(at[25]) \/ ~IsEnumByte(at[26]) THEN <<>>
         ELSE <<[op |-> "limit", symbol |-> at[1], id |-> at[5], side |-> SideOf(at[25]),
                 price |-> at[13], qty |-> at[21], tif |-> TifOf(at[26])]>>
    [] tag = 2 ->
         IF ~IsEnumByte(at[13]) THEN <<>>
         ELSE <<[op |-> "market", symbol |-> at[1], id |-> at[5], side |-> SideOf(at[13]),
                 qty |-> at[14]]>>
    [] tag = 3 -> <<[op |-> "cancel", symbol |-> at[1], id |-> at[5]]>>
    [] tag = 4 -> <<[op |-> "modify", symbol |-> at[1], id |-> at[5], price |-> at[13],
                     qty |-> at[21]]>>

decode_command(payload) ==
  IF payload.size = 0 THEN <<>>
  ELSE IF payload.at[0] \notin DOMAIN MinSize THEN <<>>
  ELSE IF payload.size < MinSize[payload.at[0]] THEN <<>>
  ELSE decode_fields(payload.at[0], payload.at)
=============================================================================
