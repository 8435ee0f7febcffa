--------------------------- MODULE ContiguousStore ---------------------------
(***************************************************************************)
(* The contiguous storage of a book, src/engine/contiguous_store.hpp:      *)
(* levels in an array indexed by price, a bitmap of the occupied ones per  *)
(* side, and per level a vector with a head cursor and tombstones.  The    *)
(* operators take a store and return the store after the call.             *)
(*                                                                         *)
(* A store is [levels, bits, index]: bits[side] is the set of slots whose  *)
(* bit is set, index the set of locators.  Positions in a level start at 1.*)
(* The id of a tombstone is never read and is not kept.                    *)
(***************************************************************************)
EXTENDS PriceTime, SequencesExt

CONSTANTS kMinPrice, kMaxPrice,   \* the band
          kCompactMinSize,
          WordBits                \* bits of a bitmap word, 64 in the code

kBandWidth == kMaxPrice - kMinPrice + 1
kBitmapWords == (kBandWidth + WordBits - 1) \div WordBits
Slots == 0..(kBandWidth - 1)

in_band(price) == price >= kMinPrice /\ price <= kMaxPrice
slot_of(price) == price - kMinPrice
price_of(slot) == kMinPrice + slot

Tombstone == [id |-> "tombstone", qty |-> 0]
EmptyLevel == [orders |-> <<>>, head |-> 1, alive |-> 0]
NewStore == [levels |-> [side \in Sides |-> [slot \in Slots |-> EmptyLevel]],
             bits |-> [side \in Sides |-> {}],
             index |-> {}]

-----------------------------------------------------------------------------
(* The bitmaps, word by word; nullopt is -1.                               *)

nullopt == -1

\* The first word from from's on that has a bit left after masking.
next_up(bits, from) ==
  LET Value(word) == {b \in bits : /\ b \div WordBits = word
                                   /\ word = from \div WordBits => b % WordBits >= from % WordBits}
      words == {w \in (from \div WordBits)..(kBitmapWords - 1) : Value(w) # {}}
  IN  IF words = {} THEN nullopt ELSE Min(Value(Min(words)))

\* The last word up to from's that has a bit left after masking.
next_down(bits, from) ==
  LET Value(word) == {b \in bits : /\ b \div WordBits = word
                                   /\ word = from \div WordBits => b % WordBits <= from % WordBits}
      words == {w \in 0..(from \div WordBits) : Value(w) # {}}
  IN  IF words = {} THEN nullopt ELSE Max(Value(Max(words)))

best_slot(st, side) ==
  IF side = "Buy" THEN next_down(st.bits[side], kBandWidth - 1) ELSE next_up(st.bits[side], 0)

next_worse(st, side, slot) ==
  IF side = "Buy"
    THEN IF slot = 0 THEN nullopt ELSE next_down(st.bits[side], slot - 1)
    ELSE IF slot + 1 >= kBandWidth THEN nullopt ELSE next_up(st.bits[side], slot + 1)

\* for_each_occupied: the slots of a side, best first.
Occupied(st, side) ==
  LET walk[k \in 1..kBandWidth] ==
        IF k = 1 THEN best_slot(st, side)
        ELSE IF walk[k - 1] = nullopt THEN nullopt
        ELSE next_worse(st, side, walk[k - 1])
  IN  SelectSeq([k \in 1..kBandWidth |-> walk[k]], LAMBDA slot : slot # nullopt)

-----------------------------------------------------------------------------
(* Levels.                                                                 *)

\* The entries from the head on, live ones only.
Live(level) == SelectSeq(SubSeq(level.orders, level.head, Len(level.orders)),
                         LAMBDA o : o.qty > 0)

advance_head(level) ==
  LET live == {i \in level.head..Len(level.orders) : level.orders[i].qty > 0}
  IN  [level EXCEPT !.head = IF live = {} THEN Len(level.orders) + 1 ELSE Min(live)]

clear_level(st, side, slot) ==
  [st EXCEPT !.levels[side][slot] = EmptyLevel, !.bits[side] = @ \ {slot}]

\* Mutant: the locators keep the old positions.
compact_level_KeepsPositions(st, side, slot) ==
  [st EXCEPT !.levels[side][slot] = [@ EXCEPT !.orders = Live(st.levels[side][slot]),
                                              !.head = 1]]

compact_level(st, side, slot) ==
  LET live == Live(st.levels[side][slot])
      PositionIn(id) == CHOOSE i \in DOMAIN live : live[i].id = id
  IN  [st EXCEPT !.levels[side][slot] = [@ EXCEPT !.orders = live, !.head = 1],
                 !.index = {IF IsResting(live, e.id) THEN [e EXCEPT !.pos = PositionIn(e.id)]
                                                     ELSE e : e \in @}]

maybe_compact(st, side, slot) ==
  LET size == Len(st.levels[side][slot].orders)
      alive == st.levels[side][slot].alive
  IN  IF size >= kCompactMinSize /\ size - alive > alive
        THEN compact_level(st, side, slot)
        ELSE st

-----------------------------------------------------------------------------
(* Orders.                                                                 *)

contains(st, id) == \E e \in st.index : e.id = id
locator(st, id) == CHOOSE e \in st.index : e.id = id
QuantityOf(st, id) ==
  LET e == locator(st, id) IN st.levels[e.side][slot_of(e.price)].orders[e.pos].qty

\* append_orders: a side in matching order.
append_orders(st, side) ==
  LET At(slot) == [i \in DOMAIN Live(st.levels[side][slot]) |->
                     [id |-> Live(st.levels[side][slot])[i].id,
                      price |-> price_of(slot),
                      qty |-> Live(st.levels[side][slot])[i].qty]]
  IN  FlattenSeq([k \in DOMAIN Occupied(st, side) |-> At(Occupied(st, side)[k])])

rest(st, id, side, price, quantity) ==
  IF ~in_band(price)
    THEN st
    ELSE LET slot == slot_of(price)
             pos == Len(st.levels[side][slot].orders) + 1
         IN  [st EXCEPT !.levels[side][slot] =
                          [@ EXCEPT !.orders = Append(@, [id |-> id, qty |-> quantity]),
                                    !.alive = @ + 1],
                        !.bits[side] = IF st.levels[side][slot].alive = 0
                                         THEN @ \cup {slot} ELSE @,
                        !.index = {e \in @ : e.id # id}
                                  \cup {[id |-> id, side |-> side, price |-> price, pos |-> pos]}]

\* fill_front_order, given what fill_maker traded.
fill_front_order(st, side, slot, traded) ==
  LET level == st.levels[side][slot]
      maker == level.orders[level.head]
  IN  IF traded < maker.qty
        THEN [st EXCEPT !.levels[side][slot].orders[level.head].qty = @ - traded]
        ELSE [st EXCEPT !.levels[side][slot] =
                          advance_head([@ EXCEPT !.orders[level.head] = Tombstone,
                                                 !.alive = @ - 1]),
                        !.index = {e \in @ : e.id # maker.id}]

\* Mutant: a level that keeps orders is never compacted after fills.
LeaveLevel_NoCompaction(st, side, slot) ==
  IF st.levels[side][slot].alive = 0 THEN clear_level(st, side, slot) ELSE st

\* match_against, after fill_level.
LeaveLevel(st, side, slot) ==
  IF st.levels[side][slot].alive = 0
    THEN clear_level(st, side, slot)
    ELSE maybe_compact(st, side, slot)

\* The rest of remove_resting once the tombstone is written.
AfterTombstone(st, e) ==
  LET slot == slot_of(e.price)
  IN  IF st.levels[e.side][slot].alive = 0
        THEN clear_level(st, e.side, slot)
        ELSE maybe_compact(IF e.pos = st.levels[e.side][slot].head
                             THEN [st EXCEPT !.levels[e.side][slot] = advance_head(@)]
                             ELSE st, e.side, slot)

\* cancel with remove_resting, the order being in the index.
cancel(st, id) ==
  LET e == locator(st, id)
  IN  AfterTombstone([st EXCEPT !.levels[e.side][slot_of(e.price)] =
                                  [@ EXCEPT !.orders[e.pos] = Tombstone, !.alive = @ - 1],
                                !.index = @ \ {e}], e)

reduce(st, id, quantity) ==
  LET e == locator(st, id)
  IN  [st EXCEPT !.levels[e.side][slot_of(e.price)].orders[e.pos].qty = quantity]

-----------------------------------------------------------------------------
(* The gates.                                                              *)

simulate_remainder(st, side, limit, quantity) ==
  FoldLeft(LAMBDA left, o : IF CanMatch(side, FALSE, limit, o.price)
                              THEN left - Least(left, o.qty) ELSE left,
           quantity, append_orders(st, Opposite(side)))

can_store_limit(st, side, price, quantity, tif) ==
  \/ tif = "IOC" \/ in_band(price)
  \/ simulate_remainder(st, side, price, quantity) = 0

reduces_in_place(st, id, price, quantity) ==
  price = locator(st, id).price /\ quantity <= QuantityOf(st, id)

can_apply_modify(st, id, price, quantity) ==
  \/ ~contains(st, id)
  \/ quantity = 0
  \/ reduces_in_place(st, id, price, quantity)
  \/ in_band(price)
  \/ simulate_remainder(st, locator(st, id).side, price, quantity) = 0

\* The entries of a level from the head on, with the level's price.
Entries(st, side, slot) ==
  LET level == st.levels[side][slot]
  IN  [i \in 1..(Len(level.orders) - level.head + 1) |->
         [price |-> price_of(slot), qty |-> level.orders[level.head + i - 1].qty]]

\* Mutant: tombstones are counted.
count_flat_level_Dead(acc, o) ==
  [left |-> acc.left - Least(acc.left, o.qty), count |-> acc.count + 1]

\* One iteration of count_flat_level, quantity being left: a tombstone is passed over.
count_flat_level(acc, o) ==
  IF o.qty = 0 THEN acc
               ELSE [left |-> acc.left - Least(acc.left, o.qty), count |-> acc.count + 1]

\* count_flat_matches
fill_count(st, t, q) ==
  LET opposite == Opposite(t.side)
      slots == Occupied(st, opposite)
      Visit(acc, o) == IF acc.left = 0 \/ ~CanMatch(t.side, t.market, t.limit, o.price)
                         THEN acc ELSE count_flat_level(acc, o)
  IN  FoldLeft(Visit, [left |-> q, count |-> 0],
               FlattenSeq([k \in DOMAIN slots |-> Entries(st, opposite, slots[k])])).count

-----------------------------------------------------------------------------
(* Queries.                                                                *)

\* best_bid, best_ask, as a set of at most one price.
best_price(st, side) == {price_of(slot) : slot \in {best_slot(st, side)} \ {nullopt}}

level_total(level) ==
  FoldLeft(LAMBDA total, o : total + o.qty, 0,
           SubSeq(level.orders, level.head, Len(level.orders)))

quantity_at(st, side, price) ==
  IF in_band(price) THEN level_total(st.levels[side][slot_of(price)]) ELSE 0

collect_levels(st, side) ==
  LET slots == Occupied(st, side)
  IN  [k \in DOMAIN slots |-> [price |-> price_of(slots[k]),
                               quantity |-> level_total(st.levels[side][slots[k]])]]

-----------------------------------------------------------------------------
(* What the operators above rely on.                                       *)

\* Between calls a bit is set exactly for a level with live orders; a level's
\* counter, head and vector agree; a locator points to the entry that holds its
\* order, and every live entry has one.
Sound(st, filling) ==
  /\ \A side \in Sides, slot \in Slots \ filling :
       slot \in st.bits[side] <=> st.levels[side][slot].alive > 0
  /\ \A side \in Sides, slot \in Slots :
       LET level == st.levels[side][slot]
           live == {i \in DOMAIN level.orders : level.orders[i].qty > 0}
       IN  /\ level.alive = Cardinality(live)
           /\ live # {} => level.head = Min(live)
           /\ \A i \in live : [id |-> level.orders[i].id, side |-> side,
                               price |-> price_of(slot), pos |-> i] \in st.index
  /\ \A e \in st.index : /\ in_band(e.price)
                         /\ e.pos \in DOMAIN st.levels[e.side][slot_of(e.price)].orders
                         /\ st.levels[e.side][slot_of(e.price)].orders[e.pos].id = e.id
                         /\ QuantityOf(st, e.id) > 0

\* A level's tombstones are at most as many as its live orders, or too few for
\* maybe_compact to have seen them in a queue of kCompactMinSize.
Compact(st, filling) ==
  \A side \in Sides, slot \in Slots \ filling :
    LET alive == st.levels[side][slot].alive
        dead == Len(st.levels[side][slot].orders) - alive
    IN  dead <= alive \/ dead <= kCompactMinSize - 2
=============================================================================
