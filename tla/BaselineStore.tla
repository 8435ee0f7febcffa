---------------------------- MODULE BaselineStore ----------------------------
(***************************************************************************)
(* The baseline storage of a book, the maps bids_ and asks_ and the index  *)
(* of src/engine/order_book.cpp; the pooled storage is the same code on    *)
(* another allocator.  The operators take a store and return the store     *)
(* after the call.                                                         *)
(*                                                                         *)
(* A store is [levels, index]: levels[side] is a map from the prices that  *)
(* have a level to the FIFO list of their orders, index the set of         *)
(* locators.  A locator's list iterator stays with its order, which is     *)
(* found in the list by its id.                                            *)
(***************************************************************************)
EXTENDS PriceTime, SequencesExt, TLC

NewStore == [levels |-> [side \in Sides |-> <<>>], index |-> {}]

contains(st, id) == \E e \in st.index : e.id = id
locator(st, id) == CHOOSE e \in st.index : e.id = id
Position(list, id) == CHOOSE i \in DOMAIN list : list[i].id = id

QuantityOf(st, id) ==
  LET e == locator(st, id) IN OrderOf(st.levels[e.side][e.price], id).qty

\* The map's order: bids_ by std::greater, asks_ by std::less.
ByPriority(st, side) ==
  SetToSortSeq(DOMAIN st.levels[side], LAMBDA p, q : Better(side, p, q))

\* append_orders: a side in matching order.
append_orders(st, side) ==
  FlattenSeq([k \in DOMAIN ByPriority(st, side) |-> st.levels[side][ByPriority(st, side)[k]]])

\* level_for: try_emplace.
level_for(st, side, price) ==
  IF price \in DOMAIN st.levels[side]
    THEN st
    ELSE [st EXCEPT !.levels[side] = (price :> <<>>) @@ @]

rest(st, id, side, price, quantity) ==
  [level_for(st, side, price) EXCEPT
     !.levels[side][price] = Append(@, [id |-> id, side |-> side, price |-> price,
                                        qty |-> quantity]),
     !.index = {e \in @ : e.id # id} \cup {[id |-> id, side |-> side, price |-> price]}]

erase_level_if_empty(st, side, price) ==
  IF st.levels[side][price] = <<>>
    THEN [st EXCEPT !.levels[side] = [p \in DOMAIN @ \ {price} |-> @[p]]]
    ELSE st

\* fill_front_order, given what fill_maker traded; the level stays in its map.
fill_front_order(st, side, price, traded) ==
  LET maker == Head(st.levels[side][price])
  IN  IF traded < maker.qty
        THEN [st EXCEPT !.levels[side][price][1].qty = @ - traded]
        ELSE [st EXCEPT !.levels[side][price] = Tail(@),
                        !.index = {e \in @ : e.id # maker.id}]

\* cancel_indexed_order with erase_resting_order, the order being in the index.
cancel(st, id) ==
  LET e == locator(st, id)
  IN  erase_level_if_empty(
        [st EXCEPT !.index = @ \ {e},
                   !.levels[e.side][e.price] = RemoveAt(@, Position(@, id))],
        e.side, e.price)

reduce(st, id, quantity) ==
  LET e == locator(st, id)
  IN  [st EXCEPT !.levels[e.side][e.price][Position(st.levels[e.side][e.price], id)].qty = quantity]

-----------------------------------------------------------------------------
(* Queries.                                                                *)

\* count_matches with count_level_matches: the makers met while quantity is left.
fill_count(st, t, q) ==
  LET Visit(acc, o) ==
        IF acc.left = 0 \/ ~CanMatch(t.side, t.market, t.limit, o.price)
          THEN acc
          ELSE [left |-> acc.left - Least(acc.left, o.qty), count |-> acc.count + 1]
  IN  FoldLeft(Visit, [left |-> q, count |-> 0], append_orders(st, Opposite(t.side))).count

best_price(st, side) ==
  {p \in DOMAIN st.levels[side] : \A q \in DOMAIN st.levels[side] : p = q \/ Better(side, p, q)}

\* Mutant: the total of a level is that of its first order.
level_quantity_First(level) == level[1].qty

level_quantity(level) == FoldLeft(LAMBDA total, o : total + o.qty, 0, level)

quantity_at(st, side, price) ==
  IF price \in DOMAIN st.levels[side] THEN level_quantity(st.levels[side][price]) ELSE 0

collect_levels(st, side) ==
  LET prices == ByPriority(st, side)
  IN  [k \in DOMAIN prices |-> [price |-> prices[k],
                                quantity |-> level_quantity(st.levels[side][prices[k]])]]

-----------------------------------------------------------------------------
(* What the operators above rely on.                                       *)

\* The index and the lists hold the same orders, each once: a locator never
\* points to a list without its order, and no list holds an order that cancel
\* cannot find.  A map holds no empty level, so that begin() is the best price,
\* unless the level is being filled.
Sound(st, filling) ==
  /\ \A e, f \in st.index : e.id = f.id => e = f
  /\ \A e \in st.index : e.price \in DOMAIN st.levels[e.side]
                         /\ IsResting(st.levels[e.side][e.price], e.id)
  /\ \A side \in Sides : \A price \in DOMAIN st.levels[side] :
       LET level == st.levels[side][price]
       IN  /\ level # <<>> \/ price \in filling
           /\ \A i \in DOMAIN level :
                /\ [id |-> level[i].id, side |-> side, price |-> price] \in st.index
                /\ level[i].qty > 0
                /\ \A j \in DOMAIN level : level[i].id = level[j].id => i = j
=============================================================================
