--------------------------- MODULE IntrusiveStore ---------------------------
(***************************************************************************)
(* The intrusive storage of a book, OrderBook::IntrusiveStore in           *)
(* src/engine/order_book.cpp: doubly linked lists of nodes, with orders    *)
(* and nodes in two pools of fixed capacity.  The operators take a store   *)
(* and return the store after the call.                                    *)
(*                                                                         *)
(* A store is [orders, nodes, levels, index]: levels[side] is a map from   *)
(* the prices that have a level, index the set of locators.                *)
(***************************************************************************)
EXTENDS PriceTime, Pool

CONSTANT PoolCapacity     \* kIntrusivePoolCapacity

NewStore == [orders |-> NewPool(PoolCapacity), nodes |-> NewPool(PoolCapacity),
             levels |-> [side \in Sides |-> <<>>], index |-> {}]

has_capacity(st) == available(st.orders) > 0 /\ available(st.nodes) > 0

-----------------------------------------------------------------------------
(* Lists.                                                                  *)

\* try_emplace on a level map.
level_for(st, side, price) ==
  IF price \in DOMAIN st.levels[side]
    THEN st
    ELSE [st EXCEPT !.levels[side] =
            (price :> [head |-> nullptr, tail |-> nullptr, size |-> 0]) @@ @]

SetPrev(live, n, p) == IF n = nullptr THEN live ELSE [live EXCEPT ![n].prev = p]
SetNext(live, n, p) == IF n = nullptr THEN live ELSE [live EXCEPT ![n].next = p]

append_node(st, side, price, n) ==
  LET tail == st.levels[side][price].tail
  IN  [st EXCEPT !.nodes.live = SetNext(SetNext(SetPrev(@, n, tail), n, nullptr), tail, n),
                 !.levels[side][price] =
                   [head |-> IF tail = nullptr THEN n ELSE @.head, tail |-> n,
                    size |-> @.size + 1]]

unlink_node(st, side, price, n) ==
  LET node == st.nodes.live[n]
  IN  [st EXCEPT !.nodes.live = SetPrev(SetNext(@, node.prev, node.next), node.next, node.prev),
                 !.levels[side][price] =
                   [head |-> IF node.prev = nullptr THEN node.next ELSE @.head,
                    tail |-> IF node.next = nullptr THEN node.prev ELSE @.tail,
                    size |-> @.size - 1]]

destroy_node(st, n) ==
  [st EXCEPT !.orders = release(@, st.nodes.live[n].order), !.nodes = release(@, n)]

erase_level_if_empty(st, side, price) ==
  IF st.levels[side][price].size = 0
    THEN [st EXCEPT !.levels[side] = [p \in DOMAIN @ \ {price} |-> @[p]]]
    ELSE st

\* The nodes of a level from head by next.
Chain(st, level) ==
  LET walk[k \in 1..level.size] == IF k = 1 THEN level.head ELSE st.nodes.live[walk[k - 1]].next
  IN  [k \in 1..level.size |-> walk[k]]

-----------------------------------------------------------------------------
(* Orders.                                                                 *)

contains(st, id) == \E e \in st.index : e.id = id
locator(st, id) == CHOOSE e \in st.index : e.id = id
OrderAt(st, n) == st.orders.live[st.nodes.live[n].order]
QuantityOf(st, id) == OrderAt(st, locator(st, id).node).qty

\* append_orders: a side in matching order.
append_orders(st, side) ==
  LET prices == SetToSortSeq(DOMAIN st.levels[side], LAMBDA p, q : Better(side, p, q))
      Orders(nodes) == [i \in DOMAIN nodes |-> OrderAt(st, nodes[i])]
  IN  FlattenSeq([k \in DOMAIN prices |-> Orders(Chain(st, st.levels[side][prices[k]]))])

\* append_resting; an id already in the index undoes the append.
append_resting(st, id, side, price, n) ==
  IF contains(st, id)
    THEN erase_level_if_empty(destroy_node(level_for(st, side, price), n), side, price)
    ELSE [append_node(level_for(st, side, price), side, price, n)
            EXCEPT !.index = @ \cup {[id |-> id, side |-> side, price |-> price, node |-> n]}]

\* The second half of rest: the order is allocated, the node is not.
RestNode(st, id, side, price, order) ==
  IF Acquired(st.nodes) = nullptr
    THEN [st EXCEPT !.orders = release(@, order)]
    ELSE append_resting([st EXCEPT !.nodes = try_acquire(@, [order |-> order, prev |-> nullptr,
                                                             next |-> nullptr])],
                        id, side, price, Acquired(st.nodes))

rest(st, id, side, price, quantity) ==
  IF Acquired(st.orders) = nullptr
    THEN st
    ELSE RestNode([st EXCEPT !.orders = try_acquire(@, [id |-> id, side |-> side,
                                                        price |-> price, qty |-> quantity])],
                  id, side, price, Acquired(st.orders))

\* fill_front_order, given what fill_maker traded; the level stays in its map.
fill_front_order(st, side, price, traded) ==
  LET n == st.levels[side][price].head
      maker == OrderAt(st, n)
  IN  IF traded < maker.qty
        THEN [st EXCEPT !.orders.live[st.nodes.live[n].order].qty = @ - traded]
        ELSE destroy_node([unlink_node(st, side, price, n)
                             EXCEPT !.index = {e \in @ : e.id # maker.id}], n)

\* erase_indexed_order, the order being in the index.
cancel(st, id) ==
  LET e == locator(st, id)
  IN  erase_level_if_empty(
        destroy_node(unlink_node([st EXCEPT !.index = @ \ {e}], e.side, e.price, e.node),
                     e.node),
        e.side, e.price)

reduce(st, id, quantity) ==
  [st EXCEPT !.orders.live[st.nodes.live[locator(st, id).node].order].qty = quantity]

-----------------------------------------------------------------------------
(* The gate.                                                               *)

\* simulate_match: what is left of the quantity and how many makers it frees.
simulate_match(st, side, limit, quantity) ==
  LET Visit(acc, o) ==
        IF acc.remainder = 0 \/ ~CanMatch(side, FALSE, limit, o.price)
          THEN acc
          ELSE [remainder |-> acc.remainder - Least(acc.remainder, o.qty),
                makers_freed |-> acc.makers_freed + (IF acc.remainder >= o.qty THEN 1 ELSE 0)]
  IN  FoldLeft(Visit, [remainder |-> quantity, makers_freed |-> 0],
               append_orders(st, Opposite(side)))

\* Mutant: a full pool refuses every order that could rest.
can_store_limit_FullRefuses(st, side, price, quantity, tif) == tif = "IOC" \/ has_capacity(st)

can_store_limit(st, side, price, quantity, tif) ==
  \/ tif = "IOC" \/ has_capacity(st)
  \/ simulate_match(st, side, price, quantity).remainder = 0
  \/ simulate_match(st, side, price, quantity).makers_freed > 0

\* The nodes the loop meets while quantity is left.
fill_count(st, t, q) ==
  LET Visit(acc, o) ==
        IF acc.left = 0 \/ ~CanMatch(t.side, t.market, t.limit, o.price)
          THEN acc
          ELSE [left |-> acc.left - Least(acc.left, o.qty), count |-> acc.count + 1]
  IN  FoldLeft(Visit, [left |-> q, count |-> 0], append_orders(st, Opposite(t.side))).count

-----------------------------------------------------------------------------
(* Queries.                                                                *)

\* best_bid, best_ask: begin() of a map, as a set of at most one price.
best_price(st, side) ==
  {p \in DOMAIN st.levels[side] : \A q \in DOMAIN st.levels[side] : p = q \/ Better(side, p, q)}

LevelTotal(st, level) ==
  FoldLeft(LAMBDA total, n : total + OrderAt(st, n).qty, 0, Chain(st, level))

quantity_at(st, side, price) ==
  IF price \in DOMAIN st.levels[side] THEN LevelTotal(st, st.levels[side][price]) ELSE 0

collect_levels(st, side) ==
  LET prices == SetToSortSeq(DOMAIN st.levels[side], LAMBDA p, q : Better(side, p, q))
  IN  [k \in DOMAIN prices |-> [price |-> prices[k],
                                quantity |-> LevelTotal(st, st.levels[side][prices[k]])]]

-----------------------------------------------------------------------------
(* What the operators above rely on.                                       *)

\* Every list reads the same both ways and holds the orders the index sends to
\* it; a level that is empty is not in its map, unless it is being filled; no
\* slot of either pool is lost: the live ones are those of the indexed orders.
Sound(st, filling) ==
  /\ \A side \in Sides : \A price \in DOMAIN st.levels[side] :
       LET level == st.levels[side][price]
           chain == Chain(st, level)
       IN  /\ level.size > 0 \/ price \in filling
           /\ level.size = 0 => level.head = nullptr /\ level.tail = nullptr
           /\ level.size > 0 => /\ level.tail = Last(chain)
                                /\ st.nodes.live[level.tail].next = nullptr
           /\ \A k \in DOMAIN chain :
                /\ st.nodes.live[chain[k]].prev = IF k = 1 THEN nullptr ELSE chain[k - 1]
                /\ [id |-> OrderAt(st, chain[k]).id, side |-> side, price |-> price,
                    node |-> chain[k]] \in st.index
  /\ DOMAIN st.nodes.live = {e.node : e \in st.index}
  /\ DOMAIN st.orders.live = {st.nodes.live[n].order : n \in DOMAIN st.nodes.live}
  /\ Cardinality(DOMAIN st.nodes.live) = Cardinality(st.index)
  /\ \A pool \in {st.orders, st.nodes} :
       /\ available(pool) = PoolCapacity - Cardinality(st.index)
       /\ ToSet(pool.free) = (1..PoolCapacity) \ DOMAIN pool.live
=============================================================================
