------------------------------ MODULE PriceTime ------------------------------
(***************************************************************************)
(* What a limit order book promises, without its data structures: price-   *)
(* time priority as a closed formula.  A book is the sequence of its       *)
(* resting orders in order of arrival.  An incoming order trades with the  *)
(* crossing orders of the other side by priority - better price first,     *)
(* then earlier arrival - and each maker receives what is left of the      *)
(* incoming quantity after everything ahead of it.                         *)
(*                                                                         *)
(* The loops of the code (module OrderBook) implement this specification;  *)
(* the modules above the book (Exchange) are built on these operators.     *)
(***************************************************************************)
EXTENDS Integers, Sequences, FiniteSets, FiniteSetsExt

\* The members of a finite set in a strict order: the k-th has k - 1 before it.
Ranked(S, Before(_, _)) ==
  [k \in 1..Cardinality(S) |->
     CHOOSE x \in S : Cardinality({y \in S : Before(y, x)}) = k - 1]

\* The elements of a sequence at the given positions, in their order.
Pick(s, positions) ==
  LET at == Ranked(positions, LAMBDA i, j : i < j)
  IN  [k \in DOMAIN at |-> s[at[k]]]

Sides == {"Buy", "Sell"}
Opposite(side) == IF side = "Buy" THEN "Sell" ELSE "Buy"

\* Price p is better than q for the orders of a side.
Better(side, p, q) == IF side = "Buy" THEN p > q ELSE p < q

\* Mutant: an equal price does not match.
CanMatch_Strict(side, market, limit, price) ==
  market \/ (IF side = "Buy" THEN price < limit ELSE price > limit)

\* can_match_level: the prices an incoming order can trade at.
CanMatch(side, market, limit, price) ==
  market \/ (IF side = "Buy" THEN price <= limit ELSE price >= limit)

Least(a, b) == IF a <= b THEN a ELSE b

Makers(book, side, market, limit) ==
  {i \in DOMAIN book : /\ book[i].side = Opposite(side)
                       /\ CanMatch(side, market, limit, book[i].price)}

\* Resting order i trades before resting order j.
Precedes(book, i, j) ==
  \/ Better(book[i].side, book[i].price, book[j].price)
  \/ book[i].price = book[j].price /\ i < j

\* The quantity maker i receives of an incoming quantity, those ahead of it
\* having taken theirs.
Share(book, quantity, i, ahead) ==
  IF ahead >= quantity THEN 0 ELSE Least(book[i].qty, quantity - ahead)

Shares(book, makers, quantity) ==
  LET qty == [i \in DOMAIN book |-> book[i].qty]
  IN  [i \in DOMAIN book |->
         IF i \in makers
           THEN Share(book, quantity, i,
                      SumFunctionOnSet(qty, {j \in makers : Precedes(book, j, i)}))
           ELSE 0]

Trades(book, id, share, filled) ==
  [k \in DOMAIN filled |-> [taker |-> id, maker |-> book[filled[k]].id,
                            price |-> book[filled[k]].price, qty |-> share[filled[k]]]]

\* The effect of giving every maker its share: the trades in priority order, the
\* remaining quantity and the book left behind.
Fill(book, id, quantity, share) ==
  [trades |-> Trades(book, id, share,
                     Ranked({i \in DOMAIN book : share[i] > 0},
                            LAMBDA i, j : Precedes(book, i, j))),
   remainder |-> quantity - SumFunction(share),
   book |-> Pick([i \in DOMAIN book |-> [book[i] EXCEPT !.qty = @ - share[i]]],
                 {i \in DOMAIN book : book[i].qty > share[i]})]

\* The effect of matching an incoming order.
Match(book, id, side, market, limit, quantity) ==
  Fill(book, id, quantity, Shares(book, Makers(book, side, market, limit), quantity))

IsResting(book, id) == \E i \in DOMAIN book : book[i].id = id
OrderOf(book, id) == book[CHOOSE i \in DOMAIN book : book[i].id = id]
Without(book, id) == Pick(book, {i \in DOMAIN book : book[i].id # id})

\* A limit order: trade, then rest a GTC remainder behind everything else.
Rest(m, id, side, price, tif) ==
  [trades |-> m.trades,
   book |-> IF m.remainder > 0 /\ tif = "GTC"
              THEN Append(m.book, [id |-> id, side |-> side, price |-> price,
                                   qty |-> m.remainder])
              ELSE m.book]

LimitResult(book, id, side, price, quantity, tif) ==
  Rest(Match(book, id, side, FALSE, price, quantity), id, side, price, tif)

MarketResult(book, id, side, quantity) ==
  Rest(Match(book, id, side, TRUE, 0, quantity), id, side, 0, "IOC")

\* A modify keeps its place only when it reduces the quantity at the same price.
Modified(book, old, price, quantity) ==
  IF quantity = 0
    THEN [trades |-> <<>>, book |-> Without(book, old.id)]
  ELSE IF price = old.price /\ quantity <= old.qty
    THEN [trades |-> <<>>,
          book |-> [i \in DOMAIN book |->
                      IF book[i].id = old.id THEN [book[i] EXCEPT !.qty = quantity]
                                             ELSE book[i]]]
    ELSE LimitResult(Without(book, old.id), old.id, old.side, price, quantity, "GTC")

ModifyResult(book, id, price, quantity) == Modified(book, OrderOf(book, id), price, quantity)

NothingTraded(book) == [trades |-> <<>>, book |-> book]
=============================================================================
