---------------------------- MODULE PriceTimeBook ----------------------------
(***************************************************************************)
(* The abstract order book: price-time priority (module PriceTime) as a    *)
(* specification in which every operation is one step.  A storage that     *)
(* cannot hold every book refuses exactly the requests whose outcome it    *)
(* could not hold: Storable says which books it can.                       *)
(***************************************************************************)
EXTENDS PriceTime

CONSTANTS Ids, Prices, Quantities, Storable(_)

VARIABLES resting,   \* the book
          answered,  \* the request just answered, until its caller has the result
          trades     \* the trades it returns

bookVars == <<resting, answered, trades>>

Answer(request, result) ==
  /\ answered = <<>>
  /\ answered' = request
  /\ trades' = result.trades
  /\ resting' = result.book

Taken ==
  /\ answered # <<>>
  /\ answered' = <<>> /\ trades' = <<>>
  /\ UNCHANGED resting

\* A refused request leaves the book as it was.
IfStorable(result) == IF Storable(result.book) THEN result ELSE NothingTraded(resting)

BookLimit(id, side, price, quantity, tif) ==
  Answer(<<"limit", id, side, price, quantity, tif>>,
         IF IsResting(resting, id) THEN NothingTraded(resting)
                                  ELSE IfStorable(LimitResult(resting, id, side, price,
                                                         quantity, tif)))

BookMarket(id, side, quantity) ==
  Answer(<<"market", id, side, quantity>>,
         IF IsResting(resting, id) THEN NothingTraded(resting)
                                  ELSE MarketResult(resting, id, side, quantity))

BookCancel(id) ==
  Answer(<<"cancel", id>>, [trades |-> <<>>, book |-> Without(resting, id)])

BookModify(id, price, quantity) ==
  Answer(<<"modify", id, price, quantity>>,
         IF IsResting(resting, id) THEN IfStorable(ModifyResult(resting, id, price, quantity))
                                   ELSE NothingTraded(resting))

BookInit == resting = <<>> /\ answered = <<>> /\ trades = <<>>

Requests ==
  ({"limit"} \X Ids \X Sides \X Prices \X Quantities \X {"GTC", "IOC"})
    \cup ({"market"} \X Ids \X Sides \X Quantities)
    \cup ({"cancel"} \X Ids)
    \cup ({"modify"} \X Ids \X Prices \X Quantities)

\* One request is answered.
BookAnswers(r) ==
  CASE r[1] = "limit" -> BookLimit(r[2], r[3], r[4], r[5], r[6])
    [] r[1] = "market" -> BookMarket(r[2], r[3], r[4])
    [] r[1] = "cancel" -> BookCancel(r[2])
    [] r[1] = "modify" -> BookModify(r[2], r[3], r[4])

BookNext == Taken \/ (answered' \in Requests /\ BookAnswers(answered'))

BookSpec == BookInit /\ [][BookNext]_bookVars
=============================================================================
