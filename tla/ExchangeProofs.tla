--------------------------- MODULE ExchangeProofs ---------------------------
(***************************************************************************)
(* For every set of commands, every storage and every pair of risk limits, *)
(* replaying the accepted commands without the gateway rebuilds the engine *)
(* and its events, the preview of an order gives the verdict and the fills *)
(* that the order then gets, and the books stay sound. With a storage that *)
(* holds what is left of any book it holds, the gateway answers exactly    *)
(* what it accepts, and every resting order is within the limits and the   *)
(* storage's domain.                                                       *)
(***************************************************************************)
EXTENDS Exchange, EngineProofs, TLAPS

\* The operations of a command.
Ops == {"register", "limit", "market", "cancel", "modify"}

-----------------------------------------------------------------------------
(* The gateway beside the engine it guards.                                *)

\* What the gateway lets through does what the engine does with it directly;
\* what it refuses leaves the engine and says nothing.
Guarded(e, r, a) ==
  /\ r.accepted \in BOOLEAN
  /\ r.accepted => r.engine = a.engine /\ r.events = a.events
  /\ ~r.accepted => r.engine = e /\ r.events = <<>>

\* A refused request guards the engine.
LEMMA RejectGuarded ==
  ASSUME NEW e, NEW reason, NEW a
  PROVE  Guarded(e, Reject(e, reason), a)
  BY DEF Guarded, Reject

\* An accepted one passes on what the engine did.
LEMMA AcceptGuarded ==
  ASSUME NEW e, NEW a
  PROVE  Guarded(e, Accept(a), a)
  BY DEF Guarded, Accept

\* apply_command passes a command on to the engine unchanged or not at all.
LEMMA GatewayGuards ==
  ASSUME NEW e, NEW c, c.op \in Ops
  PROVE  Guarded(e, apply_command(e, c), replay_apply(e, c))
<1>1. CASE c.op = "register"
  <2>1. /\ apply_command(e, c) = Accept(NoEvents(register_symbol(e, c.name)))
        /\ replay_apply(e, c) = NoEvents(register_symbol(e, c.name))
    BY <1>1 DEF apply_command, replay_apply
  <2> QED  BY <2>1, AcceptGuarded
<1>2. CASE c.op = "limit"
  <2> DEFINE a == new_limit(e, c.symbol, c.id, c.side, c.price, c.qty, c.tif)
             r == gw_new_limit(e, c.symbol, c.id, c.side, c.price, c.qty, c.tif)
  <2>1. apply_command(e, c) = r /\ replay_apply(e, c) = a
    BY <1>2 DEF apply_command, replay_apply
  <2>2. r = Accept(a) \/ \E reason : r = Reject(e, reason)
    BY DEF gw_new_limit
  <2> HIDE DEF a, r
  <2> QED  BY <2>1, <2>2, AcceptGuarded, RejectGuarded
<1>3. CASE c.op = "market"
  <2> DEFINE a == new_market(e, c.symbol, c.id, c.side, c.qty)
             r == gw_new_market(e, c.symbol, c.id, c.side, c.qty)
  <2>1. apply_command(e, c) = r /\ replay_apply(e, c) = a
    BY <1>3 DEF apply_command, replay_apply
  <2>2. r = Accept(a) \/ \E reason : r = Reject(e, reason)
    BY DEF gw_new_market
  <2> HIDE DEF a, r
  <2> QED  BY <2>1, <2>2, AcceptGuarded, RejectGuarded
<1>4. CASE c.op = "cancel"
  <2> DEFINE a == cancel(e, c.symbol, c.id)
             r == gw_cancel(e, c.symbol, c.id)
  <2>1. apply_command(e, c) = r /\ replay_apply(e, c) = a
    BY <1>4 DEF apply_command, replay_apply
  <2>2. r = Accept(a) \/ \E reason : r = Reject(e, reason)
    BY DEF gw_cancel
  <2> HIDE DEF a, r
  <2> QED  BY <2>1, <2>2, AcceptGuarded, RejectGuarded
<1>5. CASE c.op = "modify"
  <2> DEFINE a == modify(e, c.symbol, c.id, c.price, c.qty)
             r == gw_modify(e, c.symbol, c.id, c.price, c.qty)
  <2>1. apply_command(e, c) = r /\ replay_apply(e, c) = a
    BY <1>5 DEF apply_command, replay_apply
  <2>2. r = Accept(a) \/ \E reason : r = Reject(e, reason)
    BY DEF gw_modify
  <2> HIDE DEF a, r
  <2> QED  BY <2>1, <2>2, AcceptGuarded, RejectGuarded
<1> QED  BY <1>1, <1>2, <1>3, <1>4, <1>5 DEF Ops

\* preview_new_order makes the checks of the submission, in whatever order, and counts
\* the fills of the match the submission makes.
LEMMA PreviewAgrees ==
  ASSUME NEW I, NEW e, SoundEngine(I, e), NEW c, IsCommand(c), c.id \in I, IsNewOrder(c)
  PROVE  Previews(Preview(e, c), apply_command(e, c))
<1>1. CASE c.op = "limit"
  <2>1. apply_command(e, c) = gw_new_limit(e, c.symbol, c.id, c.side, c.price, c.qty, c.tif)
    BY <1>1 DEF apply_command
  <2>2. Preview(e, c) =
          preview_new_order(e, c.symbol, c.id, c.side, c.price, c.qty, FALSE, c.tif)
    BY <1>1 DEF Preview
  <2>3. c.price \in Int /\ c.qty \in Nat
    BY <1>1 DEF IsCommand
  <2> QED  BY Zenon, <2>1, <2>2, <2>3, LimitPreviewed
<1>2. CASE c.op = "market"
  <2>1. apply_command(e, c) = gw_new_market(e, c.symbol, c.id, c.side, c.qty)
    BY <1>2 DEF apply_command
  <2>2. Preview(e, c) = preview_new_order(e, c.symbol, c.id, c.side, 0, c.qty, TRUE, "IOC")
    BY <1>2 DEF Preview
  <2>3. c.qty \in Nat
    BY <1>2 DEF IsCommand
  <2> QED  BY Zenon, <2>1, <2>2, <2>3, MarketPreviewed
<1> QED  BY <1>1, <1>2 DEF IsNewOrder

-----------------------------------------------------------------------------
(* The exchange.                                                           *)

\* The order identifiers of the commands.
Ids == {c.id : c \in Commands}

\* What holds with any storage.
IInv ==
  /\ SoundEngine(Ids, engine)
  /\ ReplayAgrees
  /\ PreviewExact

\* What holds with a storage that can hold what is left of a book it holds.
StorageInv == AllStorable(engine) /\ AcceptedIsAnswered

\* An engine without symbols is sound.
LEMMA InitIInv == Init => IInv
<1> SUFFICES ASSUME Init PROVE IInv
  OBVIOUS
<1>1. engine = [names |-> <<>>, books |-> <<>>, seq |-> 0] /\ replayed = engine /\ answer = NoAnswer
  BY DEF Init, NewEngine
<1>2. SoundEngine(Ids, engine)
  BY <1>1 DEF SoundEngine
<1> QED  BY <1>1, <1>2 DEF IInv, ReplayAgrees, PreviewExact

\* It stores nothing, and nothing was accepted.
LEMMA InitStorage == Init => StorageInv
<1> SUFFICES ASSUME Init PROVE StorageInv
  OBVIOUS
<1>1. engine.books = <<>> /\ answer = NoAnswer
  BY DEF Init, NewEngine
<1> QED  BY <1>1 DEF StorageInv, AllStorable, AcceptedIsAnswered

\* A submission, written with the outcomes of the gateway and of the replay.
LEMMA Submitted ==
  ASSUME NEW c, Submit(c)
  PROVE  LET r == apply_command(engine, c)
             a == replay_apply(replayed, c)
         IN  /\ engine' = r.engine /\ replayed' = IF r.accepted THEN a.engine ELSE replayed
             /\ answer' # NoAnswer
             /\ answer'.op = c.op /\ answer'.command = c
             /\ answer'.accepted = r.accepted /\ answer'.events = r.events
             /\ answer'.since = engine.seq
             /\ answer'.again = IF r.accepted THEN a.events ELSE <<>>
             /\ answer'.preview = IF IsNewOrder(c) THEN Preview(engine, c) ELSE <<>>
  BY DEF Submit, Answered, NoAnswer

\* A submission keeps what holds with any storage.
LEMMA SubmitStep ==
  ASSUME IInv, NEW c \in Commands, Submit(c)
  PROVE  IInv'
<1> DEFINE r == apply_command(engine, c)
           a == replay_apply(replayed, c)
<1>1. /\ engine' = r.engine /\ replayed' = IF r.accepted THEN a.engine ELSE replayed
      /\ answer'.command = c /\ answer'.accepted = r.accepted /\ answer'.events = r.events
      /\ answer'.again = IF r.accepted THEN a.events ELSE <<>>
      /\ answer'.preview = IF IsNewOrder(c) THEN Preview(engine, c) ELSE <<>>
  BY Submitted
<1>2. IsCommand(c) /\ c.op \in Ops /\ c.id \in Ids
  BY CommandsAssumption DEF IsCommand, Ops, Ids
<1>3. Guarded(engine, r, a) /\ replayed = engine
  BY <1>2, GatewayGuards DEF IInv, ReplayAgrees
<1>4. SoundEngine(Ids, engine)
  BY DEF IInv
<1>5. Served(Ids, engine, r)
  BY Zenon, <1>2, <1>4, ApplyAnswers
<1>6. IsNewOrder(c) => Previews(Preview(engine, c), r)
  BY Zenon, <1>2, <1>4, PreviewAgrees
<1> HIDE DEF r, a
<1>7. SoundEngine(Ids, engine)'
  BY <1>1, <1>5 DEF Served
<1>8. ReplayAgrees'
  BY <1>1, <1>3 DEF Guarded, ReplayAgrees
<1>9. PreviewExact'
  <2> SUFFICES ASSUME IsNewOrder(answer'.command)
               PROVE  /\ answer'.preview.accepted = answer'.accepted
                      /\ answer'.preview.fill_count = TradeCount(answer'.events)
    BY DEF PreviewExact, TradeCount, IsNewOrder
  <2>1. IsNewOrder(c)
    BY <1>1
  <2> QED  BY <1>1, <1>6, <2>1 DEF Previews
<1> QED  BY <1>7, <1>8, <1>9 DEF IInv

\* A submission keeps what holds with a reducible storage.
LEMMA SubmitStored ==
  ASSUME ReducibleStorage(Ids), IInv, StorageInv, NEW c \in Commands, Submit(c)
  PROVE  StorageInv'
<1> DEFINE r == apply_command(engine, c)
<1>1. /\ engine' = r.engine
      /\ answer'.op = c.op /\ answer'.accepted = r.accepted /\ answer'.events = r.events
      /\ answer'.since = engine.seq
  BY Submitted
<1>2. IsCommand(c) /\ c.id \in Ids /\ SoundEngine(Ids, engine) /\ AllStorable(engine)
  BY CommandsAssumption DEF Ids, IInv, StorageInv
<1>3. /\ Served(Ids, engine, r)
      /\ ReducibleStorage(Ids) /\ AllStorable(engine) =>
           (r.events = <<>> <=> (c.op = "register" \/ ~r.accepted))
  BY Zenon, <1>2, ApplyAnswers
<1> HIDE DEF r
<1>4. AllStorable(engine)'
  BY Zenon, <1>1, <1>2, <1>3 DEF Served, AllStorable
<1>5. AcceptedIsAnswered'
  <2>1. /\ \A k \in DOMAIN r.events : r.events[k].seq = engine.seq + k
        /\ r.engine.seq = engine.seq + Len(r.events)
    BY Zenon, <1>3 DEF Served, Numbered
  <2> QED  BY Zenon, <1>1, <1>2, <1>3, <2>1 DEF AcceptedIsAnswered
<1> QED  BY <1>4, <1>5 DEF StorageInv

\* Every step keeps what holds with any storage.
LEMMA NextIInv == IInv /\ [Next]_vars => IInv'
<1> SUFFICES ASSUME IInv, [Next]_vars PROVE IInv'
  OBVIOUS
<1>1. ASSUME NEW c \in Commands, Submit(c) PROVE IInv'
  BY <1>1, SubmitStep
<1>2. CASE Taken
  BY <1>2 DEF Taken, IInv, ReplayAgrees, PreviewExact
<1>3. CASE UNCHANGED vars
  BY <1>3 DEF vars, IInv, ReplayAgrees, PreviewExact, IsNewOrder
<1> QED  BY <1>1, <1>2, <1>3 DEF Next

\* Every step keeps what holds with a reducible storage.
LEMMA NextStorage ==
  ASSUME ReducibleStorage(Ids)
  PROVE  IInv /\ StorageInv /\ [Next]_vars => StorageInv'
<1> SUFFICES ASSUME IInv, StorageInv, [Next]_vars PROVE StorageInv'
  OBVIOUS
<1>1. ASSUME NEW c \in Commands, Submit(c) PROVE StorageInv'
  BY <1>1, SubmitStored
<1>2. CASE Taken
  BY <1>2 DEF Taken, StorageInv, AllStorable, AcceptedIsAnswered
<1>3. CASE UNCHANGED vars
  BY <1>3 DEF vars, StorageInv, AllStorable, AcceptedIsAnswered
<1> QED  BY <1>1, <1>2, <1>3 DEF Next

\* Both hold throughout when the storage is reducible.
LEMMA AlwaysStored == ReducibleStorage(Ids) => (Spec => [](IInv /\ StorageInv))
<1> SUFFICES ASSUME ReducibleStorage(Ids) PROVE Spec => [](IInv /\ StorageInv)
  OBVIOUS
<1>1. IInv /\ StorageInv /\ [Next]_vars => (IInv /\ StorageInv)'
  BY NextIInv, NextStorage
<1> QED  BY InitIInv, InitStorage, <1>1, PTL DEF Spec

\* A replay of the accepted commands, which knows neither gateway nor risk limits,
\* rebuilds the engine and the events, whatever the commands, the storage and the
\* limits were.
THEOREM ReplayRebuilds == Spec => []ReplayAgrees
<1>1. IInv => ReplayAgrees
  BY DEF IInv
<1> QED  BY InitIInv, NextIInv, <1>1, PTL DEF Spec

\* An order is accepted exactly when the preview just before it said so, and makes as
\* many trades as the preview counted.
THEOREM PreviewIsExact == Spec => []PreviewExact
<1>1. IInv => PreviewExact
  BY DEF IInv
<1> QED  BY InitIInv, NextIInv, <1>1, PTL DEF Spec

\* When the storage can hold what is left of any book it holds, as pools of
\* orders and bands of prices can (PoolsReducible), the gateway answers
\* exactly the accepted requests with events and those events continue the
\* engine's sequence numbers without a gap (submit, cancel, modify,
\* register_symbol).
THEOREM EveryAcceptedAnswered == ReducibleStorage(Ids) => (Spec => []AcceptedIsAnswered)
<1>1. IInv /\ StorageInv => AcceptedIsAnswered
  BY DEF StorageInv
<1> QED  BY AlwaysStored, <1>1, PTL

\* With such a storage every book is at all times one that the storage can
\* hold, uncrossed and without duplicates, and every order that rests, after
\* any sequence of fills, cancels and modifies, still has the quantity and
\* the notional value that the risk checks allow a new order.
THEOREM LimitsKept == ReducibleStorage(Ids) => (Spec => []RestingWithinLimits)
<1>1. IInv /\ StorageInv => RestingWithinLimits
  BY DEF IInv, StorageInv, SoundEngine, AllStorable, Sound, WithinLimits, DistinctIds,
         NotCrossed, RestingWithinLimits
<1> QED  BY AlwaysStored, <1>1, PTL

\* Whatever the commands, the storage and the limits, no book of the engine
\* is ever crossed, holds an identifier twice, or holds an order without
\* quantity or beyond the limits of the risk checks: matching takes what
\* crosses before the rest is stored.
THEOREM BooksStaySound == Spec => []SoundEngine(Ids, engine)
<1>1. IInv => SoundEngine(Ids, engine)
  BY DEF IInv
<1> QED  BY InitIInv, NextIInv, <1>1, PTL DEF Spec
=============================================================================
