------------------------------- MODULE Fixture -------------------------------
(***************************************************************************)
(* The offline tools: qsl-export-stream (write_fixture_export in           *)
(* src/replay/fixture.cpp), which generates a command stream, perhaps      *)
(* shrinks it, and writes it down with what the gateway and the engine do  *)
(* with it; and qsl-replay, which generates a command log and rebuilds an  *)
(* engine from one.                                                        *)
(*                                                                         *)
(* A behaviour generates a stream one command at a time, then serves one   *)
(* request.  The generators do not look at the request, so it is chosen    *)
(* when the stream is complete.  A shrink takes one step per candidate it  *)
(* tries.                                                                  *)
(***************************************************************************)
EXTENDS Flow, Shrink

CONSTANTS Symbols,     \* symbols a property flow registers
          MarketSymbols,   \* and a market-like flow
          Orders,      \* commands generated after the registrations
          ManualOrders,    \* and written by hand after them
          SeedTries    \* flows write_divergence_fixture looks at (50 in the code)

VARIABLES
  request,   \* what the stream is for, "any" until chosen
  step,      \* where the tool is
  gen,       \* the generator: a FlowGenerator, or the next_id of a property flow
  seeds,     \* flows generated for this request so far
  cur,       \* the stream: generated, then shrunk
  chunk,     \* try_remove_chunks_of_size: chunk_size
  i,         \* the loop index of the pass
  changed,   \* this pass has changed the stream
  output     \* what was written: a fixture, or what a replay of the log rebuilt

vars == <<request, step, gen, seeds, cur, chunk, i, changed, output>>
shrinking == <<chunk, i, changed>>

Market == [kind |-> "market", state |-> NewGenerator(MarketSymbols)]
Property == [kind |-> "property", state |-> 1]

\* A stream written by hand, as the shrinker's tests do, may register a name twice.
Manual == [kind |-> "manual", state |-> 1]
RepeatedRegistrations == [s \in 1..Symbols |-> [op |-> "register", name |-> 1]]

Nothing == [written |-> "nothing"]

Init ==
  /\ request = "any" /\ step = "generate" /\ seeds = 1
  /\ \/ gen = Market /\ cur = registrations(MarketSymbols)
     \/ gen = Property /\ cur = registrations(Symbols)
     \/ gen = Manual /\ cur = RepeatedRegistrations
  /\ chunk = 1 /\ i = 0 /\ changed = FALSE
  /\ output = Nothing

-----------------------------------------------------------------------------
(* Generation.                                                             *)

FullLength ==
  CASE gen.kind = "market" -> MarketSymbols + Orders
    [] gen.kind = "property" -> Symbols + Orders
    [] gen.kind = "manual" -> Symbols + ManualOrders

Complete == Len(cur) = FullLength

Generate ==
  /\ step = "generate" /\ ~Complete
  /\ \/ /\ gen.kind = "market"
        /\ \E d \in append_next(gen.state) :
             gen' = [gen EXCEPT !.state = d.gen] /\ cur' = Append(cur, d.command)
     \/ /\ gen.kind \in {"property", "manual"}
        /\ \E d \in property_next(gen.state, Symbols) :
             gen' = [gen EXCEPT !.state = d.next_id] /\ cur' = Append(cur, d.command)
  /\ UNCHANGED <<request, step, seeds, shrinking, output>>

Requests ==
  IF request # "any" THEN {request}
  ELSE CASE gen.kind = "market" -> {"stream", "log"}
         [] gen.kind = "property" -> {"property", "shrink", "divergence"}
         [] gen.kind = "manual" -> {"shrink"}

write_fixture_export ==
  /\ step = "generate" /\ Complete
  /\ \E r \in Requests :
       /\ request' = r
       /\ step' = CASE r \in {"stream", "property"} -> "emit"
                    [] r = "log" -> "replay"
                    [] r = "shrink" -> "shrink"
                    [] r = "divergence" -> "search"
  /\ UNCHANGED <<gen, seeds, cur, shrinking, output>>

-----------------------------------------------------------------------------
(* Predicates.                                                             *)

LevelsOf(book, side) ==
  [p \in {book[k].price : k \in {k \in DOMAIN book : book[k].side = side}} |->
     MapThenSumSet(LAMBDA k : book[k].qty,
                   {k \in DOMAIN book : book[k].side = side /\ book[k].price = p})]

\* Best prices are those of the levels.
snapshot(e) ==
  [last_seq |-> e.seq,
   symbols |-> [s \in DOMAIN e.books |-> [order_count |-> Len(e.books[s]),
                                          bids |-> LevelsOf(e.books[s], "Buy"),
                                          asks |-> LevelsOf(e.books[s], "Sell")]]]

replay_for_divergence(cmds, drop_cancels) ==
  snapshot(ReplayThroughGateway(
    IF drop_cancels THEN SelectSeq(cmds, LAMBDA c : c.op # "cancel") ELSE cmds).engine)

diverges(cmds) == replay_for_divergence(cmds, FALSE) # replay_for_divergence(cmds, TRUE)
produces_trade(cmds) == count_trades(cmds) > 0

fails(cmds) == IF request = "shrink" THEN produces_trade(cmds) ELSE diverges(cmds)

-----------------------------------------------------------------------------
(* write_divergence_fixture looks for a flow that diverges and, without    *)
(* one, writes an empty fixture.                                           *)

\* Mutant: the flows looked at are not counted.
SearchSeed_Uncounted ==
  /\ step = "search"
  /\ IF diverges(cur)
       THEN step' = "shrink" /\ UNCHANGED <<gen, cur>>
       ELSE step' = "generate" /\ gen' = Property /\ cur' = registrations(Symbols)
  /\ UNCHANGED <<request, seeds, shrinking, output>>

SearchSeed ==
  /\ step = "search"
  /\ IF diverges(cur)
       THEN step' = "shrink" /\ UNCHANGED <<gen, seeds, cur>>
     ELSE IF seeds < SeedTries
       THEN /\ step' = "generate" /\ seeds' = seeds + 1
            /\ gen' = Property /\ cur' = registrations(Symbols)
       ELSE step' = "emit" /\ cur' = <<>> /\ UNCHANGED <<gen, seeds>>
  /\ UNCHANGED <<request, shrinking, output>>

-----------------------------------------------------------------------------
(* shrink: reduction passes until one changes nothing.                     *)

\* The indices and flags a pass starts with, on a stream of this length.
StartPass(length) ==
  step' = "remove" /\ chunk' = FirstChunk(length) /\ i' = 0 /\ changed' = FALSE

shrink ==
  /\ step = "shrink"
  /\ IF fails(cur) THEN StartPass(Len(cur))
                  ELSE step' = "emit" /\ UNCHANGED shrinking
  /\ UNCHANGED <<request, gen, seeds, cur, output>>

\* After a removal the next chunk begins at the same index.
try_remove_chunks_of_size ==
  /\ step = "remove" /\ i + chunk <= Len(cur)
  /\ LET candidate == without(cur, i, chunk)
     IN  IF fails(candidate)
           THEN cur' = candidate /\ changed' = TRUE /\ UNCHANGED i
           ELSE i' = i + chunk /\ UNCHANGED <<cur, changed>>
  /\ UNCHANGED <<request, step, gen, seeds, chunk, output>>

remove_contiguous_ranges ==
  /\ step = "remove" /\ i + chunk > Len(cur)
  /\ i' = 0
  /\ IF chunk > 1 THEN chunk' = NextChunk(chunk) /\ UNCHANGED step
                  ELSE step' = "quantities" /\ UNCHANGED chunk
  /\ UNCHANGED <<request, gen, seeds, cur, changed, output>>

Simplified(c) == IF step = "quantities" THEN with_min_qty(c) ELSE with_min_price(c)

simplify_fields ==
  /\ step \in {"quantities", "prices"} /\ i < Len(cur)
  /\ LET candidate == [cur EXCEPT ![i + 1] = Simplified(@)]
     IN  IF candidate # cur /\ fails(candidate)
           THEN cur' = candidate /\ changed' = TRUE
           ELSE UNCHANGED <<cur, changed>>
  /\ i' = i + 1
  /\ UNCHANGED <<request, step, gen, seeds, chunk, output>>

SimplifiedAll ==
  /\ step \in {"quantities", "prices"} /\ i = Len(cur)
  /\ step' = (IF step = "quantities" THEN "prices" ELSE "renumber")
  /\ i' = 0
  /\ UNCHANGED <<request, gen, seeds, cur, chunk, changed, output>>

\* Mutant: one pass is enough.
EndOfPass_Once(reduced) ==
  step' = "emit" /\ UNCHANGED shrinking

\* shrink: another pass on the stream this one leaves, if it changed anything.
EndOfPass(reduced) ==
  IF changed \/ reduced # cur THEN StartPass(Len(reduced))
                              ELSE step' = "emit" /\ UNCHANGED shrinking

renumber_symbols_and_orders ==
  /\ step = "renumber"
  /\ LET candidate == renumber(cur)
         reduced == IF candidate # cur /\ fails(candidate) THEN candidate ELSE cur
     IN  cur' = reduced /\ EndOfPass(reduced)
  /\ UNCHANGED <<request, gen, seeds, output>>

-----------------------------------------------------------------------------
(* Output.                                                                 *)

run_and_emit ==
  /\ step = "emit"
  /\ LET r == ReplayThroughGateway(cur)
     IN  output' = [written |-> "fixture", outcomes |-> r.outcomes,
                    snapshot |-> snapshot(r.engine), trades |-> TradesOf(r.outcomes)]
  /\ step' = "done"
  /\ UNCHANGED <<request, gen, seeds, cur, shrinking>>

CommandRecord(c) == [type |-> "command", payload |-> encode_command(c)]

\* What may have become of one record by the time it is replayed: nothing, a
\* record of another type in its place, or a payload that does not decode.
Damaged(r) ==
  {r, [r EXCEPT !.type = "event"],
   [r EXCEPT !.payload.size = MinSize[r.payload.at[0]] - 1],
   [r EXCEPT !.payload.at[0] = 9]}
  \cup {[r EXCEPT !.payload.at[b] = 7] :
          b \in (CASE r.payload.at[0] = 1 -> {25, 26}
                   [] r.payload.at[0] = 2 -> {13}
                   [] OTHER -> {})}

\* recovery.cpp replay: each command record that decodes, straight to the engine.
replay(records) ==
  FoldLeft(LAMBDA r, record :
             LET command == IF record.type = "command" THEN decode_command(record.payload)
                                                       ELSE <<>>
                 a == replay_apply(r.engine, command[1])
             IN  IF command = <<>> THEN [r EXCEPT !.events = Append(@, <<>>)]
                 ELSE [engine |-> a.engine, events |-> Append(r.events, a.events)],
           [engine |-> NewEngine, events |-> <<>>], records)

\* qsl-replay generate, and later qsl-replay on the log.
ReplayLog ==
  /\ step = "replay"
  /\ \E k \in DOMAIN cur : \E record \in Damaged(CommandRecord(cur[k])) :
       output' = [written |-> "log",
                  lost |-> IF record = CommandRecord(cur[k]) THEN {} ELSE {k},
                  rebuilt |-> replay([j \in DOMAIN cur |->
                                        IF j = k THEN record ELSE CommandRecord(cur[j])])]
  /\ step' = "done"
  /\ UNCHANGED <<request, gen, seeds, cur, shrinking>>

Exited == step = "done" /\ UNCHANGED vars

Next ==
  \/ Generate \/ write_fixture_export \/ SearchSeed
  \/ shrink \/ try_remove_chunks_of_size \/ remove_contiguous_ranges
  \/ simplify_fields \/ SimplifiedAll \/ renumber_symbols_and_orders
  \/ run_and_emit \/ ReplayLog \/ Exited

\* Each tool is one thread that runs until it has written its output: weak
\* fairness of Next, a step of which is possible exactly until then.
Fairness == []<>(step = "done") \/ []<><<Next>>_vars

Spec == Init /\ [][Next]_vars /\ Fairness

-----------------------------------------------------------------------------
(* Properties.                                                             *)

\* The stream shrink returns still fails, and no single reduction it knows keeps
\* it failing: every command is needed, no quantity or price can go to 1, and the
\* ids are as small as they get.  A stream that did not fail is returned as it was;
\* a search without success leaves the empty one.
ShrunkMinimal ==
  step = "emit" /\ request \in {"shrink", "divergence"} =>
    IF fails(cur)
      THEN /\ \A k \in DOMAIN cur :
                /\ ~fails(without(cur, k - 1, 1))
                /\ \A c \in {with_min_qty(cur[k]), with_min_price(cur[k])} \ {cur[k]} :
                     ~fails([cur EXCEPT ![k] = c])
           /\ renumber(cur) # cur => ~fails(renumber(cur))
      ELSE Len(cur) = IF request = "divergence" THEN 0 ELSE FullLength

\* What became of the orders of a stream, with every symbol and order id replaced
\* by the place it is first used at.
OrdersStory(orders, outcomes) ==
  LET SymbolUse(s) == Min({k \in DOMAIN orders : orders[k].symbol = s})
      IdUse(id) == Min({k \in DOMAIN orders : orders[k].id = id})
      Told(e) == IF e.kind = "trade"
                   THEN <<e.seq, e.kind, SymbolUse(e.symbol), IdUse(e.trade.taker),
                          IdUse(e.trade.maker), e.trade.price, e.trade.qty>>
                   ELSE <<e.seq, e.kind, SymbolUse(e.symbol), IdUse(e.id)>>
  IN  [k \in DOMAIN orders |->
         [accepted |-> outcomes[k].accepted, reason |-> outcomes[k].reason,
          events |-> [j \in DOMAIN outcomes[k].events |-> Told(outcomes[k].events[j])]]]

Story(cmds) ==
  LET outcomes == ReplayThroughGateway(cmds).outcomes
      places == SelectSeq([k \in DOMAIN cmds |-> k], LAMBDA k : ~IsRegister(cmds[k]))
  IN  OrdersStory([j \in DOMAIN places |-> cmds[places[j]]],
                  [j \in DOMAIN places |-> outcomes[places[j]]])

\* renumber changes names and nothing else: the orders of every stream the
\* shrinker is given or reaches meet the same fate before and after, stale cancels and orders
\* on unknown symbols included, and a second renumbering has nothing left to do.
RenumberFaithful ==
  step \in {"shrink", "renumber"} =>
    /\ Story(renumber(cur)) = Story(cur)
    /\ renumber(renumber(cur)) = renumber(cur)

\* Replaying a generated log rebuilds the engine its generator followed.  Every
\* record has an effect but registrations and the cancels of ids not given out:
\* the generator never addresses an order that is gone.  A record that is lost to
\* replay (of another type, or undecodable) is skipped and nothing else.
LogReplays ==
  output.written = "log" =>
    LET rebuilt == output.rebuilt
        kept == SelectSeq([k \in DOMAIN cur |-> k], LAMBDA k : k \notin output.lost)
        given(k) == {cur[j].id : j \in {j \in 1..(k - 1) : cur[j].op \in {"limit", "market"}}}
    IN  /\ rebuilt.engine = FoldLeft(LAMBDA e, k : replay_apply(e, cur[k]).engine,
                                     NewEngine, kept)
        /\ output.lost = {} =>
             /\ rebuilt.engine = gen.state.model
             /\ \A k \in DOMAIN cur :
                  rebuilt.events[k] = <<>> <=>
                    \/ IsRegister(cur[k])
                    \/ cur[k].op = "cancel" /\ cur[k].id \notin given(k)

\* Every request ends with its output written: the search for a flow that diverges
\* gives up, and the passes of the shrinker reach a stream none of them changes.
ToolEnds == <>(step = "done")
=============================================================================
