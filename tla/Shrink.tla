------------------------------- MODULE Shrink -------------------------------
(***************************************************************************)
(* The reductions of the failing-stream shrinker (src/replay/shrink.cpp)   *)
(* as operators on command streams; module Fixture runs its passes.        *)
(* Symbols are positions (SymbolId + 1), so the i-th registration of a     *)
(* stream with distinct names owns symbol i.                               *)
(***************************************************************************)
EXTENDS Engine, SequencesExt

IsRegister(c) == c.op = "register"

\* The stream without the n commands that follow the first i.
without(cmds, i, n) == SubSeq(cmds, 1, i) \o SubSeq(cmds, i + n + 1, Len(cmds))

with_min_qty(c) ==
  IF c.op \in {"limit", "market", "modify"} THEN [c EXCEPT !.qty = 1] ELSE c
with_min_price(c) ==
  IF c.op \in {"limit", "modify"} THEN [c EXCEPT !.price = 1] ELSE c

\* The chunk sizes of remove_contiguous_ranges: half the stream, a quarter, ...
\* and last single commands.
FirstChunk(length) == IF length \div 2 > 1 THEN length \div 2 ELSE 1

NextChunk(n) == FirstChunk(n)

-----------------------------------------------------------------------------
(* renumber: drop the registrations nobody refers to, number the others    *)
(* from the start and the order ids in order of first appearance.          *)

has_duplicate_symbol_registration_names(cmds) ==
  \E i, j \in DOMAIN cmds :
    i # j /\ IsRegister(cmds[i]) /\ IsRegister(cmds[j]) /\ cmds[i].name = cmds[j].name

\* Mutant: cancels and modifies are taken to refer to nothing.
collect_referenced_symbols_NewOnly(cmds) ==
  {cmds[k].symbol : k \in {k \in DOMAIN cmds : cmds[k].op \in {"limit", "market"}}}

collect_referenced_symbols(cmds) ==
  {cmds[k].symbol : k \in {k \in DOMAIN cmds : ~IsRegister(cmds[k])}}

\* The registered and referenced symbols, each mapped to its rank among them.
build_symbol_remap(cmds, referenced) ==
  LET registered == 1..Len(SelectSeq(cmds, IsRegister))
      kept == registered \cap referenced
  IN  [s \in kept |-> Cardinality({r \in kept : r <= s})]

remap_symbol(remap, symbol) == IF symbol \in DOMAIN remap THEN remap[symbol] ELSE symbol

\* OrderIdRemapper: 0 for the first id met, 1 for the next new one, ...
OrderIdRemap(cmds) ==
  LET orders == SelectSeq(cmds, LAMBDA c : ~IsRegister(c))
      FirstUse(id) == Min({k \in DOMAIN orders : orders[k].id = id})
      ids == {orders[k].id : k \in DOMAIN orders}
  IN  [id \in ids |-> Cardinality({x \in ids : FirstUse(x) < FirstUse(id)})]

renumber(cmds) ==
  IF has_duplicate_symbol_registration_names(cmds) THEN cmds
  ELSE LET remap == build_symbol_remap(cmds, collect_referenced_symbols(cmds))
           ids == OrderIdRemap(cmds)
           Renamed(c) == [c EXCEPT !.symbol = remap_symbol(remap, @), !.id = ids[@]]
           Old(k) == Cardinality({j \in 1..k : IsRegister(cmds[j])})
           kept == SelectSeq([k \in DOMAIN cmds |-> k],
                             LAMBDA k : IsRegister(cmds[k]) => Old(k) \in DOMAIN remap)
       IN  [j \in DOMAIN kept |->
              IF IsRegister(cmds[kept[j]])
                THEN [op |-> "register", name |-> remap[Old(kept[j])]]
                ELSE Renamed(cmds[kept[j]])]

-----------------------------------------------------------------------------
(* What the predicates replay.                                             *)

ReplayThroughGateway(cmds) ==
  FoldLeft(LAMBDA r, c : LET a == apply_command(r.engine, c)
                         IN  [engine |-> a.engine,
                              outcomes |-> Append(r.outcomes,
                                                  [accepted |-> a.accepted,
                                                   reason |-> a.reason,
                                                   events |-> a.events])],
           [engine |-> NewEngine, outcomes |-> <<>>], cmds)

TradesOf(outcomes) ==
  MapThenSumSet(LAMBDA k : Len(SelectSeq(outcomes[k].events, LAMBDA e : e.kind = "trade")),
                DOMAIN outcomes)

count_trades(cmds) == TradesOf(ReplayThroughGateway(cmds).outcomes)
=============================================================================
