# A TLA+ model of quant-systems-lab

quant-systems-lab is a C++20 exchange simulator: a price-time order book, a
multi-symbol matching engine behind a risk gateway, a binary session protocol
served by a threaded and by an epoll TCP server, an append-only command log with
replay and recovery, a lock-free ring with a three-thread pipeline, and a
market-data feed.  This directory models those parts in TLA+, checks the models
with TLC on small instances and proves the most important properties with TLAPS
for every value of the constants.

## 1. The system: parts, state, operations

| Part | Source | State | Operations | Hard behaviour |
|---|---|---|---|---|
| SPSC ring | `include/qsl/concurrency/spsc_ring.hpp` | two cursors, slots | `try_push`, `try_pop` | two threads, acquire/release, stale loads, wrap-around |
| Pipeline | `include/qsl/concurrency/pipeline.hpp` | two rings, two done flags, engine, result | three stage loops, drain, join | shutdown while elements are in flight, full rings |
| Order book | `src/engine/order_book.cpp`, `contiguous_store.hpp` | level maps, FIFO lists, id index; three storages | add, cancel, modify, `fill_count` | index and lists in step inside the matching loop; in-place and replacing modifies |
| Matching engine | `src/engine/matching_engine.cpp` | symbols, books, sequence number | `register_symbol`, the four mutators | gap-free sequence, silent refusals |
| Risk and gateway | `src/engine/risk.cpp`, `src/gateway/order_gateway.cpp` | limits | the four submissions, `preview_new_order` | refused means no effect; the preview is exact |
| Session | `src/gateway/session.cpp` | input buffer, logged-out flag | `on_bytes` | split frames, bounded output, malformed input |
| Threaded server | `src/gateway/tcp_server.cpp` | workers, done flags, gateway mutex | accept loop, `serve_connection` | admission control, reaping, accept errors |
| Epoll server | `src/gateway/epoll_server.cpp` | clients, tokens, listener arming, buffers | event loop | back-pressure, half close, stale events, descriptor exhaustion |
| Command log | `src/replay/event_log.cpp` | file, stdio buffer, directory entry | `append`, `sync`, recover, repair | crashes between write, flush and fsync; torn tails |
| Streams: generators, codec, replay | `src/replay/recovery.cpp`, `command.cpp`, `dispatch.hpp` | a generator's own engine, active orders and mid prices; a log's records | `generate_flow`, `generate_property_flow`, `encode_command`, `decode_command`, `replay` | replay without risk checks; records that do not decode |
| Shrinker and fixtures | `src/replay/shrink.cpp`, `fixture.cpp` | the stream, chunk size, index, changed flag | reduction passes, `renumber`, `write_fixture_export` | passes to a fixpoint; ids renumbered without changing the story |
| Market data | `src/feed/*`, `apps/qsl-mdfeed` | last tops of book, feed sequence, the receiver's tracker | `on_events`, UDP send, `observe`, the subscriber's loop | loss, duplication, reordering, damage, giving up |

## 2. Modules

| Module | Models | Abstraction it implements |
|---|---|---|
| `SpscRing` (proofs: `PipelineProofs`) | the ring, one action per memory access; a load may return any value at least as new as the last one seen | `BoundedFifo` |
| `Pipeline` (proofs: `PipelineProofs`) | the three threads; a ring is the FIFO that `SpscRing` implements, with stale occupancy | the single-threaded run, carried as a history |
| `RingPipeline` (`MCPipeline`) | the three threads with the inbound ring's accesses to slots and cursors | `Pipeline` |
| `PriceTime` | price-time priority as a closed formula on books: each maker's share is what is left after everything ahead of it | |
| `PriceTimeBook` | the same as a specification, one step per request, refusing what a storage cannot hold | |
| `OrderBook` (`MCOrderBook`) | the book on one of its three storages, matching loop iteration by iteration, with its views | `PriceTimeBook` |
| `BaselineStore` | level maps of FIFO lists and an id index, as operators on a store | |
| `IntrusiveStore`, `Pool` | linked lists of pooled nodes, as operators on a store | |
| `ContiguousStore` | price-indexed vectors with tombstones, bitmaps, compaction, as operators on a store | |
| `Engine` (proofs: `EngineProofs`) | engine, risk checks, gateway and command dispatch as operators on engine states, over `PriceTime` books | |
| `Exchange` (proofs: `ExchangeProofs`; `MCExchange`) | the gateway and engine under a stream of commands, beside the engine a replay rebuilds | |
| `EventLog` (proofs: `EventLogProofs`) | the log writer, recovery and repair over stdio buffer, page cache and disk | |
| `Session` (proofs: `SessionProofs`; `MCSession`) | connection threads of the threaded server: read, lock, `on_bytes` frame by frame, write | |
| `TcpAcceptor` (proofs: `TcpAcceptorProofs`) | the accept loop of the threaded server and its workers | |
| `EpollClient` (proofs: `EpollLoopProofs`) | one connection of the epoll server, with its peer and the socket buffers | |
| `EpollLoop` (proofs: `EpollLoopProofs`) | the epoll server's loop over all connections: batches, accepts, descriptor reuse, stop | |
| `Feed` (proofs: `FeedProofs`; `MCFeed`) | publisher, network and subscriber of the market-data feed | |
| `Flow` | the two stream generators as sets of next commands, and the payloads commands are logged in | |
| `Shrink` | the shrinker's reductions and renumbering, as operators on streams | |
| `Fixture` (`MCFixture`) | the offline tools: generate a stream, then shrink it candidate by candidate, write its fixture, or log it and replay the log | |

How they fit together: `SpscRing` is shown to be a bounded FIFO, `Pipeline` uses
bounded FIFOs, and `RingPipeline` puts the two together; `OrderBook` is shown to be a
price-time book on each storage, and `Engine` uses price-time books with a `Storable`
predicate for the storage; `Exchange`, `Session`, `Flow` and `Shrink` call the
operators of `Engine`, and `Fixture` puts the last two together.  `Feed`
sees the engine through its tops of book.  The two halves of the epoll server meet
where `EpollLoop` serves a ready client in one step and `EpollClient` spells that
step out.

State and actions carry the names of the code where there is one.  Where the
code has a local variable that lives across steps, the module has a program
counter `pc` and a variable for it.  History variables, which no action reads,
are declared as such.

## 3. What the runs check

| Run | Question | Answer |
|---|---|---|
| `pipeline` | With cursors as stale as acquire/release allows, is a slot of the ring ever accessed by both threads without a happens-before edge, is anything lost or reordered, does a pushed command arrive?  Does any timing of the three threads, any full ring or any late done flag change the outcome of the single-threaded loop, or hang the join?  Is the pipeline over the ring's memory accesses the one over FIFOs? | `NoDataRace`, `RefinesFifo`, `EventuallyDelivered`, `MatchesSequential`, `CompleteWhenJoined`, `EventuallyJoined`, `ImplementsPipeline` hold |
| `order_book` | On each storage: do lists, locators, cursors, counters and bitmaps agree inside the matching loop, is the book never crossed, does `fill_count` predict the trades, do the views report what rests, is the result price-time priority, and is a request refused exactly when its outcome could not be held? | all hold; a queue has at most as many tombstones as live orders, or at most `kCompactMinSize - 2` (`rest` never compacts, so a queue that grows past the threshold keeps the tombstones it had) |
| `exchange` | Does an accepted command always produce its event, is the preview exact, does replay (which skips gateway and risk) rebuild the engine, does every resting order respect the limits? | all hold, under a storage that refuses some requests |
| `event_log` | Does every acknowledged record survive what its mode promises, through kills, power losses, failed calls and repair? | yes, with two exceptions (section 7): a record appended behind an incomplete frame, which callers that stop at a failed call and repair a torn tail before reopening never do, and one whose file's name was lost.  Repair drops no complete record, unless the size field at which the scan stops is damaged |
| `event_log_reopen` | Does a record acknowledged under `FsyncOnAppend` or by `sync` survive a power loss, whatever the writers before did? | violated, see section 7 |
| `session` | Two connections, frames cut anywhere, a bounded response: can a trade go unreported, a response exceed its limit, a frame be answered twice or never, a thread block in `read` with a complete frame or the mutex in hand? | no |
| `epoll_client` | Is the backlog bounded, are responses in order, is nothing served after the decision to close, does nothing wait for ever? | all hold |
| `epoll_half_close` | Is every request delivered before a half-close answered? | violated, see section 7 |
| `epoll_loop` | Can an event reach another connection's state after its descriptor is reused, can a pending connection be forgotten, is a stop honoured? | no; not except after a pause without clients (section 7); yes |
| `tcp_acceptor` | Under caps, accept limits, too few descriptors and a fatal error: limits kept, every thread joined, no connection forgotten? | all hold |
| `feed` | Datagrams lost, repeated, late, damaged or never sent: is the count of gaps exact, does a subscriber told of no gap show the engine's tops of book, does its loop end? | all hold; a late message counts as a gap although it arrives, and nothing before the first message received is counted |
| `fixture` | Does shrinking keep the failure, end, and leave nothing to reduce; does renumbering change names only; does a generated log, with any one record unreadable, replay to what its other records say, and whole to the engine its generator followed? | all hold |

Each property has a mutant in `PROJECT.json`: a definition changed the way a
plausible bug would change it, under which TLC finds the property violated.

### Bounds, and why they are enough

- `pipeline`: streams of up to seven distinct commands around an engine that
  remembers what it applied, so that order, loss and repetition all show; rings of 2
  and 1, so both fill up, and more than two laps of the inbound ring's three slots,
  so every slot is overwritten and reread with both cursors wrapped.  The proofs
  remove the bounds and take any engine.
- `order_book`: three ids, three prices, quantities 0 to 2: two makers at one
  price or two levels with a taker that stops inside either, and replacing
  modifies that cross.  The pool holds two orders, so that exhaustion and the
  freed-maker case happen; the band has two of the three prices; the compaction
  threshold is 4 instead of 16, so that a queue of three keeps two tombstones, more than
  its live orders, and a queue of four is compacted; bitmap
  words have one bit instead of 64, so the scan crosses a word.  Ids are
  symmetric: they are compared for equality only.
- `exchange`: prices, quantities and notionals on both sides of every limit, an
  unknown symbol, a bad side; `MaxSeq` 5 stops the sequence.
- `event_log`: two records of four units each and three failures; a write can end
  between any two units, a power loss can keep any prefix and lose one unit, and damage
  at rest can clear a unit or turn it into anything else.
- `session`: two clients with two frames each, cut anywhere; the response limit
  holds an Ack and one Fill, so a sweep of two makers is one too many.
- `epoll_client`: three requests answered by 0, 1, 2 or 4 units against limits
  of 2 and 3 and a socket buffer of 1: below, at and above both limits.
- `epoll_loop`: two descriptors, four connects, two accepts per turn, generation
  counter modulo 4: reuse in one batch, wrap-around, exhaustion by clients and by
  the rest of the process.
- `tcp_acceptor`: four connections, with and without cap and accept limit.
- `feed`: two symbols, each side with one price or none, up to four messages, since a
  command begun at number 3 sends up to two; five receives, so that a duplicate,
  a late and a damaged datagram fit in one run.
- `fixture`: three commands after the registrations.  A trade needs two of them and
  a divergence three, so there is something to remove in either case; a flow that
  follows the market has one symbol, a property flow two and a third that is never
  registered; two flows are searched for a divergence instead of 50.  The property
  flow draws GTC only, since no reduction looks at the time in force (the flow that
  follows the market draws both); a stream written by hand, with its name registered
  twice, has two commands, enough for a trade.

Deadlock is checked where the system never stops (pipeline with a stutter once joined,
books, offline tools with a stutter once done).  Elsewhere the environment's bounded
supply ends and the configuration says `CHECK_DEADLOCK FALSE`; what must not get stuck there is
stated as a liveness property.

### Fairness, and why the code justifies it

- Pipeline and ring: threads are scheduled (weak fairness of each stage's steps)
  and an atomic store becomes visible to a polling thread in finite time, as the
  C++ standard asks of implementations.  So the load that returns the newest value
  is fair: weakly in the input thread, which tries nothing else, strongly in the
  engine and publisher threads, where polls of the ring and of the done flag
  alternate.
- `EpollClient`: the loop runs, and a peer that is there reads.  A peer that does
  not read is the case that back-pressure bounds; the server has no timeout, so no
  progress is claimed for it.
- `EpollLoop`: the loop runs; a client eventually ends; `epoll_wait` rotates its
  ready list, so a ready listener is reported again and again; other descriptors
  of the process are closed in the end.
- `TcpAcceptor`: acceptor and workers are scheduled and clients leave in the end,
  without which a worker blocks in `read` for as long as the code lets it.
- `Feed`: only the subscriber's receive timeout is fair: the socket has
  `SO_RCVTIMEO`, so a receive that gets nothing returns.  No datagram need ever
  arrive.
- `Fixture`: a tool is one thread that runs to its end.  Its weak fairness is spelled
  out (the tool is done, or it takes a step, again and again); the deadlock check
  shows that a step is possible until then.

## 4. What is proved

TLAPS checks the following for every value of the constants.

`PipelineProofs`, on the ring, for every capacity of at least 1 and any set of values:

- `RingTypeCorrect`, `RaceFree` (`NoDataRace`), `ThreadsApart` (the two threads are
  never at one slot), `InOrderDelivery`, and `Refinement` (`RefinesFifo`): the ring
  implements `BoundedFifo`.
- The inductive invariant `RingInv` is `RingTypeOK /\ CursorOrder /\ FifoDelivery /\
  SlotContents`.  Race freedom alone is not inductive: that a full or empty test
  on a stale cursor errs on the safe side needs `CursorOrder` (each view lags,
  and the cursors stay within `Capacity` even when measured from the stale
  views), and that the right value is read needs `SlotContents`.  The arithmetic
  core is `SlotEqual`: two cursors less than a lap apart share a slot only if
  equal.

And on the pipeline, for every engine (`Apply` is an arbitrary operator), every
stream and every pair of ring capacities:

- `TypeCorrect`, `Sequential` (`MatchesSequential`) and `NothingLost`
  (`CompleteWhenJoined`).
- The inductive invariant adds `InFlight` (every command is applied, in the
  inbound ring or not yet pushed, and every record held, in the outbound ring
  or received, in order) and `Shutdown` (what a thread knows once it has
  acquired a done flag: the flag is stored after the last push, so the ring it
  drains is complete).

`EventLogProofs`, for every number of records and every number of kills, power
losses, failed calls, damages and repairs:

- `AcknowledgedRecoverable` (`AckedRecoverable`) and `DurableIsOnDisk`
  (`DurableOnDisk`).
- Recovery is a scan that stops at the first frame it cannot decode, so whether a
  record is returned depends on every frame before it.  The proof first puts that in
  a form that steps preserve: `InsideAt(b, n, r)` says that the first `n + 1` frames
  of `b` are valid and the last is that of `r`; it depends on `4 * (n + 1)` units
  alone, and implies that recovery returns `r` (`InsideRecovered`).
- The inductive invariant then says where each promise is kept (`Promised`):
  acknowledged records in file and buffer together, kept ones in the file, durable
  ones in the part on which file and disk agree.  The last is what a power loss needs,
  which may leave any part of what they do not agree on (`SurvivorKeeps`).  `InFlight`
  carries the record between `fwrite` and the acknowledgment, `Named` the directory
  entry (on disk, or known by `sync` not to be, while every writer has found the log's
  name on disk or no log: `rooted`), `Whole` that a careful caller appends
  behind whole frames.

`EngineProofs`, for every storage, all risk limits and every book, is what the next two
rest on:

- A match gives each maker, in priority, what the makers ahead left of the incoming
  order; so it only reduces the book, and what is left of the order can trade with
  nothing that remains (`MatchFacts`).  So every request leaves books that are
  uncrossed, within the limits and without duplicates (`SoundEngine`), is answered
  exactly when accepted, numbers its events without a gap, and does what its preview
  said.  `PoolsReducible`: what a pool and a band can hold, they can hold reduced.
- Sums over sets and selections from sequences are folds in the model.  The proofs
  characterise a fold by the table of its partial results, a function, and do
  induction over sets (`SubsetInduction`, `NatSetInduction`), which is first-order.

`ExchangeProofs`, for every set of commands, every storage and all limits:

- `ReplayRebuilds` (`ReplayAgrees`), `PreviewIsExact` (`PreviewExact`),
  `EveryAcceptedAnswered` (`AcceptedIsAnswered`), `LimitsKept` (`RestingWithinLimits`)
  and `BooksStaySound`.  The third and fourth are about storages that can hold what is
  left of a book they hold, which `PoolsReducible` shows of those of the code.
- Replay goes through `GatewayGuards`: what the gateway lets through does what the
  engine does with it directly, what it refuses leaves the engine.

`SessionProofs`, for every number of clients, every set of frames, every engine
storage and every output limit:

- `NoneStranded` (`NothingStranded`), and `BudgetStillHolds`: between the budget check
  of an order and its submission no other thread changes the book or the buffers the
  check looked at.
- `ResponseStaysBounded` (`ResponseBounded`), `EveryTradeTold` (`NoSilentTrade`) and
  `EachFrameAnsweredOnce` (`OneAnswerEach`).
- The first invariant ties the mutex to the program counters (`HolderInside`: exactly
  the thread inside `on_bytes` holds it), which makes check and submission one step for
  the others, and says with what a response is written (`Settled`).  The second is the
  `Ledger` of a connection: its response fits, and what it was told accounts for every
  frame handled and every trade made for it.  The response is known to fit because the
  preview counts the fills exactly (`EngineProofs`).

`EpollLoopProofs`, for every number of clients, descriptors, generations and accepts
per turn, and every stream of requests and pair of limits:

- `EventsReach` (`EventsReachTheirClient`).  The invariant adds that a batch has at
  most one event per descriptor, without which closing one connection could strand
  another event, and that generations stay in `1 .. Generations - 1`.
- `AnsweredInOrder` (`ResponsesInOrder`) and `BacklogStaysBounded` (`BacklogBounded`) of
  one connection.  The invariant `ClientInv` says that the requests served are the
  first ones sent and that what the peer got, the wire and `outbuf` are together their
  responses (`InOrder`), and that an open session's unread requests follow (`Awaiting`).

`TcpAcceptorProofs`, for every number of connections and all caps and accept limits:

- `LimitsKept` (`LimitsRespected`) and `NothingLeftOpen` (`DrainedOnReturn`).
- The invariant follows a connection from `accept` to `join`: `HeldInHand` (the one
  being admitted), `WorkersOwn` (a connection that is served, or closed and not joined,
  has an entry in `workers`) and `WithinLimits` (the number of entries, which is what
  the code compares with the cap, is within it).

`FeedProofs`, for every number of symbols and messages and everything the network may
do:

- `GapCount` (`GapsExact`) and `NoGapNoDifference` (`ViewCurrent`).
- The invariant adds what was sent (`WireNumbered`: distinct numbers; `LastTobCurrent`:
  the publisher's map is the engine's; `Announced`: with every message sent, the last
  about a symbol shows its top of book), that the tracker is at the highest
  number received (`TrackerAtHighest`), and that without a gap the view shows the latest
  message about each symbol up to there (`ViewFollows`).

The assumptions are the named `ASSUME`s of `SpscRing`, `Pipeline`, `Engine`, `Exchange`,
`EventLog`, `Session`, `EpollClient`, `EpollLoop`, `TcpAcceptor` and `Feed`; the runs
evaluate them.

Only model-checked: all liveness (outside the reach of the prover); the storages of the
book and their refinement of price-time priority; that the pipeline over the ring's
accesses implements the one over FIFOs (`ImplementsPipeline`); `RepairDropsNoRecord`; and
the offline tools.

## 5. What is not modelled

- The FIX adapter (`src/protocol/fix.cpp`): a stateless conversion between text and
  order messages that only its unit tests call.  What it could get wrong is in the
  characters, which a model would abstract from.
- The order encoders of the wire protocol and the byte order of every codec:
  no property here is about them.  `Session` models which frames the decoder
  rejects and at which stage, `Feed` the market-data decoder's checks, `Flow` the
  sizes, tags and offsets of logged commands.
- The pooled (PMR) storage runs the baseline's code on another allocator.
- The text layout of fixtures, the constant IOC scenario and the version request;
  `qsl-export-fixture`, which writes the same replay in another layout.
- Argument parsing, printing and start-up of the programs, benchmarks, scripts.
- The OCaml verifier, an independent implementation of the command semantics: here
  `PriceTime` and `Engine` play that role.
- In `EpollClient`, limits of 0 (no limit) and a failing `epoll_ctl` on re-arming,
  which closes the connection like any other error.
- Socket options, binding and listening; FNV-1a collisions; quantity and
  notional overflow (the risk check divides instead of multiplying, which
  `RestingWithinLimits` covers at the limit).
- In `Feed`, the engine itself: a command leaves its symbol any top of book, which
  is more than the engine can do.

## 6. Plan

1. `OrderBookProofs`: `Uncrossed` and the baseline's `Sound` for every set of
   ids, prices and quantities.  The strengthening needed: the taker's id is not in
   the index during a call, and the level being filled is in its map.  `ChurnBounded`
   for every threshold needs only that a removal compacts, or leaves a short queue.
2. `RepairDropsNoRecord` for every number of records: it needs what can follow the
   valid prefix (one incomplete frame, then whole frames of other callers).
3. `ImplementsPipeline` from the ring's invariant: the occupancy the engine thread is
   sure of is what its last load and the done flag ordered before it.

## 7. Where code and documents disagree

Two runs show a disagreement:

- `epoll_half_close`: a half-close reported while reads are paused for
  back-pressure marks the input closed (`epoll_server.cpp:401`), and a complete
  request in the receive buffer is never read, while `docs/socket_gateway.md:105`
  says it is drained first.
- `event_log_reopen`: the directory is synced only by the writer that created the log
  (`event_log.cpp:66`).  After a constructor that created it and then failed, or died,
  the next writer finds the file, syncs data only, and acknowledges records of a file
  whose name a power loss may still take (`FsyncSurvives`).  `AckedRecoverable` and
  `DurableOnDisk` count those records as `vanished` and show that there are none while
  every writer finds the name on disk (`rooted`).

Others were met while modelling and are stated as preconditions or exceptions of
the passing runs:

- `docs/persistence.md:79-81` promises an append acknowledged under
  `FsyncOnAppend` a place in the valid prefix.  An `append` that failed half way
  leaves the writer usable: the next one returns true, but its frame lies behind a
  torn one and recovery never reaches it.  A log with a torn tail that is reopened
  without repair (`event_log.cpp:255`), as `qsl-replay append-loop` does, acknowledges
  such appends too.  In `EventLog` these are the `buried` records of callers that
  are not `careful`.
- A damaged `payload_size` whose frame then ends exactly at the end of the file is
  taken for a torn tail (`event_log.cpp:165-170`), and repair cuts off the complete
  records it spans; `docs/persistence.md:128-129` says that mid-file damage classifies
  as corrupt and is refused.
  `RepairDropsNoRecord` excludes it by `SizeGarbled`.
- `include/qsl/replay/fixture.hpp` says "the synthetic flow uses only GTC", but
  `FlowGenerator::choose_tif` (`recovery.cpp:127-132`) also draws IOC; `Flow` follows
  the code.
- A listener paused for want of descriptors while no client is open is never
  armed again (`epoll_server.cpp:281`), since only a closing client arms it; the
  exception `starved` of `Accepted`.
- A stop requested before the loop starts is erased when it does
  (`epoll_server.cpp:541`); `StopHonoured` is about later stops.
- Every event of a batch passes the generation test of `find_live_client` when
  its turn comes (`EventsReachTheirClient`): only the event of a connection closes
  it, so the case its comment guards against does not arise.
