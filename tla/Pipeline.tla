------------------------------ MODULE Pipeline ------------------------------
(***************************************************************************)
(* The three-thread pipeline of include/qsl/concurrency/pipeline.hpp:      *)
(* input thread -> inbound ring -> engine thread -> outbound ring ->       *)
(* publisher/log thread, stopped by two done flags.                        *)
(*                                                                         *)
(* A ring is the FIFO that SpscRing implements.  A consumer's load of the  *)
(* ring's tail may be stale: eSeen (oSeen) is how many elements of the     *)
(* queue the engine (publisher) thread is sure to see; a load returns any  *)
(* number from there to the whole queue.  A load of a done flag may be     *)
(* stale too; one that returns true is an acquire of the release store,    *)
(* after which everything pushed before the store is seen.                 *)
(*                                                                         *)
(* A push to a full ring fails, leaves its argument alone and is retried:  *)
(* it changes nothing (the spin counters and yields are left out).         *)
(***************************************************************************)
EXTENDS Integers, Sequences, FiniteSets, FiniteSetsExt

CONSTANTS Streams,             \* the command streams run may be given
          InboundCapacity, OutboundCapacity,
          InitialEngine,       \* the MatchingEngine of EngineStage
          Apply(_, _)          \* apply_command: [engine, accepted, reason, events]

IsSequence(s) == s \in Seq({s[k] : k \in DOMAIN s})

ASSUME StreamsAssumption == \A s \in Streams : IsSequence(s)

VARIABLES
  commands,                    \* ctx.commands
  ipc, next, inputDone,        \* input thread, its next command, input_done
  inbound, eSeen,              \* inbound ring
  epc, engine, held,           \* engine thread, its engine, the record it holds
  counts, snapshot,            \* result counters, result.snapshot
  outbound, oSeen, engineDone, \* outbound ring, engine_done
  opc, sink,                   \* publisher thread, what on_processed received
  states                       \* history: the engine before each command, and now

inputVars == <<ipc, next, inputDone>>
engineVars == <<epc, engine, held, counts, snapshot, engineDone, states>>
outputVars == <<opc, sink>>
vars == <<commands, inputVars, inbound, eSeen, engineVars, outbound, oSeen, outputVars>>

\* apply_to_engine: the ProcessedCommand of command c on engine e.
Processed(c, result) ==
  [command |-> c, accepted |-> result.accepted, reason |-> result.reason,
   events |-> result.events]
Outcome(e, c) == Processed(c, Apply(e, c))

Init ==
  /\ commands \in Streams
  /\ ipc = "push" /\ next = 1 /\ inputDone = FALSE
  /\ inbound = <<>> /\ eSeen = 0
  /\ epc = "poll" /\ engine = InitialEngine /\ held = <<>>
  /\ counts = [processed |-> 0, accepted |-> 0, rejected |-> 0, events |-> 0]
  /\ snapshot = <<>> /\ engineDone = FALSE /\ states = <<InitialEngine>>
  /\ outbound = <<>> /\ oSeen = 0
  /\ opc = "poll" /\ sink = <<>>

-----------------------------------------------------------------------------
(* run_input_stage                                                         *)

\* push_inbound_lossless, the try_push that succeeds.
PushInbound ==
  /\ ipc = "push"
  /\ next <= Len(commands)
  /\ Len(inbound) < InboundCapacity
  /\ inbound' = Append(inbound, commands[next])
  /\ next' = next + 1
  /\ UNCHANGED <<commands, ipc, inputDone, eSeen, engineVars, outbound, oSeen, outputVars>>

StoreInputDone ==
  /\ ipc = "push"
  /\ next > Len(commands)
  /\ inputDone' = TRUE
  /\ ipc' = "done"
  /\ UNCHANGED <<commands, next, inbound, eSeen, engineVars, outbound, oSeen, outputVars>>

-----------------------------------------------------------------------------
(* run_engine_stage: poll, or after the flag drain, the inbound ring.      *)

\* The counters after one more record.
Count(r) ==
  [processed |-> counts.processed + 1,
   accepted |-> counts.accepted + IF r.accepted THEN 1 ELSE 0,
   rejected |-> counts.rejected + IF r.accepted THEN 0 ELSE 1,
   events |-> counts.events + Len(r.events)]

\* process_engine_command up to its push: the record is held until pushed.
Process(c) ==
  /\ engine' = Apply(engine, c).engine
  /\ states' = Append(states, engine')
  /\ held' = <<Outcome(engine, c)>>
  /\ counts' = Count(Outcome(engine, c))
  /\ epc' = IF epc = "poll" THEN "push" ELSE "pushDrained"

\* try_pop succeeds.
PopInbound(seen) ==
  /\ epc \in {"poll", "drain"}
  /\ seen \in eSeen..Len(inbound)
  /\ seen > 0
  /\ inbound' = Tail(inbound)
  /\ eSeen' = seen - 1
  /\ Process(Head(inbound))
  /\ UNCHANGED <<commands, inputVars, snapshot, engineDone, outbound, oSeen, outputVars>>

\* try_pop sees an empty ring: look at the flag, or end the drain.
PopInboundEmpty ==
  /\ epc \in {"poll", "drain"}
  /\ eSeen = 0
  /\ epc' = IF epc = "poll" THEN "check" ELSE "finish"
  /\ UNCHANGED <<commands, inputVars, inbound, eSeen, engine, held, counts, snapshot,
                 engineDone, states, outbound, oSeen, outputVars>>

\* Mutant: one try_push, a record that does not fit is dropped.
PushOutbound_Lossy ==
  /\ epc \in {"push", "pushDrained"}
  /\ outbound' = IF Len(outbound) < OutboundCapacity THEN outbound \o held ELSE outbound
  /\ held' = <<>>
  /\ epc' = IF epc = "push" THEN "poll" ELSE "drain"
  /\ UNCHANGED <<commands, inputVars, inbound, eSeen, engine, counts, snapshot,
                 engineDone, states, oSeen, outputVars>>

\* push_outbound_lossless, the try_push that succeeds.
PushOutbound ==
  /\ epc \in {"push", "pushDrained"}
  /\ Len(outbound) < OutboundCapacity
  /\ outbound' = Append(outbound, held[1])
  /\ held' = <<>>
  /\ epc' = IF epc = "push" THEN "poll" ELSE "drain"
  /\ UNCHANGED <<commands, inputVars, inbound, eSeen, engine, counts, snapshot,
                 engineDone, states, oSeen, outputVars>>

\* input_done.load(acquire) returns false (it may be stale): poll again.
InputNotDone ==
  /\ epc = "check"
  /\ epc' = "poll"
  /\ UNCHANGED <<commands, inputVars, inbound, eSeen, engine, held, counts, snapshot,
                 engineDone, states, outbound, oSeen, outputVars>>

\* Mutant: input_done is loaded relaxed.
AcquireInputDone_Relaxed ==
  /\ epc = "check" /\ inputDone
  /\ epc' = "drain"
  /\ UNCHANGED <<commands, inputVars, inbound, eSeen, engine, held, counts, snapshot,
                 engineDone, states, outbound, oSeen, outputVars>>

\* input_done.load(acquire) returns true: every push is now seen.
AcquireInputDone ==
  /\ epc = "check"
  /\ inputDone
  /\ eSeen' = Len(inbound)
  /\ epc' = "drain"
  /\ UNCHANGED <<commands, inputVars, inbound, engine, held, counts, snapshot,
                 engineDone, states, outbound, oSeen, outputVars>>

\* Mutant: the engine thread ends without storing its flag.
StoreEngineDone_NoFlag ==
  /\ epc = "finish"
  /\ snapshot' = <<engine>>
  /\ epc' = "done"
  /\ UNCHANGED <<commands, inputVars, inbound, eSeen, engine, held, counts, states,
                 outbound, oSeen, engineDone, outputVars>>

\* The drained engine is snapshotted, then engine_done is stored.
StoreEngineDone ==
  /\ epc = "finish"
  /\ snapshot' = <<engine>>
  /\ engineDone' = TRUE
  /\ epc' = "done"
  /\ UNCHANGED <<commands, inputVars, inbound, eSeen, engine, held, counts, states,
                 outbound, oSeen, outputVars>>

-----------------------------------------------------------------------------
(* run_output_stage                                                        *)

\* try_pop succeeds, then publish_processed.
PopOutbound(seen) ==
  /\ opc \in {"poll", "drain"}
  /\ seen \in oSeen..Len(outbound)
  /\ seen > 0
  /\ outbound' = Tail(outbound)
  /\ oSeen' = seen - 1
  /\ sink' = Append(sink, Head(outbound))
  /\ UNCHANGED <<commands, inputVars, inbound, eSeen, engineVars, opc>>

PopOutboundEmpty ==
  /\ opc \in {"poll", "drain"}
  /\ oSeen = 0
  /\ opc' = IF opc = "poll" THEN "check" ELSE "done"
  /\ UNCHANGED <<commands, inputVars, inbound, eSeen, engineVars, outbound, oSeen, sink>>

EngineNotDone ==
  /\ opc = "check"
  /\ opc' = "poll"
  /\ UNCHANGED <<commands, inputVars, inbound, eSeen, engineVars, outbound, oSeen, sink>>

AcquireEngineDone ==
  /\ opc = "check"
  /\ engineDone
  /\ oSeen' = Len(outbound)
  /\ opc' = "drain"
  /\ UNCHANGED <<commands, inputVars, inbound, eSeen, engineVars, outbound, sink>>

-----------------------------------------------------------------------------
\* run returns once the three threads are joined.
Joined == ipc = "done" /\ epc = "done" /\ opc = "done"

Next ==
  \/ PushInbound
  \/ StoreInputDone
  \/ \E seen \in 0..Len(inbound) : PopInbound(seen)
  \/ PopInboundEmpty
  \/ PushOutbound
  \/ InputNotDone
  \/ AcquireInputDone
  \/ StoreEngineDone
  \/ \E seen \in 0..Len(outbound) : PopOutbound(seen)
  \/ PopOutboundEmpty
  \/ EngineNotDone
  \/ AcquireEngineDone
  \/ Joined /\ UNCHANGED vars

Spec == Init /\ [][Next]_vars

\* The threads are scheduled; a store becomes visible in finite time, so a
\* thread that keeps polling eventually reads the newest tail and flag.
Fairness ==
  /\ WF_vars(PushInbound) /\ WF_vars(StoreInputDone)
  /\ SF_vars(PopInbound(Len(inbound))) /\ WF_vars(PopInboundEmpty)
  /\ WF_vars(PushOutbound) /\ WF_vars(StoreEngineDone)
  /\ WF_vars(InputNotDone) /\ SF_vars(AcquireInputDone)
  /\ SF_vars(PopOutbound(Len(outbound))) /\ WF_vars(PopOutboundEmpty)
  /\ WF_vars(EngineNotDone) /\ SF_vars(AcquireEngineDone)

FairSpec == Spec /\ Fairness

-----------------------------------------------------------------------------
(* Properties.                                                             *)

TypeOK ==
  /\ IsSequence(commands) /\ IsSequence(inbound) /\ IsSequence(outbound)
  /\ IsSequence(sink) /\ IsSequence(states) /\ Len(states) > 0
  /\ ipc \in {"push", "done"}
  /\ next \in 1..(Len(commands) + 1)
  /\ inputDone \in BOOLEAN /\ engineDone \in BOOLEAN
  /\ epc \in {"poll", "check", "push", "drain", "pushDrained", "finish", "done"}
  /\ opc \in {"poll", "check", "drain", "done"}
  /\ eSeen \in 0..Len(inbound)
  /\ oSeen \in 0..Len(outbound)

\* How many commands the engine has applied, and the record of the k-th one.
Applied == Len(states) - 1
RecordOf(k) == Outcome(states[k], commands[k])

\* The engine thread goes through the engines of a single-threaded loop over
\* the commands: each is applied once, in order, to the engine before it.
SequentialRun ==
  /\ Applied <= Len(commands)
  /\ states[1] = InitialEngine
  /\ \A k \in 1..Applied : states[k + 1] = Apply(states[k], commands[k]).engine

\* What the publisher has received is what a single-threaded run produces, in
\* order and without gaps, whatever the timing and the ring capacities.
SinkInOrder ==
  /\ Len(sink) <= Applied
  /\ \A k \in 1..Len(sink) : sink[k] = RecordOf(k)

\* The threads together do what the loop over the commands does.
MatchesSequential == SequentialRun /\ SinkInOrder

\* When run returns nothing is missing: no done flag stops a thread before it
\* has drained its ring, and the snapshot is the engine after the last command.
CompleteWhenJoined ==
  Joined =>
    /\ Applied = Len(commands)
    /\ Len(sink) = Len(commands)
    /\ snapshot = <<states[Len(states)]>>

\* The pipeline never stops half way: no ring stays full and no thread polls
\* for ever.
EventuallyJoined == <>Joined

-----------------------------------------------------------------------------
(* The inductive invariant of PipelineProofs.                              *)

Holding == epc \in {"push", "pushDrained"}

\* Every command is in one place: applied, in the inbound ring or not pushed;
\* every record is held, in the outbound ring or received.
InFlight ==
  /\ next = Applied + Len(inbound) + 1
  /\ \A i \in 1..Len(inbound) : inbound[i] = commands[Applied + i]
  /\ engine = states[Applied + 1]
  /\ Applied = Len(sink) + Len(outbound) + (IF Holding THEN 1 ELSE 0)
  /\ \A i \in 1..Len(outbound) : outbound[i] = RecordOf(Len(sink) + i)
  /\ Holding => held = <<RecordOf(Applied)>>

\* What a thread that has seen a done flag knows.
Shutdown ==
  /\ inputDone => next = Len(commands) + 1
  /\ ipc = "done" => inputDone
  /\ epc \in {"drain", "pushDrained", "finish", "done"} =>
       inputDone /\ eSeen = Len(inbound)
  /\ epc \in {"finish", "done"} => Len(inbound) = 0
  /\ engineDone <=> epc = "done"
  /\ epc = "done" => snapshot = <<engine>>
  /\ opc \in {"drain", "done"} => engineDone /\ oSeen = Len(outbound)
  /\ opc = "done" => Len(outbound) = 0

IInv == TypeOK /\ SequentialRun /\ SinkInOrder /\ InFlight /\ Shutdown
=============================================================================
