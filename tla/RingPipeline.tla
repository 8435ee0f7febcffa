---------------------------- MODULE RingPipeline ----------------------------
(***************************************************************************)
(* The pipeline of include/qsl/concurrency/pipeline.hpp over the ring of   *)
(* include/qsl/concurrency/spsc_ring.hpp: the input thread's push and the  *)
(* engine thread's pop of the inbound ring are taken access by access as   *)
(* in SpscRing, between the loads and stores of the done flags.  The       *)
(* outbound ring, the same class between two other threads, remains the    *)
(* FIFO it implements.                                                     *)
(*                                                                         *)
(* inbound and eSeen of Pipeline are what the ring's cursors stand for:    *)
(* the values between head_ and tail_, and how many of them the engine     *)
(* thread is sure to see when it begins a try_pop.                         *)
(***************************************************************************)
EXTENDS Pipeline, SpscRing

ASSUME InboundAssumption == InboundCapacity = Capacity

linkVars == <<vars, ringVars>>
restVars == <<commands, outbound, oSeen, outputVars>>

LinkInit == Init /\ RingInit

-----------------------------------------------------------------------------
(* run_input_stage: push_inbound_lossless tries again after a full ring.   *)

TryPush(h) ==
  /\ ipc = "push" /\ next <= Len(commands)
  /\ PushFull(h) \/ PushBegin(commands[next], h)
  /\ UNCHANGED vars

InputWrites == WriteSlot /\ UNCHANGED vars

InputPublishes ==
  /\ PublishTail
  /\ next' = next + 1
  /\ inbound' = SubSeq(accepted', head + 1, tail')
  /\ UNCHANGED <<restVars, engineVars, ipc, inputDone, eSeen>>

-----------------------------------------------------------------------------
(* run_engine_stage: try_pop while polling, and while draining.            *)

TryPopEmpty(t) == PopEmpty(t) /\ PopInboundEmpty

TryPop(t) ==
  /\ epc \in {"poll", "drain"}
  /\ PopBegin(t)
  /\ UNCHANGED vars

EngineReads == ReadSlot /\ UNCHANGED vars

\* The command moved out of its slot is the one applied.
EngineTakes ==
  /\ PublishHead
  /\ Process(cval)
  /\ inbound' = SubSeq(accepted, head' + 1, tail)
  /\ eSeen' = cSeen - head'
  /\ UNCHANGED <<restVars, inputVars, snapshot, engineDone>>

\* The acquire of a set input_done orders the input thread's last store of
\* tail_ before everything the engine thread reads from then on.
DrainBegins ==
  /\ AcquireInputDone
  /\ cSeen' = head + eSeen' /\ cSync' = cSeen'
  /\ UNCHANGED <<tail, head, buffer, producerVars, cpc, cval, accepted, received>>

-----------------------------------------------------------------------------
(* The steps that leave the inbound ring alone.                            *)

Beside(A) == A /\ UNCHANGED ringVars

LinkNext ==
  \/ \E h \in 0..head : TryPush(h)
  \/ InputWrites
  \/ InputPublishes
  \/ \E t \in 0..tail : TryPopEmpty(t)
  \/ \E t \in 0..tail : TryPop(t)
  \/ EngineReads
  \/ EngineTakes
  \/ DrainBegins
  \/ Beside(StoreInputDone)
  \/ Beside(InputNotDone)
  \/ Beside(PushOutbound)
  \/ Beside(StoreEngineDone)
  \/ \E seen \in 0..Len(outbound) : Beside(PopOutbound(seen))
  \/ Beside(PopOutboundEmpty)
  \/ Beside(EngineNotDone)
  \/ Beside(AcquireEngineDone)
  \/ Joined /\ UNCHANGED linkVars

\* The threads are scheduled; a store becomes visible in finite time, so a
\* thread that keeps trying eventually reads the newest cursor and flag.
LinkFairness ==
  /\ WF_linkVars(TryPush(head)) /\ WF_linkVars(InputWrites) /\ WF_linkVars(InputPublishes)
  /\ WF_linkVars(\E t \in 0..tail : TryPopEmpty(t)) /\ SF_linkVars(TryPop(tail))
  /\ WF_linkVars(EngineReads) /\ WF_linkVars(EngineTakes)
  /\ WF_linkVars(Beside(StoreInputDone)) /\ WF_linkVars(Beside(InputNotDone))
  /\ SF_linkVars(DrainBegins)
  /\ WF_linkVars(Beside(PushOutbound)) /\ WF_linkVars(Beside(StoreEngineDone))
  /\ SF_linkVars(Beside(PopOutbound(Len(outbound)))) /\ WF_linkVars(Beside(PopOutboundEmpty))
  /\ WF_linkVars(Beside(EngineNotDone)) /\ SF_linkVars(Beside(AcquireEngineDone))

LinkSpec == LinkInit /\ [][LinkNext]_linkVars /\ LinkFairness

-----------------------------------------------------------------------------
(* Properties.  Those of Pipeline and SpscRing are checked of this system. *)

\* The pipeline over the ring's memory accesses does what the pipeline over
\* FIFOs does, flags and stale loads included.
ImplementsPipeline == Spec
=============================================================================
