----------------------------- MODULE MCPipeline -----------------------------
(* The pipeline on streams of distinct commands, around an engine that is the
   sequence of the commands applied to it: two runs that differ in any command, or
   in its place, leave different engines and records, as far as any engine can. *)
EXTENDS RingPipeline

Commands == 1..MaxPushes

CommandStreams == {[i \in 1..n |-> i] : n \in 0..MaxPushes}

AcceptedCommands == {c \in Commands : c % 2 = 1}

ApplyInOrder(e, c) ==
  [engine |-> Append(e, c), accepted |-> c \in AcceptedCommands, reason |-> Len(e),
   events |-> IF c \in AcceptedCommands THEN <<c>> ELSE <<>>]

EmptyEngine == <<>>
=============================================================================
