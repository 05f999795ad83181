-------------------------- MODULE MCMemoryPipeline --------------------------
(***************************************************************************)
(* Instances of the memory pipeline for TLC: the writer, the user and the  *)
(* verifier; the task that starts the program, the verifier's task and the *)
(* task of the user's commands.                                            *)
(***************************************************************************)
EXTENDS MemoryPipeline, TLC

CONSTANTS w, u, v, main1, vt, t1, general

MCSender == main1 :> u @@ vt :> v @@ t1 :> u
Broadcasts == [t \in Task |-> {NoAgent}]
Free == [a \in Agent |-> {}]
OneShard == [a \in Agent |-> 1]
=============================================================================
