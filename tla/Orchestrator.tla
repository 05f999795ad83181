----------------------------- MODULE Orchestrator -----------------------------
(***************************************************************************)
(* The orchestrator of the core (crates/ch-core/src/orchestrator.rs): its  *)
(* state, its bounded command queue, the loops that start() spawns and the *)
(* workflow a loop executes, wave by wave.                                 *)
(*                                                                         *)
(* Every loop wants the receiving end of the one queue, which is behind a  *)
(* write lock it keeps until it stops; a second loop waits for it.  A      *)
(* workflow runs inside the loop, so commands wait until it is over.       *)
(* shutdown() has two halves: it queues a command, then writes the state,  *)
(* and the loop writes the state as well when it comes to the command.     *)
(***************************************************************************)
EXTENDS Naturals, Sequences, FiniteSets

CONSTANTS
  Loop,         (* names for the loops that start() may spawn               *)
  Client,       (* tasks that call the orchestrator                         *)
  Flows,        (* workflows: sets of steps [id, deps], in no order          *)
  CmdCap,       (* capacity of the command queue, 100 in the code           *)
  MaxCommands   (* bound of the model: commands sent                        *)

ASSUME OrchestratorAssumption ==
  /\ CmdCap \in Nat \ {0}
  /\ MaxCommands \in Nat
  /\ \A w \in Flows : \A s \in w : DOMAIN s = {"id", "deps"}

VARIABLES
  state,      (* what state() returns                                      *)
  commands,   (* the command queue                                         *)
  loop,       (* where each loop stands                                    *)
  client,     (* "idle", or "stopping" between the halves of shutdown       *)
  flow,       (* the workflow being, or last, executed                     *)
  pending,    (* pending_steps                                             *)
  completed,  (* completed_steps, which holds ids                          *)
  underway,   (* steps of the wave whose task has not finished             *)
  ran,        (* history: the steps of it that got a task                  *)
  outcome,    (* how the last workflow ended                               *)
  issued      (* bound: commands sent so far                               *)

work == <<flow, pending, completed, underway, ran, outcome>>
ovars == <<state, commands, loop, client, work, issued>>

OrchestratorState == {"Idle", "Running", "Paused", "ShuttingDown"}
LoopState == {"off", "waiting", "receiving", "shutting", "planning", "joining", "stopped"}
LoopCommand == [op : {"Start", "Pause", "Resume", "Shutdown"}]
           \cup [op : {"Execute"}, flow : Flows]

Ids(w) == {s.id : s \in w}

OInit ==
  /\ state = "Idle"
  /\ commands = <<>>
  /\ loop = [l \in Loop |-> "off"]
  /\ client = [c \in Client |-> "idle"]
  /\ flow = {}
  /\ pending = {}
  /\ completed = {}
  /\ underway = {}
  /\ ran = {}
  /\ outcome = "none"
  /\ issued = 0

-----------------------------------------------------------------------------
Queue(cmd) ==
  /\ issued < MaxCommands
  /\ Len(commands) < CmdCap
  /\ commands' = Append(commands, cmd)
  /\ issued' = issued + 1

(* start: the state is written and one more loop is spawned.               *)
StartLoop(l) ==
  /\ loop[l] = "off"
  /\ state' = "Running"
  /\ loop' = [loop EXCEPT ![l] = "waiting"]
  /\ UNCHANGED <<commands, client, work, issued>>

(* A holder of the command sender.                                         *)
SendCommand(c, cmd) ==
  /\ client[c] = "idle"
  /\ Queue(cmd)
  /\ UNCHANGED <<state, loop, client, work>>

ShutdownSends(c) ==
  /\ client[c] = "idle"
  /\ Queue([op |-> "Shutdown"])
  /\ client' = [client EXCEPT ![c] = "stopping"]
  /\ UNCHANGED <<state, loop, work>>

ShutdownReturns(c) ==
  /\ client[c] = "stopping"
  /\ state' = "Idle"
  /\ client' = [client EXCEPT ![c] = "idle"]
  /\ UNCHANGED <<commands, loop, work, issued>>

(* The receiving end is free when no loop is past its wait.                *)
LockReceiver(l) ==
  /\ loop[l] = "waiting"
  /\ \A k \in Loop : loop[k] \in {"off", "waiting", "stopped"}
  /\ loop' = [loop EXCEPT ![l] = "receiving"]
  /\ UNCHANGED <<state, commands, client, work, issued>>

Got(l, op) ==
  /\ loop[l] = "receiving"
  /\ commands # <<>>
  /\ Head(commands).op = op
  /\ commands' = Tail(commands)

OnStart(l) ==
  /\ Got(l, "Start")
  /\ UNCHANGED <<state, loop, client, work, issued>>

OnPause(l) ==
  /\ Got(l, "Pause")
  /\ state' = "Paused"
  /\ UNCHANGED <<loop, client, work, issued>>

OnResume(l) ==
  /\ Got(l, "Resume")
  /\ state' = "Running"
  /\ UNCHANGED <<loop, client, work, issued>>

(* Mutant: the loop breaks and leaves the state as it is.                  *)
StopQuietly(l) ==
  /\ loop[l] = "shutting"
  /\ loop' = [loop EXCEPT ![l] = "stopped"]
  /\ UNCHANGED <<state, commands, client, work, issued>>

(* The command is taken; the state is written once its lock is free, which *)
(* a client that shuts down may hold first.                                *)
OnShutdown(l) ==
  /\ Got(l, "Shutdown")
  /\ loop' = [loop EXCEPT ![l] = "shutting"]
  /\ UNCHANGED <<state, client, work, issued>>

StopLoop(l) ==
  /\ loop[l] = "shutting"
  /\ state' = "ShuttingDown"
  /\ loop' = [loop EXCEPT ![l] = "stopped"]
  /\ UNCHANGED <<commands, client, work, issued>>

OnExecute(l) ==
  /\ Got(l, "Execute")
  /\ flow' = Head(commands).flow
  /\ pending' = flow'
  /\ completed' = {}
  /\ underway' = {}
  /\ ran' = {}
  /\ outcome' = "running"
  /\ loop' = [loop EXCEPT ![l] = "planning"]
  /\ UNCHANGED <<state, client, issued>>

-----------------------------------------------------------------------------
(* Mutant: a step counts as ready while it has a dependency completed.     *)
SomeReady == {s \in pending : s.deps = {} \/ s.deps \cap completed # {}}

Ready == {s \in pending : s.deps \subseteq completed}

(* A wave: one task for each ready step, whose id counts as completed from *)
(* here on.                                                                *)
SpawnWave(l) ==
  /\ loop[l] = "planning"
  /\ Ready # {}
  /\ underway' = Ready
  /\ completed' = completed \cup Ids(Ready)
  /\ ran' = ran \cup Ready
  /\ loop' = [loop EXCEPT ![l] = "joining"]
  /\ UNCHANGED <<state, commands, client, flow, pending, outcome, issued>>

FinishStep(s) ==
  /\ s \in underway
  /\ underway' = underway \ {s}
  /\ UNCHANGED <<state, commands, loop, client, flow, pending, completed, ran, outcome, issued>>

(* Mutant: the tasks of a wave are not awaited.                            *)
JoinNobody(l) ==
  /\ loop[l] = "joining"
  /\ pending' = {s \in pending : s.id \notin completed}
  /\ loop' = [loop EXCEPT ![l] = "planning"]
  /\ UNCHANGED <<state, commands, client, flow, completed, underway, ran, outcome, issued>>

(* All tasks of the wave are awaited, then its steps leave pending.        *)
JoinWave(l) ==
  /\ loop[l] = "joining"
  /\ underway = {}
  /\ pending' = {s \in pending : s.id \notin completed}
  /\ loop' = [loop EXCEPT ![l] = "planning"]
  /\ UNCHANGED <<state, commands, client, flow, completed, underway, ran, outcome, issued>>

(* Nothing pending is the end, nothing ready an error that is only logged. *)
EndFlow(l) ==
  /\ loop[l] = "planning"
  /\ Ready = {}
  /\ outcome' = IF pending = {} THEN "completed" ELSE "circular"
  /\ loop' = [loop EXCEPT ![l] = "receiving"]
  /\ UNCHANGED <<state, commands, client, flow, pending, completed, underway, ran, issued>>

LoopStep(l) ==
  \/ LockReceiver(l)
  \/ OnStart(l)
  \/ OnPause(l)
  \/ OnResume(l)
  \/ OnShutdown(l)
  \/ StopLoop(l)
  \/ OnExecute(l)
  \/ SpawnWave(l)
  \/ JoinWave(l)
  \/ EndFlow(l)

ONext ==
  \/ \E l \in Loop : StartLoop(l)
  \/ \E c \in Client, cmd \in LoopCommand : SendCommand(c, cmd)
  \/ \E c \in Client : ShutdownSends(c) \/ ShutdownReturns(c)
  \/ \E l \in Loop : LoopStep(l)
  \/ \E s \in underway : FinishStep(s)

OSpec == OInit /\ [][ONext]_ovars

-----------------------------------------------------------------------------
OrchestratorTypeOK ==
  /\ state \in OrchestratorState
  /\ commands \in Seq(LoopCommand)
  /\ loop \in [Loop -> LoopState]
  /\ client \in [Client -> {"idle", "stopping"}]
  /\ flow \in Flows \cup {{}}
  /\ pending \subseteq flow
  /\ completed \subseteq Ids(flow)
  /\ underway \subseteq pending
  /\ ran \subseteq flow
  /\ outcome \in {"none", "running", "completed", "circular"}
  /\ issued \in 0..MaxCommands

(* Two loops never work at once, though each start() spawns one.           *)
OneLoopWorks ==
  \A k, l \in Loop : loop[k] \notin {"off", "waiting", "stopped"}
                     /\ loop[l] \notin {"off", "waiting", "stopped"} => k = l

(* A step runs only after the tasks of all the steps it depends on have    *)
(* finished, whatever finishes first within a wave, and no step of another *)
(* workflow is still running then (orchestrator.rs:146-211).               *)
DependenciesFirst ==
  /\ \A s \in underway : s.deps \subseteq completed \ Ids(underway)
  /\ underway # {} => \E l \in Loop : loop[l] = "joining"

(* The reference for the outcome, on the steps themselves: some of them    *)
(* each depend on an id that none of the others has, because it is unknown *)
(* or leads back to them.                                                  *)
Circular(w) ==
  \E stuck \in (SUBSET w) \ {{}} : \A s \in stuck : ~(s.deps \subseteq Ids(w \ stuck))

DistinctIds(w) == \A s, t \in w : s.id = t.id => s = t

(* A workflow whose steps have distinct ids is given up exactly if no      *)
(* order of them respects the dependencies; otherwise all of them ran.  Of *)
(* an id that is repeated only one step needs to: another, whatever it     *)
(* waits for, leaves pending with it (orchestrator.rs:157-163, 211).       *)
OutcomeRight ==
  /\ outcome = "circular" => Circular(flow)
  /\ outcome = "completed" => Ids(ran) = Ids(flow)
  /\ outcome = "completed" /\ DistinctIds(flow) => ran = flow /\ ~Circular(flow)

(* When the loops that were started have all stopped and no shutdown() is  *)
(* under way, the orchestrator does not claim to run or to be paused, in   *)
(* whatever order Resume, Shutdown and the two writes of a shutdown came   *)
(* (orchestrator.rs:91-105, 122-133).                                      *)
StoppedMeansNotRunning ==
  (\A l \in Loop : loop[l] \in {"off", "stopped"}) /\ (\E l \in Loop : loop[l] = "stopped")
  => state \in {"ShuttingDown", "Idle"}

=============================================================================
