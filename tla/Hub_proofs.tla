------------------------------ MODULE Hub_proofs -----------------------------
(***************************************************************************)
(* What holds of the hub behind the terminal, for any parameters.          *)
(*                                                                         *)
(* The orchestrator: the invariant says what the loop at work knows of its *)
(* workflow: which steps are pending, and that no set of steps that wait   *)
(* for one another has been touched.                                       *)
(*                                                                         *)
(* The agent registry: its two maps are never changed together.            *)
(*                                                                         *)
(* The memory queries: what a listing has read so far, against the table.  *)
(*                                                                         *)
(* The terminal: what the log has of an agent, against what the ticks have *)
(* taken from the queue of it.                                             *)
(***************************************************************************)
EXTENDS Orchestrator, AgentRegistry, MemoryQueries, TerminalUI, SequenceLemmas

-----------------------------------------------------------------------------
(* The orchestrator, for any number of loops, clients and commands and for *)
(* any workflows.                                                          *)

Working(l) == loop[l] \notin {"off", "waiting", "stopped"}

(* Steps that each wait for something outside what is there, or for one    *)
(* another.                                                                *)
Stuck(W) ==
  /\ W \subseteq flow
  /\ \A s \in W : ~(s.deps \subseteq Ids(flow \ W))

Books ==
  /\ \A s \in flow : s.id \notin completed => s \in pending
  /\ \A l \in Loop : loop[l] = "planning" =>
       underway = {} /\ \A s \in pending : s.id \notin completed
  /\ \A l \in Loop : loop[l] \in {"planning", "joining"} => outcome = "running"
  /\ completed = Ids(ran)
  /\ \A W \in SUBSET flow : Stuck(W) => ran \cap W = {}

OInv == OrchestratorTypeOK /\ OneLoopWorks /\ Books /\ DependenciesFirst /\ OutcomeRight

-----------------------------------------------------------------------------
(* What a loop takes from the queue is a command, and the rest stay so.    *)
LEMMA GotCommand ==
  ASSUME OrchestratorTypeOK, NEW l \in Loop, NEW op, Got(l, op)
  PROVE  /\ Head(commands) \in LoopCommand
         /\ commands' \in Seq(LoopCommand)
         /\ op = "Execute" => Head(commands).flow \in Flows
<1>1. commands \in Seq(LoopCommand) /\ commands # <<>>
  BY DEF OrchestratorTypeOK, Got
<1>2. Head(commands) \in LoopCommand /\ Tail(commands) \in Seq(LoopCommand)
  BY <1>1
<1>3. op = "Execute" => Head(commands).flow \in Flows
  BY <1>2 DEF Got, LoopCommand
<1> QED
  BY <1>2, <1>3 DEF Got

(* Every step keeps the types.                                             *)
LEMMA TypeStep == OrchestratorTypeOK /\ [ONext]_ovars => OrchestratorTypeOK'
<1> SUFFICES ASSUME OrchestratorTypeOK, [ONext]_ovars PROVE OrchestratorTypeOK'
  OBVIOUS
<1> USE OrchestratorAssumption DEF OrchestratorTypeOK, OrchestratorState, LoopState
<1>1. ASSUME NEW l \in Loop, StartLoop(l) PROVE OrchestratorTypeOK'
  BY <1>1 DEF StartLoop, work
<1>2. ASSUME NEW cmd \in LoopCommand, Queue(cmd)
      PROVE  commands' \in Seq(LoopCommand) /\ issued' \in 0..MaxCommands
  BY <1>2 DEF Queue
<1>3. ASSUME NEW c \in Client, NEW cmd \in LoopCommand, SendCommand(c, cmd)
      PROVE  OrchestratorTypeOK'
  BY <1>2, <1>3 DEF SendCommand, work
<1>4. ASSUME NEW c \in Client, ShutdownSends(c) PROVE OrchestratorTypeOK'
  <2>1. [op |-> "Shutdown"] \in LoopCommand
    BY DEF LoopCommand
  <2> QED
    BY <1>2, <1>4, <2>1 DEF ShutdownSends, work
<1>5. ASSUME NEW c \in Client, ShutdownReturns(c) PROVE OrchestratorTypeOK'
  BY <1>5 DEF ShutdownReturns, work
<1>6. ASSUME NEW l \in Loop, LockReceiver(l) PROVE OrchestratorTypeOK'
  BY <1>6 DEF LockReceiver, work
<1>7. ASSUME NEW l \in Loop, OnStart(l) \/ OnPause(l) \/ OnResume(l) \/ OnShutdown(l)
      PROVE  OrchestratorTypeOK'
  <2>1. commands' \in Seq(LoopCommand)
    BY <1>7, GotCommand DEF OnStart, OnPause, OnResume, OnShutdown
  <2> QED
    BY <1>7, <2>1 DEF OnStart, OnPause, OnResume, OnShutdown, work
<1>8. ASSUME NEW l \in Loop, StopLoop(l) PROVE OrchestratorTypeOK'
  BY <1>8 DEF StopLoop, work
<1>9. ASSUME NEW l \in Loop, OnExecute(l) PROVE OrchestratorTypeOK'
  <2>1. commands' \in Seq(LoopCommand) /\ flow' \in Flows
    BY <1>9, GotCommand DEF OnExecute
  <2> QED
    BY <1>9, <2>1 DEF OnExecute
<1>10. ASSUME NEW l \in Loop, SpawnWave(l) PROVE OrchestratorTypeOK'
  BY <1>10 DEF SpawnWave, Ready, Ids
<1>11. ASSUME NEW l \in Loop, JoinWave(l) PROVE OrchestratorTypeOK'
  BY <1>11 DEF JoinWave
<1>12. ASSUME NEW l \in Loop, EndFlow(l) PROVE OrchestratorTypeOK'
  BY <1>12 DEF EndFlow
<1>13. ASSUME NEW s \in underway, FinishStep(s) PROVE OrchestratorTypeOK'
  BY <1>13 DEF FinishStep
<1>14. CASE UNCHANGED ovars
  BY <1>14 DEF ovars, work
<1> QED
  BY <1>1, <1>3, <1>4, <1>5, <1>6, <1>7, <1>8, <1>9, <1>10, <1>11, <1>12, <1>13, <1>14
  DEF ONext, LoopStep

(* The queue's lock lets one loop work at a time.                          *)
LEMMA LoopsStep ==
  OrchestratorTypeOK /\ OneLoopWorks /\ [ONext]_ovars => OneLoopWorks'
<1> SUFFICES ASSUME OrchestratorTypeOK, OneLoopWorks, [ONext]_ovars PROVE OneLoopWorks'
  OBVIOUS
<1>1. ASSUME NEW l \in Loop, NEW there,
             loop' = [loop EXCEPT ![l] = there],
             \/ there \in {"off", "waiting", "stopped"}
             \/ Working(l)
             \/ \A k \in Loop : loop[k] \in {"off", "waiting", "stopped"}
      PROVE  OneLoopWorks'
  BY <1>1 DEF OrchestratorTypeOK, OneLoopWorks, Working
<1>2. CASE UNCHANGED loop
  BY <1>2 DEF OneLoopWorks
<1>3. ASSUME NEW l \in Loop, StartLoop(l) \/ LoopStep(l) PROVE OneLoopWorks'
  BY <1>1, <1>2, <1>3
  DEF StartLoop, LoopStep, LockReceiver, Got, OnStart, OnPause, OnResume, OnShutdown,
      StopLoop, OnExecute, SpawnWave, JoinWave, EndFlow, Working
<1> QED
  BY <1>2, <1>3
  DEF ONext, ovars, SendCommand, ShutdownSends, ShutdownReturns, FinishStep

(* What the loop's books, the order of the steps and the outcome are made  *)
(* of changes only in the steps of the loop at work.                       *)
LEMMA BooksUnchanged ==
  ASSUME OInv, UNCHANGED work
  PROVE  /\ (\A l \in Loop : loop'[l] \in {"planning", "joining"} => loop'[l] = loop[l]) => Books'
         /\ (\A l \in Loop : loop[l] = "joining" => loop'[l] = "joining") => DependenciesFirst'
         /\ OutcomeRight'
<1>1. ASSUME NEW W PROVE Stuck(W)' <=> Stuck(W)
  BY DEF Stuck, work
<1> QED
  BY <1>1 DEF OInv, Books, DependenciesFirst, OutcomeRight, Circular, DistinctIds, Ids, work

(* What is ready is not stuck.                                             *)
LEMMA ReadyIsFree ==
  ASSUME OInv, NEW W, Stuck(W)
  PROVE  Ready \cap W = {}
<1> SUFFICES ASSUME NEW s \in Ready, s \in W PROVE FALSE
  OBVIOUS
<1>1. s.deps \subseteq Ids(ran)
  BY DEF Ready, OInv, Books
<1>2. ran \subseteq flow \ W
  BY DEF OInv, OrchestratorTypeOK, Books, Stuck
<1>3. Ids(ran) \subseteq Ids(flow \ W)
  BY <1>2 DEF Ids
<1> QED
  BY <1>1, <1>3 DEF Stuck

(* A loop that ends a workflow has told rightly whether it could end.      *)
LEMMA EndFlowIsRight ==
  ASSUME OInv, NEW l \in Loop, EndFlow(l)
  PROVE  OutcomeRight'
<1>1. /\ UNCHANGED <<flow, ran>> /\ Circular(flow)' = Circular(flow)
      /\ pending \subseteq flow /\ ran \subseteq flow /\ completed = Ids(ran)
      /\ \A s \in flow : s.id \notin completed => s \in pending
  BY DEF EndFlow, Circular, OInv, OrchestratorTypeOK, Books
<1>2. CASE pending = {}
  <2>1. outcome' = "completed"
    BY <1>2 DEF EndFlow
  <2>2. \A s \in flow : \E t \in ran : t.id = s.id
    BY <1>1, <1>2 DEF Ids
  <2>3. Ids(ran) = Ids(flow)
    BY <1>1, <2>2 DEF Ids
  <2>4. DistinctIds(flow) => ran = flow
    BY <1>1, <2>2 DEF DistinctIds
  <2>5. ASSUME ran = flow, NEW W \in (SUBSET flow) \ {{}}, Stuck(W) PROVE FALSE
    BY <2>5 DEF OInv, Books
  <2>6. ran = flow => ~Circular(flow)
    BY <2>5 DEF Circular, Stuck
  <2> QED
    BY <1>1, <2>1, <2>3, <2>4, <2>6 DEF OutcomeRight, DistinctIds
<1>3. CASE pending # {}
  <2>1. outcome' = "circular"
    BY <1>3 DEF EndFlow
  <2>2. Ids(flow \ pending) \subseteq completed
    BY <1>1 DEF Ids
  <2>3. ASSUME NEW s \in pending PROVE ~(s.deps \subseteq Ids(flow \ pending))
    <3>1. s \notin Ready
      BY DEF EndFlow
    <3> QED
      BY <2>2, <3>1 DEF Ready
  <2>4. Circular(flow)
    BY <1>1, <1>3, <2>3 DEF Circular
  <2> QED
    BY <1>1, <2>1, <2>4 DEF OutcomeRight
<1> QED
  BY <1>2, <1>3

(* Every step keeps the books and what they are kept for.                  *)
LEMMA BooksStep == OInv /\ [ONext]_ovars => (Books /\ DependenciesFirst /\ OutcomeRight)'
<1> SUFFICES ASSUME OInv, [ONext]_ovars PROVE Books' /\ DependenciesFirst' /\ OutcomeRight'
  OBVIOUS
<1> DEFINE Kept == Books' /\ DependenciesFirst' /\ OutcomeRight'
<1> USE DEF OInv
<1>1. ASSUME NEW l \in Loop,
             \/ StartLoop(l) \/ LockReceiver(l) \/ OnStart(l) \/ OnPause(l) \/ OnResume(l)
             \/ OnShutdown(l) \/ StopLoop(l)
      PROVE  Kept
  <2>1. UNCHANGED work
    BY <1>1 DEF StartLoop, LockReceiver, OnStart, OnPause, OnResume, OnShutdown, StopLoop
  <2>2. \/ loop' = loop
        \/ \E there \in {"waiting", "receiving", "shutting", "stopped"} :
             loop' = [loop EXCEPT ![l] = there]
    BY <1>1 DEF StartLoop, LockReceiver, OnStart, OnPause, OnResume, OnShutdown, StopLoop
  <2>3. loop[l] # "joining"
    BY <1>1 DEF StartLoop, LockReceiver, OnStart, OnPause, OnResume, OnShutdown, StopLoop, Got
  <2>4. /\ \A k \in Loop : loop'[k] \in {"planning", "joining"} => loop'[k] = loop[k]
        /\ \A k \in Loop : loop[k] = "joining" => loop'[k] = "joining"
    BY <2>2, <2>3 DEF OrchestratorTypeOK
  <2> QED
    BY <2>1, <2>4, BooksUnchanged
<1>2. CASE UNCHANGED <<work, loop>>
  BY <1>2, BooksUnchanged DEF work
<1>3. ASSUME NEW l \in Loop, OnExecute(l) PROVE Kept
  <2>1. \A k \in Loop : loop[k] # "joining"
    BY <1>3 DEF OnExecute, Got, OneLoopWorks
  <2>2. underway' = {} /\ completed' = {} /\ ran' = {} /\ pending' = flow' /\ outcome' = "running"
    BY <1>3 DEF OnExecute
  <2> QED
    BY <2>2 DEF Books, DependenciesFirst, OutcomeRight, Ids
<1>4. ASSUME NEW l \in Loop, SpawnWave(l) PROVE Kept
  <2>1. /\ underway' = Ready
        /\ completed' = completed \cup Ids(Ready)
        /\ ran' = ran \cup Ready
        /\ UNCHANGED <<flow, pending, outcome>>
        /\ loop' = [loop EXCEPT ![l] = "joining"]
        /\ loop[l] = "planning"
    BY <1>4 DEF SpawnWave
  <2>2. Books'
    <3>1. ASSUME NEW k \in Loop, loop'[k] = "planning" PROVE FALSE
      BY <2>1, <3>1 DEF OneLoopWorks, OrchestratorTypeOK
    <3>2. ASSUME NEW W \in SUBSET flow', Stuck(W)' PROVE ran' \cap W = {}
      <4>1. Stuck(W)
        BY <2>1, <3>2 DEF Stuck
      <4> QED
        BY <2>1, <3>2, <4>1, ReadyIsFree DEF Books
    <3>3. completed' = Ids(ran') /\ outcome' = "running"
      BY <2>1 DEF Books, Ids
    <3> QED
      BY <2>1, <3>1, <3>2, <3>3 DEF Books
  <2>3. DependenciesFirst'
    <3>1. \A s \in pending : s.id \notin completed
      BY <2>1 DEF Books
    <3>2. completed \cap Ids(Ready) = {}
      BY <3>1 DEF Ids, Ready
    <3>3. \A s \in Ready : s.deps \subseteq completed
      BY DEF Ready
    <3>4. loop'[l] = "joining"
      BY <2>1 DEF OrchestratorTypeOK
    <3> QED
      BY <2>1, <3>2, <3>3, <3>4 DEF DependenciesFirst
  <2>4. outcome' = "running"
    BY <2>1 DEF Books
  <2> QED
    BY <2>2, <2>3, <2>4 DEF OutcomeRight
<1>5. ASSUME NEW s \in underway, FinishStep(s) PROVE Kept
  <2>1. UNCHANGED <<flow, pending, completed, ran, outcome, loop>> /\ underway' = underway \ {s}
    BY <1>5 DEF FinishStep
  <2>2. Books'
    <3>1. ASSUME NEW W PROVE Stuck(W)' <=> Stuck(W)
      BY <2>1 DEF Stuck
    <3> QED
      BY <2>1, <3>1 DEF Books
  <2>3. DependenciesFirst'
    BY <2>1 DEF DependenciesFirst, Ids
  <2> QED
    BY <2>1, <2>2, <2>3 DEF OutcomeRight, Circular, DistinctIds, Ids
<1>6. ASSUME NEW l \in Loop, JoinWave(l) PROVE Kept
  <2>1. /\ UNCHANGED <<flow, completed, underway, ran, outcome>>
        /\ underway = {}
        /\ pending' = {s \in pending : s.id \notin completed}
        /\ loop' = [loop EXCEPT ![l] = "planning"]
        /\ loop[l] = "joining"
    BY <1>6 DEF JoinWave
  <2>2. Books'
    <3>1. ASSUME NEW W PROVE Stuck(W)' <=> Stuck(W)
      BY <2>1 DEF Stuck
    <3>2. \A k \in Loop : loop'[k] \in {"planning", "joining"} => outcome' = "running"
      BY <2>1 DEF Books, OrchestratorTypeOK
    <3> QED
      BY <2>1, <3>1, <3>2 DEF Books, Ids
  <2> QED
    BY <2>1, <2>2 DEF DependenciesFirst, OutcomeRight, Circular, DistinctIds, Ids
<1>7. ASSUME NEW l \in Loop, EndFlow(l) PROVE Kept
  <2>1. /\ UNCHANGED <<flow, pending, completed, underway, ran>>
        /\ loop' = [loop EXCEPT ![l] = "receiving"]
        /\ loop[l] = "planning"
        /\ underway = {}
    BY <1>7 DEF EndFlow, Books
  <2>2. Books'
    <3>1. ASSUME NEW W PROVE Stuck(W)' <=> Stuck(W)
      BY <2>1 DEF Stuck
    <3>2. \A k \in Loop : loop'[k] \notin {"planning", "joining"}
      BY <2>1 DEF OrchestratorTypeOK, OneLoopWorks
    <3> QED
      BY <2>1, <3>1, <3>2 DEF Books, Ids
  <2> QED
    BY <1>7, <2>1, <2>2, EndFlowIsRight DEF DependenciesFirst
<1> QED
  BY <1>1, <1>2, <1>3, <1>4, <1>5, <1>6, <1>7
  DEF ONext, LoopStep, ovars, SendCommand, ShutdownSends, ShutdownReturns

(* The invariant holds at the start and every step keeps it.               *)
LEMMA OrchestratorInvariant == OSpec => []OInv
<1>1. OInit => OInv
  <2> SUFFICES ASSUME OInit PROVE OInv
    OBVIOUS
  <2>1. OrchestratorTypeOK
    BY OrchestratorAssumption DEF OInit, OrchestratorTypeOK, OrchestratorState, LoopState
  <2>2. OneLoopWorks /\ Books /\ DependenciesFirst /\ OutcomeRight
    BY DEF OInit, OneLoopWorks, Books, DependenciesFirst, OutcomeRight, Ids
  <2> QED
    BY <2>1, <2>2 DEF OInv
<1>2. OInv /\ [ONext]_ovars => OInv'
  BY TypeStep, LoopsStep, BooksStep DEF OInv
<1> QED
  BY <1>1, <1>2, PTL DEF OSpec

(* A step of a workflow runs only after the steps it depends on, for any   *)
(* workflow, any number of loops and any order in which the tasks of a     *)
(* wave finish (orchestrator.rs:146-211).                                  *)
THEOREM DependenciesCorrect == OSpec => []DependenciesFirst
<1>1. OInv => DependenciesFirst
  BY DEF OInv
<1> QED
  BY <1>1, OrchestratorInvariant, PTL

(* Any workflow of steps with distinct ids either runs all of them or is   *)
(* given up, and the latter exactly if no order respects the dependencies; *)
(* of a repeated id one step runs (orchestrator.rs:157-163, 211).          *)
THEOREM OutcomeCorrect == OSpec => []OutcomeRight
<1>1. OInv => OutcomeRight
  BY DEF OInv
<1> QED
  BY <1>1, OrchestratorInvariant, PTL

(* Once every loop has stopped the orchestrator does not claim to run      *)
(* (orchestrator.rs:91-105, 122-133).                                      *)
THEOREM StoppedCorrect == OSpec => []StoppedMeansNotRunning
<1>1. OInit => StoppedMeansNotRunning
  BY DEF OInit, StoppedMeansNotRunning
<1>2. OInv /\ StoppedMeansNotRunning /\ [ONext]_ovars => StoppedMeansNotRunning'
  <2> SUFFICES ASSUME OInv, StoppedMeansNotRunning, [ONext]_ovars PROVE StoppedMeansNotRunning'
    OBVIOUS
  <2> USE DEF StoppedMeansNotRunning, OInv, OrchestratorTypeOK
  <2>1. CASE UNCHANGED <<state, loop>>
    BY <2>1
  <2>2. ASSUME NEW l \in Loop, StartLoop(l) PROVE StoppedMeansNotRunning'
    BY <2>2 DEF StartLoop
  <2>3. ASSUME NEW c \in Client, ShutdownReturns(c) PROVE StoppedMeansNotRunning'
    BY <2>3 DEF ShutdownReturns
  <2>4. ASSUME NEW l \in Loop, OnPause(l) \/ OnResume(l) PROVE StoppedMeansNotRunning'
    BY <2>4 DEF OnPause, OnResume, Got
  <2>5. ASSUME NEW l \in Loop, StopLoop(l) PROVE StoppedMeansNotRunning'
    BY <2>5 DEF StopLoop
  <2>6. ASSUME NEW l \in Loop, NEW there \in {"receiving", "shutting", "planning", "joining"},
               loop' = [loop EXCEPT ![l] = there]
        PROVE  StoppedMeansNotRunning'
    BY <2>6
  <2> QED
    BY <2>1, <2>2, <2>3, <2>4, <2>5, <2>6
    DEF ONext, LoopStep, ovars, work, SendCommand, ShutdownSends, LockReceiver, OnStart,
        OnShutdown, OnExecute, SpawnWave, JoinWave, EndFlow, FinishStep
<1> QED
  BY <1>1, <1>2, OrchestratorInvariant, PTL DEF OSpec

(* The orchestrator's state, its queue and the workflow at work keep their *)
(* kinds: no step is pending that is not in the workflow, and none under   *)
(* way that is not pending (orchestrator.rs:31-60, 146-211).               *)
THEOREM OrchestratorTyped == OSpec => []OrchestratorTypeOK
<1>1. OInv => OrchestratorTypeOK
  BY DEF OInv
<1> QED
  BY <1>1, OrchestratorInvariant, PTL

-----------------------------------------------------------------------------
(* The agent registry, for any ids and names.                              *)

(* What the stage of an id says of the maps: an agent stays in from its    *)
(* insertion to its removal, and the index names only agents that have     *)
(* been indexed and whose name has not been taken out since.               *)
Staged ==
  /\ \A i \in RegId : regPc[i] \in {"inserted", "registered"} => i \in DOMAIN agents
  /\ \A n \in DOMAIN nameIndex :
       regName[nameIndex[n]] = n /\ regPc[nameIndex[n]] \in {"registered", "removing"}

RgInv == RegistryTypeOK /\ Staged

(* Every step keeps the types and the stages.                              *)
LEMMA RegistryStep == RgInv /\ [RgNext]_rgvars => RgInv'
<1> SUFFICES ASSUME RgInv, [RgNext]_rgvars PROVE RgInv'
  OBVIOUS
<1> USE DEF RgInv, RegistryTypeOK, Staged, RegPc
<1>1. ASSUME NEW i \in RegId, LookUpName(i) PROVE RgInv'
  BY <1>1 DEF LookUpName
<1>2. ASSUME NEW i \in RegId, InsertAgent(i) PROVE RgInv'
  <2>1. DOMAIN agents' = DOMAIN agents \cup {i}
    BY <1>2 DEF InsertAgent, Put
  <2>2. \A x \in DOMAIN agents' : agents'[x] = IF x = i THEN regName[i] ELSE agents[x]
    BY <1>2 DEF InsertAgent, Put
  <2>3. /\ regPc[i] = "free" /\ regPc' = [regPc EXCEPT ![i] = "inserted"]
        /\ UNCHANGED <<nameIndex, regName>>
    BY <1>2 DEF InsertAgent
  <2> QED
    BY <2>1, <2>2, <2>3
<1>3. ASSUME NEW i \in RegId, IndexName(i) PROVE RgInv'
  <2> DEFINE n == regName[i]
  <2>1. DOMAIN nameIndex' = DOMAIN nameIndex \cup {n}
    BY <1>3 DEF IndexName, Put
  <2>2. \A x \in DOMAIN nameIndex' : nameIndex'[x] = IF x = n THEN i ELSE nameIndex[x]
    BY <1>3 DEF IndexName, Put
  <2>3. /\ regPc[i] = "inserted" /\ regPc' = [regPc EXCEPT ![i] = "registered"]
        /\ UNCHANGED <<agents, regName>>
    BY <1>3 DEF IndexName
  <2> QED
    BY <2>1, <2>2, <2>3
<1>4. ASSUME NEW i \in RegId, RemoveAgent(i) PROVE RgInv'
  <2>1. DOMAIN agents' = DOMAIN agents \ {i}
    BY <1>4 DEF RemoveAgent, Without, Restrict
  <2>2. \A x \in DOMAIN agents' : agents'[x] = agents[x]
    BY <1>4 DEF RemoveAgent, Without, Restrict
  <2>3. /\ regPc[i] = "registered" /\ regPc' = [regPc EXCEPT ![i] = "removing"]
        /\ UNCHANGED <<nameIndex, regName>>
    BY <1>4 DEF RemoveAgent
  <2> QED
    BY <2>1, <2>2, <2>3
<1>5. ASSUME NEW i \in RegId, RemoveName(i) PROVE RgInv'
  <2> DEFINE n == regName[i]
  <2>1. DOMAIN nameIndex' = DOMAIN nameIndex \ {n}
    BY <1>5 DEF RemoveName, Without, Restrict
  <2>2. \A x \in DOMAIN nameIndex' : nameIndex'[x] = nameIndex[x]
    BY <1>5 DEF RemoveName, Without, Restrict
  <2>3. /\ regPc[i] = "removing" /\ regPc' = [regPc EXCEPT ![i] = "gone"]
        /\ UNCHANGED <<agents, regName>>
    BY <1>5 DEF RemoveName
  <2> QED
    BY <2>1, <2>2, <2>3
<1>6. CASE UNCHANGED rgvars
  BY <1>6 DEF rgvars
<1> QED
  BY <1>1, <1>2, <1>3, <1>4, <1>5, <1>6 DEF RgNext

(* The invariant holds from the start on.                                  *)
LEMMA RegistryInvariant == RgSpec => []RgInv
<1>1. RgInit => RgInv
  BY DEF RgInit, RgInv, RegistryTypeOK, Staged, RegPc
<1> QED
  BY <1>1, RegistryStep, PTL DEF RgSpec

(* The maps keep their types.                                              *)
THEOREM RegistryTyped == RgSpec => []RegistryTypeOK
<1>1. RgInv => RegistryTypeOK
  BY DEF RgInv
<1> QED
  BY <1>1, RegistryInvariant, PTL

(* A name in the index leads to an agent of that name, however many        *)
(* registrations of the name raced and whichever agent was removed since   *)
(* (registry.rs:41-94).                                                    *)
THEOREM IndexCorrect == RgSpec => []IndexedAgentsExist
<1>1. RgInv => IndexedAgentsExist
  BY DEF RgInv, RegistryTypeOK, Staged, IndexedAgentsExist
<1> QED
  BY <1>1, RegistryInvariant, PTL

-----------------------------------------------------------------------------
(* The memory queries, for any rows, channels, tasks and limits.           *)

(* The rows of the two tables, and their parts.                            *)
MessageRow == [id : MessageId, chan : Chans, at : 0..MaxSeconds, text : {"first", "second"}]
EvidenceRow == [id : EvidenceId, task : TaskId, at : 0..MaxSeconds, status : Statuses]
Of(table, status) == {r \in table : r.status = status}
OfTask(table, task) == {r \in table : r.task = task}
OfBoth(table, task, status) == {r \in table : r.task = task /\ status \in {"all", r.status}}

(* The tables.                                                             *)
TablesOK ==
  /\ now \in 0..MaxSeconds
  /\ messages \in SUBSET MessageRow /\ IsFiniteSet(messages)
  /\ evidence \in SUBSET EvidenceRow /\ IsFiniteSet(evidence)
  /\ \A r \in messages : r.at <= now
  /\ \A r \in evidence : r.at <= now

(* What a tail has printed.                                                *)
TailOK ==
  Backwards(tail.rows) \in Ordered({r \in tail.table : r.chan = tail.chan}, tail.count, TRUE)

(* What a listing keeps between its queries.                               *)
ListType == [step : {"idle", "verified", "failed", "shown"}, task : TaskId \cup {""},
             status : Statuses \cup {"all", ""}, count : Nat, rows : Seq(EvidenceRow),
             table : SUBSET EvidenceRow, calm : BOOLEAN]

(* A listing under way: while no verdict falls between its queries, they   *)
(* read the same rows as if they were one.                                 *)
ListOK ==
  /\ list \in ListType /\ IsFiniteSet(list.table)
  /\ list.step = "idle" => list = NoList
  /\ list.step \in {"verified", "failed"} => list.task = "" /\ list.status = "all"
  /\ list.step \in {"verified", "failed"} /\ list.calm =>
       \A v \in Verdicts : Of(evidence, v) = Of(list.table, v)
  /\ list.step = "verified" /\ list.calm =>
       list.rows \in Ordered(Of(list.table, "pending"), list.count, FALSE)
  /\ list.step = "failed" /\ list.calm =>
       \E p \in Ordered(Of(list.table, "pending"), list.count, FALSE),
          v \in Ordered(Of(list.table, "verified"), list.count, FALSE) : list.rows = p \o v
  /\ list.step = "shown" /\ list.calm => list.rows \in Ordered(Wanted, list.count, FALSE)

(* The inductive invariant.                                                *)
MqInv == TablesOK /\ TailOK /\ ListOK

(* The smaller of two numbers: how many rows a limit leaves.               *)
Lesser(a, b) == IF a < b THEN a ELSE b

(* What a query returns, with the count of rows named.                     *)
LEMMA OrderedRows ==
  ASSUME NEW rows, IsFiniteSet(rows), NEW n \in Nat, NEW desc, NEW s
  PROVE  s \in Ordered(rows, n, desc) <=>
           /\ Cardinality(rows) \in Nat
           /\ s \in [1..Lesser(Cardinality(rows), n) -> rows]
           /\ \A i, j \in 1..Lesser(Cardinality(rows), n) : i < j => s[i] # s[j] /\ Lowest(s[i], s[j], desc)
           /\ \A r \in rows : (\A i \in 1..Lesser(Cardinality(rows), n) : s[i] # r)
                => \A i \in 1..Lesser(Cardinality(rows), n) : Lowest(s[i], r, desc)
BY FS_CardinalityType DEF Ordered, Lesser

(* What a query of the database returns.                                   *)
LEMMA QueryResult ==
  ASSUME NEW rows, IsFiniteSet(rows), NEW n \in Nat, NEW desc, NEW s \in Ordered(rows, n, desc)
  PROVE  /\ s \in Seq(rows) /\ Len(s) = Lesser(Cardinality(rows), n) /\ DOMAIN s = 1..Len(s)
         /\ Cardinality(rows) \in Nat /\ Len(s) \in Nat
         /\ \A i, j \in DOMAIN s : i < j => s[i] # s[j] /\ Lowest(s[i], s[j], desc)
         /\ \A r \in rows : (\A i \in DOMAIN s : s[i] # r) => \A i \in DOMAIN s : Lowest(s[i], r, desc)
<1> DEFINE k == Lesser(Cardinality(rows), n)
<1>1. /\ Cardinality(rows) \in Nat
      /\ s \in [1..k -> rows]
      /\ \A i, j \in 1..k : i < j => s[i] # s[j] /\ Lowest(s[i], s[j], desc)
      /\ \A r \in rows : (\A i \in 1..k : s[i] # r) => \A i \in 1..k : Lowest(s[i], r, desc)
  BY OrderedRows
<1>2. k \in Nat
  BY <1>1 DEF Lesser
<1> HIDE DEF k
<1>3. s \in Seq(rows) /\ Len(s) = k /\ DOMAIN s = 1..k
  BY <1>1, <1>2
<1> QED BY <1>1, <1>2, <1>3 DEF k

(* Printed the other way round twice is printed as it was.                 *)
LEMMA BackwardsTwice ==
  ASSUME NEW S, NEW s \in Seq(S)
  PROVE  Backwards(Backwards(s)) = s
<1>1. Len(s) \in Nat /\ DOMAIN s = 1..Len(s) /\ s = [i \in 1..Len(s) |-> s[i]]
  OBVIOUS
<1> DEFINE t == [i \in 1..Len(s) |-> s[Len(s) + 1 - i]]
<1>2. Backwards(s) = t
  BY <1>1 DEF Backwards
<1>3. t \in Seq(S) /\ Len(t) = Len(s) /\ DOMAIN t = 1..Len(s)
  <2>1. \A i \in 1..Len(s) : Len(s) + 1 - i \in 1..Len(s) /\ s[Len(s) + 1 - i] \in S
    BY <1>1
  <2>2. t \in [1..Len(s) -> S]
    BY <2>1
  <2> QED BY <1>1, <2>2
<1>4. \A i \in 1..Len(s) : t[Len(s) + 1 - i] = s[i]
  <2> TAKE i \in 1..Len(s)
  <2>1. Len(s) + 1 - i \in 1..Len(s) /\ Len(s) + 1 - (Len(s) + 1 - i) = i
    BY <1>1
  <2> QED BY <2>1
<1> HIDE DEF t
<1>5. Backwards(t) = [i \in 1..Len(s) |-> t[Len(s) + 1 - i]]
  BY <1>3 DEF Backwards
<1>6. [i \in 1..Len(s) |-> t[Len(s) + 1 - i]] = [i \in 1..Len(s) |-> s[i]]
  BY <1>4
<1> QED BY <1>1, <1>2, <1>5, <1>6

(* The order sort_by_key leaves: a permutation of the rows, oldest first.  *)
LEMMA SortedRows ==
  ASSUME NEW R, \A r \in R : r.at \in Nat, NEW s \in Seq(R)
  PROVE  /\ SortedByTime(s) \in Seq(R) /\ Len(SortedByTime(s)) = Len(s)
         /\ \E from \in [DOMAIN s -> DOMAIN s] :
              /\ \A k \in DOMAIN s : SortedByTime(s)[k] = s[from[k]]
              /\ \A j, k \in DOMAIN s : from[j] = from[k] => j = k
              /\ \A i \in DOMAIN s : \E k \in DOMAIN s : from[k] = i
              /\ \A j, k \in DOMAIN s : j < k => s[from[j]].at <= s[from[k]].at
<1> DEFINE I == DOMAIN s
           Before(i) == {j \in DOMAIN s : s[j].at < s[i].at \/ (s[j].at = s[i].at /\ j <= i)}
           below == [i \in I |-> Before(i)]
<1>1. I = 1..Len(s) /\ Len(s) \in Nat /\ \A i \in I : s[i] \in R /\ s[i].at \in Nat /\ i \in Nat
  OBVIOUS
<1>2. IsFiniteSet(I) /\ Cardinality(I) = Len(s)
  <2>1. 1 \in Int /\ Len(s) \in Int
    BY <1>1
  <2>2. IsFiniteSet(1..Len(s)) /\ Cardinality(1..Len(s)) = Len(s)
    BY <1>1, <2>1, FS_Interval
  <2> QED BY <1>1, <2>2
<1>3. below \in [I -> SUBSET I] /\ \A i \in I : below[i] = Before(i) /\ i \in below[i]
  BY <1>1
<1>4. ASSUME NEW i \in I, NEW j \in I, s[i].at < s[j].at \/ (s[i].at = s[j].at /\ i < j)
      PROVE  j \notin below[i] /\ below[i] \subseteq below[j]
  <2>1. j \notin Before(i)
    BY <1>1, <1>4
  <2>2. \A m \in I : m \in Before(i) => m \in Before(j)
    BY <1>1, <1>4
  <2> HIDE DEF Before
  <2> QED BY <1>3, <2>1, <2>2
<1>5. \A i, j \in I : i # j => /\ below[i] # below[j]
                               /\ below[i] \subseteq below[j] \/ below[j] \subseteq below[i]
  <2> SUFFICES ASSUME NEW i \in I, NEW j \in I, i # j
               PROVE  /\ below[i] # below[j]
                      /\ below[i] \subseteq below[j] \/ below[j] \subseteq below[i]
    OBVIOUS
  <2>1. \/ s[i].at < s[j].at \/ (s[i].at = s[j].at /\ i < j)
        \/ s[j].at < s[i].at \/ (s[j].at = s[i].at /\ j < i)
    BY <1>1
  <2> HIDE DEF below
  <2> QED BY <1>3, <1>4, <2>1
<1>6. /\ \A i \in I : Cardinality(below[i]) \in 1..Cardinality(I)
      /\ \A i, j \in I : Cardinality(below[i]) = Cardinality(below[j]) => i = j
      /\ \A i, j \in I : Cardinality(below[i]) <= Cardinality(below[j]) => below[i] \subseteq below[j]
      /\ \A k \in 1..Cardinality(I) : \E i \in I : Cardinality(below[i]) = k
  <2> HIDE DEF below, I
  <2> QED BY <1>2, <1>3, <1>5, Ranks
<1> DEFINE from == [k \in I |-> CHOOSE i \in I : Cardinality(Before(i)) = k]
<1>7. SortedByTime(s) = [k \in I |-> s[from[k]]]
  BY DEF SortedByTime
<1> HIDE DEF below, Before
<1>8. ASSUME NEW k \in I PROVE from[k] \in I /\ Cardinality(below[from[k]]) = k
  <2>1. PICK i \in I : Cardinality(below[i]) = k
    BY <1>1, <1>2, <1>6
  <2>2. Cardinality(Before(i)) = k
    BY <1>3, <2>1
  <2>3. from[k] \in I /\ Cardinality(Before(from[k])) = k
    BY <2>2
  <2> QED BY <1>3, <2>3
<1>9. from \in [I -> I]
  BY <1>8
<1> HIDE DEF from
<1>10. \A j, k \in I : from[j] = from[k] => j = k
  BY <1>8
<1>11. ASSUME NEW i \in I PROVE \E k \in I : from[k] = i
  <2>1. PICK k \in I : k = Cardinality(below[i])
    BY <1>1, <1>2, <1>6
  <2> QED BY <1>6, <1>8, <2>1
<1>12. ASSUME NEW j \in I, NEW k \in I, j < k PROVE s[from[j]].at <= s[from[k]].at
  <2>1. /\ from[j] \in I /\ Cardinality(below[from[j]]) = j
        /\ from[k] \in I /\ Cardinality(below[from[k]]) = k
    BY <1>8
  <2>2. j <= k
    BY <1>1, <1>12
  <2>3. below[from[j]] \subseteq below[from[k]]
    BY <1>6, <2>1, <2>2
  <2>4. from[j] \in Before(from[k])
    BY <1>3, <2>1, <2>3
  <2> QED BY <1>1, <2>1, <2>4 DEF Before
<1>13. SortedByTime(s) \in Seq(R) /\ Len(SortedByTime(s)) = Len(s)
  <2>1. \A k \in I : s[from[k]] \in R
    BY <1>1, <1>8
  <2>2. SortedByTime(s) \in [1..Len(s) -> R]
    BY <1>1, <1>7, <2>1
  <2> QED BY <1>1, <2>2
<1> QED BY <1>7, <1>9, <1>10, <1>11, <1>12, <1>13

(* The first n of rows in order are what a query for n would return, if    *)
(* nothing that was left out is older than they are.                       *)
LEMMA TakeOrdered ==
  ASSUME NEW rows, IsFiniteSet(rows), \A r \in rows : r.at \in Nat, NEW n \in Nat, NEW t \in Seq(rows),
         \A i, j \in DOMAIN t : i < j => t[i] # t[j] /\ t[i].at <= t[j].at,
         Lesser(Len(t), n) = Lesser(Cardinality(rows), n),
         \A r \in rows : (\A i \in DOMAIN t : t[i] # r) => \A i \in 1..Lesser(Len(t), n) : t[i].at <= r.at
  PROVE  Take(t, n) \in Ordered(rows, n, FALSE)
<1> DEFINE k == Lesser(Len(t), n)
           u == Take(t, n)
<1>1. /\ Len(t) \in Nat /\ DOMAIN t = 1..Len(t) /\ \A i \in DOMAIN t : t[i] \in rows /\ t[i].at \in Nat
      /\ k \in Nat /\ k <= Len(t)
  BY DEF Lesser
<1>2. u \in Seq(rows) /\ Len(u) = k /\ \A i \in 1..k : u[i] = t[i]
  <2>1. u = SubSeq(t, 1, k)
    BY DEF Take, Lesser
  <2>2. 1 \in Int /\ k \in Int /\ \A i \in 1..k : t[i] \in rows
    BY <1>1
  <2> HIDE DEF k
  <2>3. /\ SubSeq(t, 1, k) \in Seq(rows)
        /\ Len(SubSeq(t, 1, k)) = IF 1 <= k THEN k - 1 + 1 ELSE 0
        /\ \A i \in 1..(k - 1 + 1) : SubSeq(t, 1, k)[i] = t[1 + i - 1]
    BY <2>2, SubSeqProperties
  <2>4. Len(SubSeq(t, 1, k)) = k
    BY <1>1, <2>3
  <2>5. \A i \in 1..k : SubSeq(t, 1, k)[i] = t[i]
    <3> TAKE i \in 1..k
    <3>1. i \in 1..(k - 1 + 1) /\ 1 + i - 1 = i
      BY <1>1
    <3>2. SubSeq(t, 1, k)[i] = t[1 + i - 1]
      BY <2>3, <3>1
    <3> QED BY <3>1, <3>2
  <2> QED BY <2>1, <2>3, <2>4, <2>5
<1> HIDE DEF u
<1>3. u \in [1..k -> rows]
  BY <1>1, <1>2
<1>4. k = Lesser(Cardinality(rows), n)
  OBVIOUS
<1> HIDE DEF k
<1>5. \A i \in 1..k : i \in DOMAIN t
  BY <1>1
<1>6. \A i, j \in 1..k : i < j => u[i] # u[j] /\ Lowest(u[i], u[j], FALSE)
  BY <1>2, <1>5 DEF Lowest
<1>7. ASSUME NEW r \in rows, \A i \in 1..k : u[i] # r, NEW i \in 1..k
      PROVE  Lowest(u[i], r, FALSE)
  <2>1. CASE \A j \in DOMAIN t : t[j] # r
    BY <1>2, <2>1 DEF Lowest, k
  <2>2. ASSUME NEW j \in DOMAIN t, t[j] = r PROVE t[i].at <= r.at
    <3>1. j \notin 1..k /\ i \in Nat /\ j \in Nat
      BY <1>1, <1>2, <1>7, <2>2
    <3>2. i < j
      BY <1>1, <3>1
    <3> QED BY <1>5, <2>2, <3>2
  <2> QED BY <1>2, <2>1, <2>2 DEF Lowest
<1>8. Cardinality(rows) \in Nat
  BY FS_CardinalityType
<1> QED BY <1>3, <1>4, <1>6, <1>7, <1>8, OrderedRows DEF u

(* One task: all of its rows are fetched, then filtered, then cut.         *)
LEMMA TaskListing ==
  ASSUME NEW table, IsFiniteSet(table), \A r \in table : r.at \in Nat, NEW task, NEW status, NEW n \in Nat,
         NEW s \in Ordered(OfTask(table, task), Cardinality(table), FALSE)
  PROVE  Take(Matching(s, status), n) \in Ordered(OfBoth(table, task, status), n, FALSE)
<1> DEFINE A == {r \in table : r.task = task}
           W == {r \in table : r.task = task /\ status \in {"all", r.status}}
           I == {i \in DOMAIN s : status \in {"all", s[i].status}}
           t == Selected(s, I)
<1>1. /\ IsFiniteSet(A) /\ Cardinality(A) <= Cardinality(table) /\ A \in SUBSET table
      /\ Cardinality(A) \in Nat /\ Cardinality(table) \in Nat
  <2>1. A \in SUBSET table
    OBVIOUS
  <2> HIDE DEF A
  <2> QED BY <2>1, FS_Subset, FS_CardinalityType
<1>2. IsFiniteSet(W) /\ \A r \in W : r \in A /\ r.at \in Nat
  <2>1. W \in SUBSET table
    OBVIOUS
  <2>2. IsFiniteSet(W)
    <3> HIDE DEF W
    <3> QED BY <2>1, FS_Subset
  <2> QED BY <2>2
<1>3. /\ s \in Seq(A) /\ Len(s) = Lesser(Cardinality(A), Cardinality(table)) /\ DOMAIN s = 1..Len(s)
      /\ Len(s) \in Nat
      /\ \A i, j \in DOMAIN s : i < j => s[i] # s[j] /\ Lowest(s[i], s[j], FALSE)
  <2> HIDE DEF A
  <2>1. s \in Ordered(A, Cardinality(table), FALSE)
    BY DEF A, OfTask
  <2> QED BY <1>1, <2>1, QueryResult
<1>4. Len(s) = Cardinality(A)
  BY <1>1, <1>3 DEF Lesser
<1>5. \A i, j \in DOMAIN s : s[i] = s[j] => i = j
  <2> SUFFICES ASSUME NEW i \in DOMAIN s, NEW j \in DOMAIN s, i # j PROVE s[i] # s[j]
    OBVIOUS
  <2>1. i < j \/ j < i
    BY <1>3
  <2> QED BY <1>3, <2>1
<1>6. \A r \in A : \E i \in DOMAIN s : s[i] = r
  <2> HIDE DEF A
  <2> QED BY <1>1, <1>3, <1>4, <1>5, CountDistinct
<1>7. /\ t \in Seq(A) /\ DOMAIN t = 1..Len(t)
      /\ \A k \in DOMAIN t : PlaceOf(I, k) \in I /\ t[k] = s[PlaceOf(I, k)]
      /\ \A k, m \in DOMAIN t : k < m => PlaceOf(I, k) < PlaceOf(I, m)
      /\ \A i \in I : \E k \in DOMAIN t : PlaceOf(I, k) = i
  <2>1. I \in SUBSET DOMAIN s
    OBVIOUS
  <2> HIDE DEF I, A
  <2>2. t \in Seq(A)
    BY <1>3, <2>1, SelectedKeeps
  <2> QED BY <1>3, <2>1, <2>2, SelectedKeeps
<1>8. \A i \in I : i \in DOMAIN s /\ s[i] \in W
  <2> TAKE i \in I
  <2>1. i \in DOMAIN s /\ status \in {"all", s[i].status} /\ s[i] \in A
    BY <1>3
  <2> QED BY <2>1
<1>9. \A r \in W : \E i \in I : s[i] = r
  BY <1>2, <1>6
<1> HIDE DEF I, W, A, t
<1>10. t \in Seq(W)
  <2>1. \A k \in DOMAIN t : t[k] \in W
    BY <1>7, <1>8
  <2> QED BY <1>7, <2>1
<1>11. \A k, m \in DOMAIN t : k < m => t[k] # t[m] /\ t[k].at <= t[m].at
  BY <1>3, <1>7, <1>8 DEF Lowest
<1>12. \A k, m \in DOMAIN t : t[k] = t[m] => k = m
  <2> SUFFICES ASSUME NEW k \in DOMAIN t, NEW m \in DOMAIN t, k # m PROVE t[k] # t[m]
    OBVIOUS
  <2>1. k \in Nat /\ m \in Nat
    BY <1>7
  <2>2. k < m \/ m < k
    BY <2>1
  <2> QED BY <1>11, <2>2
<1>13. \A r \in W : \E k \in DOMAIN t : t[k] = r
  BY <1>7, <1>9
<1>14. Len(t) = Cardinality(W)
  BY <1>2, <1>10, <1>12, <1>13, CountDistinct
<1>15. Take(t, n) \in Ordered(W, n, FALSE)
  BY <1>2, <1>10, <1>11, <1>13, <1>14, TakeOrdered
<1>16. Matching(s, status) = t
  BY DEF Matching, t, I
<1> QED BY <1>15, <1>16 DEF W, OfBoth

(* A query that was cut short already returned enough rows to go before    *)
(* everything it left out.                                                 *)
LEMMA LeftOut ==
  ASSUME NEW X, IsFiniteSet(X), \A r \in X : r.at \in Nat, NEW n \in Nat, NEW q \in Ordered(X, n, FALSE),
         NEW R, X \subseteq R, \A r \in R : r.at \in Nat, NEW t \in Seq(R),
         \A i, j \in DOMAIN t : i < j => t[i].at <= t[j].at,
         \A m \in DOMAIN q : \E k \in DOMAIN t : t[k] = q[m],
         NEW r \in X, \A m \in DOMAIN q : q[m] # r,
         NEW i \in DOMAIN t, i <= n
  PROVE  t[i].at <= r.at
<1>1. /\ q \in Seq(X) /\ Len(q) = Lesser(Cardinality(X), n) /\ DOMAIN q = 1..Len(q)
      /\ Cardinality(X) \in Nat /\ Len(q) \in Nat
      /\ \A j, k \in DOMAIN q : j < k => q[j] # q[k] /\ Lowest(q[j], q[k], FALSE)
      /\ \A j \in DOMAIN q : Lowest(q[j], r, FALSE)
  BY QueryResult
<1>2. \A j, k \in DOMAIN q : q[j] = q[k] => j = k
  <2> SUFFICES ASSUME NEW j \in DOMAIN q, NEW k \in DOMAIN q, j # k PROVE q[j] # q[k]
    OBVIOUS
  <2>1. j < k \/ k < j
    BY <1>1
  <2> QED BY <1>1, <2>1
<1>3. Len(q) = n
  <2>1. Len(q) = Cardinality(X) <=> \A x \in X : \E j \in DOMAIN q : q[j] = x
    BY <1>1, <1>2, CountDistinct
  <2>2. Len(q) # Cardinality(X)
    BY <2>1
  <2>3. Len(q) = Cardinality(X) \/ Len(q) = n
    BY <1>1 DEF Lesser
  <2> QED BY <2>2, <2>3
<1>4. \A j \in DOMAIN q : q[j].at <= r.at /\ q[j].at \in Nat
  BY <1>1 DEF Lowest
<1>5. DOMAIN t = 1..Len(t) /\ Len(t) \in Nat /\ i \in Nat /\ i >= 1 /\ \A k \in DOMAIN t : t[k] \in R /\ t[k].at \in Nat
  OBVIOUS
<1>6. SUFFICES ASSUME ~(t[i].at <= r.at) PROVE FALSE
  OBVIOUS
<1> DEFINE spot == [m \in 1..n |-> CHOOSE k \in DOMAIN t : t[k] = q[m]]
           N == 1..n
           M == 1..(i - 1)
<1>7. ASSUME NEW m \in N PROVE spot[m] \in DOMAIN t /\ t[spot[m]] = q[m]
  BY <1>1, <1>3
<1>8. \A m \in N : spot[m] \in M
  <2> TAKE m \in N
  <2>1. spot[m] \in DOMAIN t /\ t[spot[m]].at <= r.at /\ spot[m] \in Nat /\ spot[m] >= 1
    <3> HIDE DEF spot
    <3>1. spot[m] \in DOMAIN t /\ t[spot[m]] = q[m] /\ m \in DOMAIN q
      BY <1>1, <1>3, <1>7
    <3>2. q[m].at <= r.at
      BY <1>4, <3>1
    <3> QED BY <1>5, <3>1, <3>2
  <2> HIDE DEF spot
  <2>2. ~(i <= spot[m])
    <3>1. r.at \in Nat
      OBVIOUS
    <3>2. i = spot[m] \/ i < spot[m] => t[i].at <= t[spot[m]].at
      BY <1>5, <2>1
    <3> QED BY <1>5, <1>6, <2>1, <3>1, <3>2
  <2> QED BY <1>5, <2>1, <2>2
<1>9. spot \in Injection(N, M)
  <2>1. spot \in [N -> M]
    BY <1>8
  <2>2. \A j, k \in N : spot[j] = spot[k] => j = k
    <3> HIDE DEF spot
    <3> SUFFICES ASSUME NEW j \in N, NEW k \in N, spot[j] = spot[k] PROVE j = k
      OBVIOUS
    <3>1. q[j] = q[k]
      BY <1>7
    <3>2. j \in DOMAIN q /\ k \in DOMAIN q
      BY <1>1, <1>3
    <3> QED BY <1>2, <3>1, <3>2
  <2> HIDE DEF spot
  <2> QED BY <2>1, <2>2 DEF Injection, IsInjective
<1>10. /\ IsFiniteSet(M) /\ Cardinality(M) = i - 1 /\ Cardinality(N) = n
  <2>1. 1 \in Int /\ n \in Int /\ i - 1 \in Int
    BY <1>5
  <2>2. Cardinality(N) = n
    BY <2>1, FS_Interval
  <2>3. IsFiniteSet(M) /\ Cardinality(M) = IF 1 > i - 1 THEN 0 ELSE (i - 1) - 1 + 1
    BY <2>1, FS_Interval
  <2> HIDE DEF M
  <2> QED BY <1>5, <2>2, <2>3
<1>11. Cardinality(N) <= Cardinality(M)
  <2> HIDE DEF N, M, spot
  <2> QED BY <1>9, <1>10, FS_Injection
<1> QED BY <1>5, <1>10, <1>11

(* Three queries over rows of different status, sorted together and cut,   *)
(* are what one query would have returned.                                 *)
LEMMA UnionOfQueries ==
  ASSUME NEW A, NEW B, NEW C, IsFiniteSet(A), IsFiniteSet(B), IsFiniteSet(C),
         A \cap B = {}, (A \cup B) \cap C = {},
         \A r \in (A \cup B) \cup C : r.at \in Nat, NEW n \in Nat,
         NEW a \in Ordered(A, n, FALSE), NEW b \in Ordered(B, n, FALSE), NEW c \in Ordered(C, n, FALSE)
  PROVE  Union((a \o b) \o c, n) \in Ordered((A \cup B) \cup C, n, FALSE)
<1> DEFINE R == (A \cup B) \cup C
           w == (a \o b) \o c
           t == SortedByTime(w)
<1>1. ASSUME NEW X, IsFiniteSet(X), X \subseteq R, NEW q \in Ordered(X, n, FALSE)
      PROVE  /\ q \in Seq(R) /\ q \in Seq(X) /\ Len(q) \in Nat /\ Len(q) = Lesser(Cardinality(X), n)
             /\ Cardinality(X) \in Nat /\ DOMAIN q = 1..Len(q)
             /\ \A j, k \in DOMAIN q : q[j] = q[k] => j = k
             /\ Range(q) \subseteq X
  <2>1. /\ q \in Seq(X) /\ Len(q) = Lesser(Cardinality(X), n) /\ DOMAIN q = 1..Len(q)
        /\ Cardinality(X) \in Nat /\ Len(q) \in Nat
        /\ \A j, k \in DOMAIN q : j < k => q[j] # q[k]
    <3> HIDE DEF R
    <3> QED BY <1>1, QueryResult
  <2>2. q \in Seq(R)
    <3> HIDE DEF R
    <3> QED BY <1>1, <2>1
  <2>3. \A j, k \in DOMAIN q : q[j] = q[k] => j = k
    <3> SUFFICES ASSUME NEW j \in DOMAIN q, NEW k \in DOMAIN q, j # k PROVE q[j] # q[k]
      OBVIOUS
    <3>1. j < k \/ k < j
      BY <2>1
    <3> QED BY <2>1, <3>1
  <2>4. Range(q) \subseteq X
    BY <2>1 DEF Range
  <2> QED BY <2>1, <2>2, <2>3, <2>4
<1>2. A \subseteq R /\ B \subseteq R /\ C \subseteq R
  OBVIOUS
<1> HIDE DEF R
<1>3. /\ a \o b \in Seq(R) /\ Range(a \o b) = Range(a) \cup Range(b)
      /\ \A j, k \in DOMAIN (a \o b) : (a \o b)[j] = (a \o b)[k] => j = k
      /\ Len(a \o b) = Len(a) + Len(b)
  <2>1. a \in Seq(R) /\ b \in Seq(R) /\ Range(a) \cap Range(b) = {}
    BY ZenonT(30), <1>1, <1>2
  <2>2. \A j, k \in DOMAIN a : a[j] = a[k] => j = k
    BY <1>1, <1>2
  <2>3. \A j, k \in DOMAIN b : b[j] = b[k] => j = k
    BY <1>1, <1>2
  <2> QED BY <2>1, <2>2, <2>3, Distinct
<1>4. /\ w \in Seq(R) /\ Range(w) = (Range(a) \cup Range(b)) \cup Range(c)
      /\ \A j, k \in DOMAIN w : w[j] = w[k] => j = k
      /\ Len(w) = (Len(a) + Len(b)) + Len(c)
  <2>1. Range(a) \subseteq A /\ Range(b) \subseteq B /\ Range(c) \subseteq C /\ c \in Seq(R)
    BY <1>1, <1>2
  <2>2. Range(a \o b) \cap Range(c) = {}
    BY <1>3, <2>1
  <2>3. \A j, k \in DOMAIN c : c[j] = c[k] => j = k
    BY <1>1, <1>2
  <2>4. /\ (a \o b) \o c \in Seq(R) /\ Range((a \o b) \o c) = Range(a \o b) \cup Range(c)
        /\ \A j, k \in DOMAIN ((a \o b) \o c) : ((a \o b) \o c)[j] = ((a \o b) \o c)[k] => j = k
    BY <1>3, <2>1, <2>2, <2>3, Distinct
  <2>5. Len((a \o b) \o c) = Len(a \o b) + Len(c)
    BY <1>3, <2>1
  <2> QED BY <1>3, <2>4, <2>5
<1> HIDE DEF w
<1>5. \A r \in R : r.at \in Nat
  BY DEF R
<1>6. t \in Seq(R) /\ Len(t) = Len(w) /\ DOMAIN t = DOMAIN w
  BY <1>4, <1>5, SortedRows
<1>7. PICK from \in [DOMAIN w -> DOMAIN w] :
              /\ \A k \in DOMAIN w : t[k] = w[from[k]]
              /\ \A j, k \in DOMAIN w : from[j] = from[k] => j = k
              /\ \A i \in DOMAIN w : \E k \in DOMAIN w : from[k] = i
              /\ \A j, k \in DOMAIN w : j < k => w[from[j]].at <= w[from[k]].at
  BY <1>4, <1>5, SortedRows
<1> HIDE DEF t
<1>8. \A j, k \in DOMAIN t : j < k => t[j] # t[k] /\ t[j].at <= t[k].at
  <2> SUFFICES ASSUME NEW j \in DOMAIN t, NEW k \in DOMAIN t, j < k PROVE t[j] # t[k] /\ t[j].at <= t[k].at
    OBVIOUS
  <2>1. j # k /\ j \in DOMAIN w /\ k \in DOMAIN w
    BY <1>4, <1>6
  <2>2. from[j] # from[k] /\ from[j] \in DOMAIN w /\ from[k] \in DOMAIN w
    BY <1>7, <2>1
  <2>3. t[j] # t[k]
    BY <1>4, <1>7, <2>1, <2>2
  <2>4. t[j] = w[from[j]] /\ t[k] = w[from[k]] /\ w[from[j]].at <= w[from[k]].at
    BY <1>7, <2>1
  <2> QED BY <2>3, <2>4
<1>9. \A x \in Range(w) : \E k \in DOMAIN t : t[k] = x
  <2> SUFFICES ASSUME NEW i \in DOMAIN w PROVE \E k \in DOMAIN t : t[k] = w[i]
    BY DEF Range
  <2> QED BY <1>6, <1>7
<1>10. IsFiniteSet(R) /\ Cardinality(R) = (Cardinality(A) + Cardinality(B)) + Cardinality(C)
  <2>1. IsFiniteSet(A \cup B) /\ Cardinality(A \cup B) = Cardinality(A) + Cardinality(B) - Cardinality(A \cap B)
    BY FS_Union
  <2>2. IsFiniteSet((A \cup B) \cup C)
        /\ Cardinality((A \cup B) \cup C) = Cardinality(A \cup B) + Cardinality(C) - Cardinality((A \cup B) \cap C)
    BY <2>1, FS_Union
  <2>3. Cardinality(A \cap B) = 0 /\ Cardinality((A \cup B) \cap C) = 0
    BY FS_EmptySet
  <2>4. Cardinality(A) \in Nat /\ Cardinality(B) \in Nat /\ Cardinality(C) \in Nat
    BY FS_CardinalityType
  <2> QED BY <2>1, <2>2, <2>3, <2>4 DEF R
<1>11. /\ Len(a) = Lesser(Cardinality(A), n) /\ Len(b) = Lesser(Cardinality(B), n)
       /\ Len(c) = Lesser(Cardinality(C), n)
       /\ Cardinality(A) \in Nat /\ Cardinality(B) \in Nat /\ Cardinality(C) \in Nat
       /\ Len(a) \in Nat /\ Len(b) \in Nat /\ Len(c) \in Nat
  BY <1>1, <1>2
<1>12. Lesser(Len(t), n) = Lesser(Cardinality(R), n)
  <2>1. Len(t) = (Len(a) + Len(b)) + Len(c)
    BY <1>4, <1>6
  <2>2. Len(t) >= n \/ (Len(a) = Cardinality(A) /\ Len(b) = Cardinality(B) /\ Len(c) = Cardinality(C))
    BY <1>11, <2>1 DEF Lesser
  <2>3. Cardinality(R) \in Nat /\ Len(t) \in Nat /\ Len(t) <= Cardinality(R)
    BY <1>10, <1>11, <2>1 DEF Lesser
  <2> QED BY <1>10, <1>11, <2>1, <2>2, <2>3 DEF Lesser
<1>13. ASSUME NEW r \in R, \A k \in DOMAIN t : t[k] # r, NEW i \in 1..Lesser(Len(t), n)
       PROVE  t[i].at <= r.at
  <2>1. i \in DOMAIN t /\ i <= n
    <3>1. Len(t) \in Nat /\ DOMAIN t = 1..Len(t)
      BY <1>6
    <3> QED BY <3>1 DEF Lesser
  <2>2. \A j, k \in DOMAIN t : j < k => t[j].at <= t[k].at
    BY <1>8
  <2>3. ASSUME NEW X, IsFiniteSet(X), X \subseteq R, r \in X, NEW q \in Ordered(X, n, FALSE), Range(q) \subseteq Range(w)
        PROVE  t[i].at <= r.at
    <3>1. \A m \in DOMAIN q : \E k \in DOMAIN t : t[k] = q[m]
      BY <1>9, <2>3 DEF Range
    <3>2. \A m \in DOMAIN q : q[m] # r
      BY <1>13, <3>1
    <3>3. \A x \in X : x.at \in Nat
      BY <1>5, <2>3
    <3> QED BY ZenonT(30), <1>5, <1>6, <2>1, <2>2, <2>3, <3>1, <3>2, <3>3, LeftOut
  <2>4. Range(a) \subseteq Range(w) /\ Range(b) \subseteq Range(w) /\ Range(c) \subseteq Range(w)
    BY <1>4
  <2> QED BY <1>2, <2>3, <2>4 DEF R
<1>14. Take(t, n) \in Ordered(R, n, FALSE)
  BY <1>5, <1>6, <1>8, <1>10, <1>12, <1>13, TakeOrdered
<1> QED BY <1>14 DEF Union, R, w, t

(* What a cut and a sort leave are still rows.                             *)
LEMMA UnionKeeps ==
  ASSUME NEW R, \A r \in R : r.at \in Nat, NEW s \in Seq(R), NEW n \in Nat
  PROVE  Union(s, n) \in Seq(R)
<1> DEFINE t == SortedByTime(s)
           k == Lesser(Len(t), n)
<1>1. t \in Seq(R)
  BY SortedRows
<1> HIDE DEF t
<1>2. Len(t) \in Nat /\ DOMAIN t = 1..Len(t) /\ k \in Nat /\ k <= Len(t)
  BY <1>1 DEF Lesser
<1>3. SubSeq(t, 1, k) \in Seq(R)
  <2>1. 1 \in Int /\ k \in Int /\ \A i \in 1..k : t[i] \in R
    BY <1>1, <1>2
  <2> HIDE DEF k
  <2> QED BY <2>1, SubSeqProperties
<1> QED BY <1>3 DEF Union, Take, t, k, Lesser

(* The rows of a table that a query reads are finitely many, and dated.    *)
LEMMA PartOfTable ==
  ASSUME NEW table \in SUBSET EvidenceRow, IsFiniteSet(table), MaxSeconds \in Nat, NEW X \in SUBSET table
  PROVE  IsFiniteSet(X) /\ X \in SUBSET EvidenceRow /\ \A r \in X : r.at \in Nat
<1>1. IsFiniteSet(X)
  BY FS_Subset
<1>2. \A r \in EvidenceRow : r.at \in Nat
  BY DEF EvidenceRow
<1> QED BY <1>1, <1>2

(* A query of the table answers with rows of it.                           *)
LEMMA QueryRows ==
  ASSUME NEW table \in SUBSET EvidenceRow, IsFiniteSet(table), MaxSeconds \in Nat, NEW X \in SUBSET table,
         NEW n \in Nat, NEW desc, NEW s \in Ordered(X, n, desc)
  PROVE  s \in Seq(EvidenceRow)
<1>1. IsFiniteSet(X)
  BY FS_Subset
<1>2. s \in Seq(X)
  BY <1>1, QueryResult
<1> QED BY <1>2

(* A listing before anything was asked.                                    *)
LEMMA IdleList == NoList \in ListType /\ NoList.calm = TRUE /\ NoList.table = {} /\ NoList.step = "idle"
<1>1. /\ <<>> \in Seq(EvidenceRow) /\ {} \in SUBSET EvidenceRow /\ 0 \in Nat /\ TRUE \in BOOLEAN
      /\ "idle" \in {"idle", "verified", "failed", "shown"}
      /\ "" \in TaskId \cup {""} /\ "" \in Statuses \cup {"all", ""}
  OBVIOUS
<1> QED BY <1>1 DEF NoList, ListType

(* The invariant holds at the start.                                       *)
LEMMA MqInitInv == MqInit => MqInv
<1> SUFFICES ASSUME MqInit PROVE MqInv
  OBVIOUS
<1> USE QueriesAssumption
<1>1. TablesOK
  BY FS_EmptySet DEF MqInit, TablesOK
<1>2. Backwards(<<>>) \in Ordered({}, 0, TRUE)
  <2>1. IsFiniteSet({}) /\ Cardinality({}) = 0 /\ 0 \in Nat /\ Lesser(0, 0) = 0
    BY FS_EmptySet DEF Lesser
  <2>2. Backwards(<<>>) \in [1..0 -> {}]
    BY DEF Backwards
  <2> QED BY <2>1, <2>2, OrderedRows
<1>3. TailOK
  <2>1. tail.rows = <<>> /\ {r \in tail.table : r.chan = tail.chan} = {} /\ tail.count = 0
    BY DEF MqInit
  <2> QED BY <1>2, <2>1 DEF TailOK
<1>4. list = NoList /\ list \in ListType /\ list.table = {} /\ list.step = "idle"
  BY IdleList DEF MqInit
<1>5. ListOK
  BY <1>4, FS_EmptySet DEF ListOK
<1> QED BY <1>1, <1>3, <1>5 DEF MqInv

(* Steps that leave the evidence and the listing alone.                    *)
LEMMA ListAlone ==
  ASSUME ListOK, UNCHANGED <<evidence, list>>
  PROVE  ListOK'
<1>1. list' = list /\ evidence' = evidence /\ Wanted' = Wanted
  BY DEF Wanted
<1> QED BY <1>1 DEF ListOK, Of

(* A second passes,                                                        *)
LEMMA SecondStep ==
  ASSUME MqInv, Second
  PROVE  MqInv'
<1>1. TablesOK'
  <2>1. now \in Nat /\ now' = now + 1 /\ now < MaxSeconds /\ MaxSeconds \in Nat
    BY QueriesAssumption DEF MqInv, TablesOK, Second
  <2>2. now' \in 0..MaxSeconds
    BY <2>1
  <2>3. \A r \in MessageRow \cup EvidenceRow : r.at <= now => r.at <= now'
    <3> SUFFICES ASSUME NEW r \in MessageRow \cup EvidenceRow, r.at <= now PROVE r.at <= now'
      OBVIOUS
    <3>1. r.at \in Nat
      BY <2>1 DEF MessageRow, EvidenceRow
    <3> QED BY <2>1, <3>1
  <2> QED BY <2>2, <2>3 DEF MqInv, Second, TablesOK
<1>2. TailOK'
  BY DEF MqInv, Second, TailOK
<1> QED BY <1>1, <1>2, ListAlone DEF MqInv, Second

(* What the message commands leave in their table.                         *)
LEMMA MessagesStep ==
  ASSUME MqInv, UNCHANGED <<now, tail, evidence, list>>,
         messages' \in SUBSET MessageRow, IsFiniteSet(messages'), \A r \in messages' : r.at <= now
  PROVE  MqInv'
<1>1. TablesOK'
  BY DEF MqInv, TablesOK
<1>2. TailOK'
  BY DEF MqInv, TailOK
<1> QED BY <1>1, <1>2, ListAlone DEF MqInv

(* one is written,                                                         *)
LEMMA WriteMessageStep ==
  ASSUME MqInv, NEW id \in MessageId, NEW chan \in Chans, WriteMessage(id, chan)
  PROVE  MqInv'
<1> DEFINE new == [id |-> id, chan |-> chan, at |-> now, text |-> "first"]
           kept == {r \in messages : r.id # id}
<1>1. new \in MessageRow /\ new.at = now /\ now \in Nat
  BY DEF MqInv, TablesOK, MessageRow
<1>2. kept \in SUBSET messages
  OBVIOUS
<1>3. messages' = kept \cup {new}
  BY DEF WriteMessage
<1> HIDE DEF new, kept
<1>4. IsFiniteSet(kept)
  BY <1>2, FS_Subset DEF MqInv, TablesOK
<1>5. IsFiniteSet(kept \cup {new})
  BY <1>4, FS_AddElement
<1>6. messages' \in SUBSET MessageRow /\ \A r \in messages' : r.at <= now
  BY <1>1, <1>2, <1>3 DEF MqInv, TablesOK
<1> QED BY <1>3, <1>5, <1>6, MessagesStep DEF WriteMessage

(* rewritten,                                                              *)
LEMMA UpdateMessageStep ==
  ASSUME MqInv, NEW id \in MessageId, UpdateMessage(id)
  PROVE  MqInv'
<1> DEFINE g == [r \in messages |-> Rewritten(r, id)]
           T == {Rewritten(r, id) : r \in messages}
<1>1. messages' = T
  BY DEF UpdateMessage
<1>2. \A r \in MessageRow : /\ Rewritten(r, id) \in MessageRow
                            /\ Rewritten(r, id).at = r.at
  <2> SUFFICES ASSUME NEW r \in MessageRow
               PROVE  Rewritten(r, id) \in MessageRow /\ Rewritten(r, id).at = r.at
    OBVIOUS
  <2>1. [r EXCEPT !.text = "second"] \in MessageRow /\ [r EXCEPT !.text = "second"].at = r.at
    BY DEF MessageRow
  <2> QED BY <2>1 DEF Rewritten
<1>3. messages \in SUBSET MessageRow /\ IsFiniteSet(messages) /\ \A r \in messages : r.at <= now
  BY DEF MqInv, TablesOK
<1>4. T \in SUBSET MessageRow /\ \A r \in T : r.at <= now
  BY <1>2, <1>3
<1>5. g \in Surjection(messages, T)
  BY DEF Surjection
<1> HIDE DEF g, T
<1>6. IsFiniteSet(T)
  BY <1>3, <1>5, FS_Surjection
<1> QED BY <1>1, <1>4, <1>6, MessagesStep DEF UpdateMessage

(* deleted,                                                                *)
LEMMA DeleteMessageStep ==
  ASSUME MqInv, NEW id \in MessageId, DeleteMessage(id)
  PROVE  MqInv'
<1>1. messages' \in SUBSET messages
  BY DEF DeleteMessage
<1>2. IsFiniteSet(messages')
  BY <1>1, FS_Subset DEF MqInv, TablesOK
<1>3. messages' \in SUBSET MessageRow /\ \A r \in messages' : r.at <= now
  BY <1>1 DEF MqInv, TablesOK
<1> QED BY <1>2, <1>3, MessagesStep DEF DeleteMessage

(* or all of them;                                                         *)
LEMMA ClearMessagesStep ==
  ASSUME MqInv, ClearMessages
  PROVE  MqInv'
BY FS_EmptySet, MessagesStep DEF ClearMessages

(* a tail is printed: the newest of its channel, turned round.             *)
LEMMA PrintTailStep ==
  ASSUME MqInv, NEW chan \in Chans, NEW n \in TailCounts, PrintTail(chan, n)
  PROVE  MqInv'
<1> DEFINE X == {r \in messages : r.chan = chan}
<1>1. PICK s \in Ordered(X, n, TRUE) :
         tail' = [chan |-> chan, rows |-> Backwards(s), table |-> messages, count |-> n]
  BY DEF PrintTail, Recent
<1>2. IsFiniteSet(X) /\ n \in Nat
  <2>1. X \in SUBSET messages
    OBVIOUS
  <2> HIDE DEF X
  <2> QED BY <2>1, QueriesAssumption, FS_Subset DEF MqInv, TablesOK
<1> HIDE DEF X
<1>3. s \in Seq(X)
  BY <1>2, QueryResult
<1>4. Backwards(Backwards(s)) \in Ordered(X, n, TRUE)
  BY <1>3, BackwardsTwice
<1>5. /\ tail'.rows = Backwards(s) /\ tail'.count = n
      /\ {r \in tail'.table : r.chan = tail'.chan} = X
  BY <1>1 DEF X
<1>6. TailOK'
  BY <1>4, <1>5 DEF TailOK
<1>7. TablesOK'
  BY DEF MqInv, TablesOK, PrintTail
<1> QED BY <1>6, <1>7, ListAlone DEF MqInv, PrintTail

(* The evidence the hub's writer adds to the table.                        *)
LEMMA SubmitStep ==
  ASSUME MqInv, NEW id \in EvidenceId, NEW task \in TaskId, Submit(id, task)
  PROVE  MqInv'
<1> DEFINE new == [id |-> id, task |-> task, at |-> now, status |-> "pending"]
<1>1. new \in EvidenceRow /\ new.at = now /\ new.status = "pending" /\ now \in Nat
  BY DEF MqInv, TablesOK, EvidenceRow, Statuses
<1>2. evidence' = evidence \cup {new} /\ UNCHANGED <<now, messages, tail, list>>
  BY DEF Submit
<1> HIDE DEF new
<1>3. IsFiniteSet(evidence \cup {new})
  BY FS_AddElement DEF MqInv, TablesOK
<1>4. TablesOK'
  BY <1>1, <1>2, <1>3 DEF MqInv, TablesOK
<1>5. TailOK'
  BY <1>2 DEF MqInv, TailOK
<1>6. \A v \in Verdicts : Of(evidence', v) = Of(evidence, v)
  BY <1>1, <1>2 DEF Of, Verdicts
<1>7. Wanted' = Wanted /\ list' = list
  BY <1>2 DEF Wanted
<1>8. ListOK'
  BY <1>6, <1>7 DEF MqInv, ListOK
<1> QED BY <1>4, <1>5, <1>8 DEF MqInv

(* A verdict between the queries of a listing ends what is said of it.     *)
LEMMA JudgeStep ==
  ASSUME MqInv, NEW id \in EvidenceId, NEW status \in Verdicts, list.step # "shown", Judge(id, status)
  PROVE  MqInv'
<1> DEFINE g == [r \in evidence |-> Judged(r, id, status)]
           T == {Judged(r, id, status) : r \in evidence}
           calm == list.calm /\ list.step = "idle"
<1>1. evidence' = T /\ list' = [list EXCEPT !.calm = calm] /\ UNCHANGED <<now, messages, tail>>
  BY DEF Judge
<1>2. \A r \in EvidenceRow : /\ Judged(r, id, status) \in EvidenceRow
                             /\ Judged(r, id, status).at = r.at
  <2> SUFFICES ASSUME NEW r \in EvidenceRow
               PROVE  Judged(r, id, status) \in EvidenceRow /\ Judged(r, id, status).at = r.at
    OBVIOUS
  <2>1. [r EXCEPT !.status = status] \in EvidenceRow /\ [r EXCEPT !.status = status].at = r.at
    BY DEF EvidenceRow, Statuses
  <2> QED BY <2>1 DEF Judged
<1>3. evidence \in SUBSET EvidenceRow /\ IsFiniteSet(evidence) /\ \A r \in evidence : r.at <= now
  BY DEF MqInv, TablesOK
<1>4. T \in SUBSET EvidenceRow /\ \A r \in T : r.at <= now
  BY <1>2, <1>3
<1>5. g \in Surjection(evidence, T)
  BY DEF Surjection
<1> HIDE DEF g, T
<1>6. IsFiniteSet(T)
  BY <1>3, <1>5, FS_Surjection
<1>7. TablesOK'
  BY <1>1, <1>4, <1>6 DEF MqInv, TablesOK
<1>8. TailOK'
  BY <1>1 DEF MqInv, TailOK
<1>9. list \in ListType /\ IsFiniteSet(list.table)
  BY DEF MqInv, ListOK
<1>10. /\ list' \in ListType /\ list'.table = list.table /\ list'.step = list.step
       /\ list'.task = list.task /\ list'.status = list.status /\ list'.calm = calm
  <2>1. calm \in BOOLEAN
    OBVIOUS
  <2> HIDE DEF calm
  <2> QED BY <1>1, <1>9, <2>1 DEF ListType
<1>11. list.step = "idle" => list' = NoList
  <2> SUFFICES ASSUME list.step = "idle" PROVE list' = NoList
    OBVIOUS
  <2>1. list = NoList
    BY DEF MqInv, ListOK
  <2>2. calm = TRUE
    BY <2>1 DEF NoList
  <2>3. [NoList EXCEPT !.calm = TRUE] = NoList
    BY IdleList DEF ListType
  <2> QED BY <1>1, <2>1, <2>2, <2>3
<1>12. list.step # "idle" => calm = FALSE
  OBVIOUS
<1>13. ListOK'
  <2>1. list \in ListType /\ IsFiniteSet(list'.table)
    BY <1>9, <1>10
  <2>2. /\ list'.step = "idle" => list' = NoList
        /\ list'.step \in {"verified", "failed"} => list'.task = "" /\ list'.status = "all"
    BY <1>10, <1>11 DEF MqInv, ListOK
  <2>3. list'.step \in {"verified", "failed", "shown"} => ~list'.calm
    BY <1>10, <1>12
  <2> HIDE DEF calm
  <2> QED BY <1>10, <2>1, <2>2, <2>3 DEF ListOK
<1> QED BY <1>7, <1>8, <1>13 DEF MqInv

(* A listing of one query, or the first of three,                          *)
LEMMA ListStep ==
  ASSUME MqInv, NEW task \in TaskId \cup {""}, NEW status \in Statuses \cup {"all"}, NEW n \in Counts,
         List(task, status, n)
  PROVE  MqInv'
<1>1. UNCHANGED <<now, messages, tail, evidence>> /\ n \in Nat /\ MaxSeconds \in Nat
  BY QueriesAssumption DEF List
<1>2. evidence \in SUBSET EvidenceRow /\ IsFiniteSet(evidence) /\ \A r \in evidence : r.at \in Nat
  BY <1>1, PartOfTable DEF MqInv, TablesOK
<1>3. TablesOK' /\ TailOK'
  BY <1>1 DEF MqInv, TablesOK, TailOK
<1> DEFINE asked == [NoList EXCEPT !.task = task, !.status = status, !.count = n,
                                   !.table = evidence, !.step = "shown"]
<1>4. /\ asked \in ListType /\ asked.task = task /\ asked.status = status /\ asked.count = n
      /\ asked.table = evidence /\ asked.step = "shown"
  BY <1>1, <1>2, IdleList DEF ListType
<1>5. IF task # ""
      THEN \E s \in ByTask(task) : list' = [asked EXCEPT !.rows = Take(Matching(s, status), n)]
      ELSE IF status # "all"
      THEN \E s \in ByStatus(status, n) : list' = [asked EXCEPT !.rows = s]
      ELSE \E s \in ByStatus("pending", n) : list' = [asked EXCEPT !.rows = s, !.step = "verified"]
  BY DEF List
<1> HIDE DEF asked
<1>6. ASSUME NEW rows \in Seq(EvidenceRow), list' = [asked EXCEPT !.rows = rows]
      PROVE  /\ list' \in ListType /\ IsFiniteSet(list'.table) /\ list'.step = "shown" /\ list'.task = task
             /\ list'.status = status /\ list'.count = n /\ list'.rows = rows /\ list'.table = evidence
  BY <1>2, <1>4, <1>6 DEF ListType
<1>7. ASSUME NEW rows \in Seq(EvidenceRow), list' = [asked EXCEPT !.rows = rows, !.step = "verified"]
      PROVE  /\ list' \in ListType /\ IsFiniteSet(list'.table) /\ list'.step = "verified" /\ list'.task = task
             /\ list'.status = status /\ list'.count = n /\ list'.rows = rows /\ list'.table = evidence
  BY <1>2, <1>4, <1>7 DEF ListType
<1>8. CASE task # ""
  <2>1. PICK s \in ByTask(task) :
           list' = [asked EXCEPT !.rows = Take(Matching(s, status), n)]
    BY <1>8, <1>5
  <2> DEFINE rows == Take(Matching(s, status), n)
  <2>2. s \in Ordered(OfTask(evidence, task), Cardinality(evidence), FALSE)
    BY <2>1 DEF ByTask, OfTask
  <2>8. rows \in Ordered(OfBoth(evidence, task, status), n, FALSE)
    BY <1>1, <1>2, <2>2, TaskListing
  <2> HIDE DEF rows
  <2>3. OfBoth(evidence, task, status) \in SUBSET evidence
    BY DEF OfBoth
  <2>4. rows \in Seq(EvidenceRow)
    BY <1>1, <1>2, <2>8, <2>3, QueryRows
  <2>5. /\ list' \in ListType /\ IsFiniteSet(list'.table) /\ list'.step = "shown" /\ list'.task = task
        /\ list'.status = status /\ list'.count = n /\ list'.rows = rows /\ list'.table = evidence
    BY <1>6, <2>1, <2>4 DEF rows
  <2>6. Wanted' = OfBoth(evidence, task, status)
    BY <1>8, <2>5 DEF Wanted, OfBoth
  <2>7. ListOK'
    BY <2>8, <2>5, <2>6 DEF ListOK
  <2> QED BY <1>3, <2>7 DEF MqInv
<1>9. CASE task = "" /\ status # "all"
  <2>1. PICK s \in ByStatus(status, n) : list' = [asked EXCEPT !.rows = s]
    BY <1>9, <1>5
  <2>2. s \in Ordered(Of(evidence, status), n, FALSE) /\ Of(evidence, status) \in SUBSET evidence
    BY <2>1 DEF ByStatus, Of
  <2>3. s \in Seq(EvidenceRow)
    BY <1>1, <1>2, <2>2, QueryRows
  <2>4. /\ list' \in ListType /\ IsFiniteSet(list'.table) /\ list'.step = "shown" /\ list'.task = task
        /\ list'.status = status /\ list'.count = n /\ list'.rows = s /\ list'.table = evidence
    BY <1>6, <2>1, <2>3
  <2>5. Wanted' = Of(evidence, status)
    BY <1>9, <2>4 DEF Wanted, Of
  <2>6. ListOK'
    BY <2>2, <2>4, <2>5 DEF ListOK
  <2> QED BY <1>3, <2>6 DEF MqInv
<1>10. CASE task = "" /\ status = "all"
  <2>1. PICK s \in ByStatus("pending", n) : list' = [asked EXCEPT !.rows = s, !.step = "verified"]
    BY <1>10, <1>5
  <2>2. s \in Ordered(Of(evidence, "pending"), n, FALSE) /\ Of(evidence, "pending") \in SUBSET evidence
    BY <2>1 DEF ByStatus, Of
  <2>3. s \in Seq(EvidenceRow)
    BY <1>1, <1>2, <2>2, QueryRows
  <2>4. /\ list' \in ListType /\ IsFiniteSet(list'.table) /\ list'.step = "verified" /\ list'.task = task
        /\ list'.status = status /\ list'.count = n /\ list'.rows = s /\ list'.table = evidence
    BY <1>7, <2>1, <2>3
  <2>5. evidence' = evidence
    BY <1>1
  <2>6. ListOK'
    BY <1>10, <2>2, <2>4, <2>5 DEF ListOK
  <2> QED BY <1>3, <2>6 DEF MqInv
<1> QED BY <1>8, <1>9, <1>10

(* the second,                                                             *)
LEMMA ListVerifiedStep ==
  ASSUME MqInv, ListVerified
  PROVE  MqInv'
<1>1. /\ UNCHANGED <<now, messages, tail, evidence>> /\ MaxSeconds \in Nat
      /\ list \in ListType /\ list.step = "verified" /\ list.count \in Nat /\ list.rows \in Seq(EvidenceRow)
      /\ IsFiniteSet(list.table) /\ list.task = "" /\ list.status = "all"
  BY QueriesAssumption DEF ListVerified, MqInv, ListOK, ListType
<1>2. evidence \in SUBSET EvidenceRow /\ IsFiniteSet(evidence)
  BY DEF MqInv, TablesOK
<1>3. TablesOK' /\ TailOK'
  BY <1>1 DEF MqInv, TablesOK, TailOK
<1>4. PICK s \in Ordered(Of(evidence, "verified"), list.count, FALSE) :
         list' = [list EXCEPT !.rows = list.rows \o s, !.step = "failed"]
  BY DEF ListVerified, ByStatus, Of
<1>5. Of(evidence, "verified") \in SUBSET evidence
  BY DEF Of
<1>6. s \in Seq(EvidenceRow)
  BY <1>1, <1>2, <1>4, <1>5, QueryRows
<1>7. /\ list' \in ListType /\ list'.step = "failed" /\ list'.task = list.task /\ list'.status = list.status
      /\ list'.count = list.count /\ list'.rows = list.rows \o s /\ list'.table = list.table
      /\ list'.calm = list.calm
  <2>1. list.rows \o s \in Seq(EvidenceRow)
    BY <1>1, <1>6, ConcatProperties
  <2> QED BY <1>1, <1>4, <2>1 DEF ListType
<1>8. ASSUME list.calm
      PROVE  /\ \A v \in Verdicts : Of(evidence, v) = Of(list.table, v)
             /\ list.rows \in Ordered(Of(list.table, "pending"), list.count, FALSE)
             /\ s \in Ordered(Of(list.table, "verified"), list.count, FALSE)
  BY <1>1, <1>4, <1>8 DEF MqInv, ListOK, Verdicts
<1>9. ListOK'
  <2>1. evidence' = evidence
    BY <1>1
  <2> QED BY <1>1, <1>7, <1>8, <2>1 DEF ListOK
<1> QED BY <1>3, <1>9 DEF MqInv

(* and the third, after which the three are put together.                  *)
LEMMA ListFailedStep ==
  ASSUME MqInv, ListFailed
  PROVE  MqInv'
<1>1. /\ UNCHANGED <<now, messages, tail, evidence>> /\ MaxSeconds \in Nat
      /\ list \in ListType /\ list.step = "failed" /\ list.count \in Nat /\ list.rows \in Seq(EvidenceRow)
      /\ list.table \in SUBSET EvidenceRow /\ IsFiniteSet(list.table) /\ list.task = "" /\ list.status = "all"
  BY QueriesAssumption DEF ListFailed, MqInv, ListOK, ListType
<1>2. evidence \in SUBSET EvidenceRow /\ IsFiniteSet(evidence)
  BY DEF MqInv, TablesOK
<1>3. TablesOK' /\ TailOK'
  BY <1>1 DEF MqInv, TablesOK, TailOK
<1>4. PICK c \in Ordered(Of(evidence, "failed"), list.count, FALSE) :
         list' = [list EXCEPT !.rows = Union(list.rows \o c, list.count), !.step = "shown"]
  BY DEF ListFailed, ByStatus, Of
<1>5. Of(evidence, "failed") \in SUBSET evidence
  BY DEF Of
<1>6. c \in Seq(EvidenceRow)
  BY <1>1, <1>2, <1>4, <1>5, QueryRows
<1> DEFINE rows == Union(list.rows \o c, list.count)
<1>7. rows \in Seq(EvidenceRow)
  <2>1. list.rows \o c \in Seq(EvidenceRow)
    BY <1>1, <1>6, ConcatProperties
  <2>2. \A r \in EvidenceRow : r.at \in Nat
    BY QueriesAssumption DEF EvidenceRow
  <2> QED BY <1>1, <2>1, <2>2, UnionKeeps
<1>8. list' = [list EXCEPT !.rows = rows, !.step = "shown"]
  BY <1>4
<1>9. ASSUME list.calm
      PROVE  rows \in Ordered(list.table, list.count, FALSE)
  <2> DEFINE A == Of(list.table, "pending")
             B == Of(list.table, "verified")
             C == Of(list.table, "failed")
  <2>1. PICK a \in Ordered(A, list.count, FALSE), b \in Ordered(B, list.count, FALSE) : list.rows = a \o b
    BY <1>1, <1>9 DEF MqInv, ListOK
  <2>2. c \in Ordered(C, list.count, FALSE)
    BY <1>1, <1>4, <1>9 DEF MqInv, ListOK, Verdicts
  <2>3. A \in SUBSET list.table /\ B \in SUBSET list.table /\ C \in SUBSET list.table
    BY DEF Of
  <2>4. A \cap B = {} /\ (A \cup B) \cap C = {} /\ (A \cup B) \cup C = list.table
    <3>1. \A r \in list.table : r.status \in {"pending", "verified", "failed"}
      BY <1>1 DEF EvidenceRow, Statuses, Verdicts
    <3> QED BY <3>1 DEF Of
  <2> HIDE DEF A, B, C, rows
  <2>5. IsFiniteSet(A) /\ IsFiniteSet(B) /\ IsFiniteSet(C) /\ \A r \in list.table : r.at \in Nat
    <3>1. /\ list.table \in SUBSET EvidenceRow /\ IsFiniteSet(list.table) /\ MaxSeconds \in Nat
          /\ list.table \in SUBSET list.table
      BY <1>1
    <3>2. \A r \in list.table : r.at \in Nat
      BY <3>1, PartOfTable
    <3> QED BY <2>3, <3>1, <3>2, FS_Subset
  <2>6. Union((a \o b) \o c, list.count) \in Ordered((A \cup B) \cup C, list.count, FALSE)
    BY <1>1, <2>1, <2>2, <2>4, <2>5, UnionOfQueries
  <2> QED BY <2>1, <2>4, <2>6 DEF rows
<1> HIDE DEF rows
<1>10. /\ list' \in ListType /\ list'.step = "shown" /\ list'.task = list.task /\ list'.status = list.status
       /\ list'.count = list.count /\ list'.rows = rows /\ list'.table = list.table
       /\ list'.calm = list.calm
  BY <1>1, <1>7, <1>8 DEF ListType
<1>11. Wanted' = list.table
  BY <1>1, <1>10 DEF Wanted
<1>12. ListOK'
  BY <1>1, <1>9, <1>10, <1>11 DEF ListOK
<1> QED BY <1>3, <1>12 DEF MqInv

(* Every step preserves the invariant.                                     *)
LEMMA MqInvStep == MqInv /\ [MqNext]_mqvars => MqInv'
<1> SUFFICES ASSUME MqInv, [MqNext]_mqvars PROVE MqInv'
  OBVIOUS
<1>1. CASE UNCHANGED mqvars
  BY <1>1, ListAlone DEF mqvars, MqInv, TablesOK, TailOK
<1>2. CASE MessageStep
  <2>1. CASE Second
    BY <2>1, SecondStep
  <2>2. CASE ClearMessages
    BY <2>2, ClearMessagesStep
  <2>3. ASSUME NEW id \in MessageId, NEW c \in Chans, WriteMessage(id, c) PROVE MqInv'
    BY <2>3, WriteMessageStep
  <2>4. ASSUME NEW id \in MessageId, UpdateMessage(id) PROVE MqInv'
    BY <2>4, UpdateMessageStep
  <2>5. ASSUME NEW id \in MessageId, DeleteMessage(id) PROVE MqInv'
    BY <2>5, DeleteMessageStep
  <2>6. ASSUME NEW c \in Chans, NEW n \in TailCounts, PrintTail(c, n) PROVE MqInv'
    BY <2>6, PrintTailStep
  <2> QED BY <1>2, <2>1, <2>2, <2>3, <2>4, <2>5, <2>6 DEF MessageStep
<1>3. CASE EvidenceStep
  <2>1. CASE Second
    BY <2>1, SecondStep
  <2>2. CASE ListVerified
    BY <2>2, ListVerifiedStep
  <2>3. CASE ListFailed
    BY <2>3, ListFailedStep
  <2>4. ASSUME NEW id \in EvidenceId, NEW t \in TaskId, Submit(id, t) PROVE MqInv'
    BY <2>4, SubmitStep
  <2>5. ASSUME NEW id \in EvidenceId, NEW v \in Verdicts, Judge(id, v) PROVE MqInv'
    BY <1>3, <2>5, JudgeStep DEF EvidenceStep
  <2>6. ASSUME NEW t \in TaskId \cup {""}, NEW s \in Statuses \cup {"all"}, NEW n \in Counts, List(t, s, n)
        PROVE  MqInv'
    BY <2>6, ListStep
  <2> QED BY <1>3, <2>1, <2>2, <2>3, <2>4, <2>5, <2>6 DEF EvidenceStep
<1> QED BY <1>1, <1>2, <1>3 DEF MqNext

(* The invariant holds of every behaviour.                                 *)
THEOREM MqInvCorrect == MqSpec => []MqInv
BY MqInitInv, MqInvStep, PTL DEF MqSpec

(* The tables keep rows of their own kind, and no row is dated after the   *)
(* clock, whatever is written, rewritten, judged and read in between       *)
(* (sqlite.rs:150-302, 359-462).                                           *)
THEOREM QueriesTypeCorrect == MqSpec => []QueriesTypeOK
<1>1. MqInv => QueriesTypeOK
  <2> SUFFICES ASSUME MqInv PROVE QueriesTypeOK
    OBVIOUS
  <2>1. now \in 0..MaxSeconds /\ now \in Nat
    BY QueriesAssumption DEF MqInv, TablesOK
  <2>2. \A r \in messages : r.id \in MessageId /\ r.chan \in Chans /\ r.at \in 0..now
    <3> SUFFICES ASSUME NEW r \in messages PROVE r.id \in MessageId /\ r.chan \in Chans /\ r.at \in 0..now
      OBVIOUS
    <3>1. r \in MessageRow /\ r.at <= now
      BY DEF MqInv, TablesOK
    <3>2. r.at \in 0..MaxSeconds /\ r.id \in MessageId /\ r.chan \in Chans
      BY <3>1 DEF MessageRow
    <3> QED BY <2>1, <3>1, <3>2
  <2>3. \A r \in evidence : r.id \in EvidenceId /\ r.status \in Statuses /\ r.at \in 0..now
    <3> SUFFICES ASSUME NEW r \in evidence PROVE r.id \in EvidenceId /\ r.status \in Statuses /\ r.at \in 0..now
      OBVIOUS
    <3>1. r \in EvidenceRow /\ r.at <= now
      BY DEF MqInv, TablesOK
    <3>2. r.at \in 0..MaxSeconds /\ r.id \in EvidenceId /\ r.status \in Statuses
      BY <3>1 DEF EvidenceRow
    <3> QED BY <2>1, <3>1, <3>2
  <2> QED BY <2>1, <2>2, <2>3 DEF QueriesTypeOK
<1> QED BY <1>1, MqInvCorrect, PTL

(* What `crow memory evidence` and `crow memory tail` print is what they   *)
(* say: the three partial queries of a listing of every status lose none   *)
(* of the oldest rows, and repeat none, as long as no verdict falls        *)
(* between them; the tail is the newest of its channel in order of time    *)
(* (main.rs:716-904).                                                      *)
THEOREM ListingsCorrect == MqSpec => []ListingsInOrder
<1>1. MqInv => ListingsInOrder
  BY DEF MqInv, ListOK, TailOK, ListingsInOrder
<1> QED BY <1>1, MqInvCorrect, PTL

-----------------------------------------------------------------------------
(* The terminal, for any number of agents, keys and responses.             *)

(* What responses, lines and tasks are.                                    *)
Chunk == [by : Agent, kind : {"text"}, n : 1..MaxChunks]
Answer == [by : Agent, kind : {"text", "handoff"}, n : 1..MaxChunks]
ChatLine == [by : Writer, parts : Seq(Chunk)]
TaskKind == {"TaskRequest", "Handoff", "Evidence", "EvidenceVerify", "WorkflowClaim",
             "WorkflowUpdate"}
TaskRow == {t \in [kind : TaskKind, to : 0..NAgents] : t.kind = "TaskRequest" <=> t.to \in Agent}

(* The selection is a place there is.                                      *)
TuiPlace ==
  /\ tab \in TabName /\ focus \in Panel /\ overlay \in BOOLEAN
  /\ scopeAll \in BOOLEAN /\ quit \in BOOLEAN
  /\ input \in Command \cup {"", "prompt"}

(* The counters are within their bounds, and the scroll offset within the  *)
(* keys pressed.                                                           *)
TuiCounts ==
  /\ cursor \in Agent \/ (NAgents = 0 /\ cursor = 0)
  /\ multi \in SUBSET Agent
  /\ keys \in 0..MaxKeys /\ chunks \in 0..MaxChunks
  /\ chatScroll \in 0..keys

(* The tasks are of the kinds the commands send.                           *)
TuiTasks == tasks \in Seq(TaskRow)

(* What the log has of an agent is what the ticks have taken from the      *)
(* queue of it.                                                            *)
TuiChat ==
  /\ responses \in Seq(Answer)
  /\ lines \in Seq(ChatLine)
  /\ heard \in [Agent -> Seq(Chunk)]
  /\ \A a \in Agent : Said(lines, a) = heard[a]

(* The inductive invariant.                                                *)
TuiInv == TuiPlace /\ TuiCounts /\ TuiTasks /\ TuiChat

(* The bounds are numbers.                                                 *)
LEMMA Bounds ==
  NAgents \in Nat /\ MaxKeys \in Nat /\ MaxChunks \in Nat
BY TerminalAssumption

(* The writers that are no agents.                                         *)
LEMMA Speakers ==
  /\ Agent = 0..(NAgents - 1) /\ Agent \subseteq Nat /\ Agent \subseteq Writer
  /\ You \in Writer \ Agent /\ Glyph \in Writer \ Agent /\ Feedback \in Writer \ Agent
BY Bounds DEF Agent, Writer, You, Glyph, Feedback

(* What Append and concatenation do.                                       *)
LEMMA SeqFacts ==
  ASSUME NEW S
  PROVE  /\ <<>> \in Seq(S)
         /\ \A s \in Seq(S) : s \o <<>> = s
         /\ \A s \in Seq(S), x \in S : /\ <<x>> \in Seq(S) /\ Append(s, x) \in Seq(S)
                                       /\ s \o <<x>> = Append(s, x)
         /\ \A s, t \in Seq(S), x \in S : /\ s \o t \in Seq(S)
                                          /\ s \o Append(t, x) = (s \o t) \o <<x>>
         /\ \A s, t, u \in Seq(S) : s \o (t \o u) = (s \o t) \o u
<1>1. <<>> \in Seq(S)
  OBVIOUS
<1>2. \A s \in Seq(S) : s \o <<>> = s
  BY ConcatEmptySeq
<1>3. \A s \in Seq(S), x \in S : /\ <<x>> \in Seq(S) /\ Append(s, x) \in Seq(S)
                                 /\ s \o <<x>> = Append(s, x)
  <2> TAKE s \in Seq(S), x \in S
  <2> QED OBVIOUS
<1>4. \A s, t \in Seq(S), x \in S : /\ s \o t \in Seq(S)
                                    /\ s \o Append(t, x) = (s \o t) \o <<x>>
  <2> TAKE s, t \in Seq(S), x \in S
  <2> QED OBVIOUS
<1>5. \A s, t, u \in Seq(S) : s \o (t \o u) = (s \o t) \o u
  <2> TAKE s, t, u \in Seq(S)
  <2> QED OBVIOUS
<1> QED BY <1>1, <1>2, <1>3, <1>4, <1>5

(* What a line holds of an agent.                                          *)
Part(a) == [l \in ChatLine |-> IF l.by = a THEN l.parts ELSE <<>>]

(* What an agent has said, as parts put together.                          *)
LEMMA SaidFlat ==
  ASSUME NEW a \in Agent
  PROVE  /\ Feeds(Part(a), ChatLine, Chunk)
         /\ \A log \in Seq(ChatLine) : Said(log, a) = Flat(Part(a), log)
<1>1. Part(a) \in [ChatLine -> Seq(Chunk)]
  <2>1. \A l \in ChatLine : (IF l.by = a THEN l.parts ELSE <<>>) \in Seq(Chunk)
    BY SeqFacts DEF ChatLine
  <2> QED BY <2>1 DEF Part
<1>2. ASSUME NEW log \in Seq(ChatLine) PROVE Said(log, a) = Flat(Part(a), log)
  <2>1. \A i \in DOMAIN log : Part(a)[log[i]] = IF log[i].by = a THEN log[i].parts ELSE <<>>
    <3>1. \A i \in DOMAIN log : log[i] \in ChatLine
      OBVIOUS
    <3> QED BY <3>1 DEF Part
  <2>2. [i \in DOMAIN log |-> Part(a)[log[i]]]
          = [i \in DOMAIN log |-> IF log[i].by = a THEN log[i].parts ELSE <<>>]
    BY <2>1
  <2> QED BY <2>2 DEF Said, Flat
<1> QED BY <1>1, <1>2 DEF Feeds

(* A line more adds its chunks to what its writer has said.                *)
LEMMA SaidAppend ==
  ASSUME NEW a \in Agent, NEW log \in Seq(ChatLine), NEW l \in ChatLine
  PROVE  /\ Said(log, a) \in Seq(Chunk) /\ Append(log, l) \in Seq(ChatLine)
         /\ Said(Append(log, l), a) = Said(log, a) \o (IF l.by = a THEN l.parts ELSE <<>>)
<1>1. Append(log, l) \in Seq(ChatLine)
  BY AppendShape
<1>2. /\ Flat(Part(a), log) \in Seq(Chunk)
      /\ Flat(Part(a), Append(log, l)) = Flat(Part(a), log) \o Part(a)[l]
  BY SaidFlat, FlatAppend
<1>3. Part(a)[l] = IF l.by = a THEN l.parts ELSE <<>>
  BY DEF Part
<1> QED BY <1>1, <1>2, <1>3, SaidFlat

(* A line that no agent is the writer of.                                  *)
LEMMA PlainLine ==
  ASSUME NEW w \in {You, Glyph, Feedback}, NEW log \in Seq(ChatLine)
  PROVE  /\ Line(w) \in ChatLine /\ log \o <<Line(w)>> = Append(log, Line(w))
         /\ Append(log, Line(w)) \in Seq(ChatLine)
         /\ \A a \in Agent : Said(Append(log, Line(w)), a) = Said(log, a)
<1>1. w \in Writer \ Agent
  BY Speakers
<1>2. Line(w) \in ChatLine /\ Line(w).by = w
  BY <1>1, SeqFacts DEF Line, ChatLine
<1>3. log \o <<Line(w)>> = Append(log, Line(w)) /\ Append(log, Line(w)) \in Seq(ChatLine)
  BY <1>2, SeqFacts
<1>4. ASSUME NEW a \in Agent PROVE Said(Append(log, Line(w)), a) = Said(log, a)
  <2>1. /\ Said(log, a) \in Seq(Chunk)
        /\ Said(Append(log, Line(w)), a)
             = Said(log, a) \o (IF Line(w).by = a THEN Line(w).parts ELSE <<>>)
    BY <1>2, SaidAppend
  <2>2. Line(w).by # a
    BY <1>1, <1>2
  <2> QED BY <2>1, <2>2, SeqFacts
<1> QED BY <1>2, <1>3, <1>4

(* An empty log says nothing.                                              *)
LEMMA NothingSaid ==
  /\ <<>> \in Seq(ChatLine)
  /\ \A a \in Agent : Said(<<>>, a) = <<>>
<1>1. <<>> \in Seq(ChatLine)
  OBVIOUS
<1> QED BY <1>1, SaidFlat, FlatEmpty

(* One answer: it goes to its sender, and the rest stays as it is.         *)
TextOf(r, a) == IF r.by = a /\ r.kind = "text" THEN <<r>> ELSE <<>>

(* append_chat adds the text of a response to what its agent said and to   *)
(* nobody else's.                                                          *)
LEMMA AppendChatSaid ==
  ASSUME NEW log \in Seq(ChatLine), NEW r \in Answer
  PROVE  /\ AppendChat(log, r) \in Seq(ChatLine)
         /\ \A a \in Agent : Said(AppendChat(log, r), a) = Said(log, a) \o TextOf(r, a)
<1>1. r.by \in Agent /\ r.by \in Writer /\ (r.kind = "text" \/ r.kind = "handoff")
  BY Speakers DEF Answer
<1>2. r.kind = "text" => r \in Chunk
  BY DEF Answer, Chunk
<1>3. CASE r.kind = "handoff"
  <2>1. AppendChat(log, r) = Append(log, Line(Glyph))
    BY <1>3 DEF AppendChat
  <2>2. ASSUME NEW a \in Agent PROVE Said(log, a) \o TextOf(r, a) = Said(log, a)
    <3>1. TextOf(r, a) = <<>> /\ Said(log, a) \in Seq(Chunk)
      <4>1. Line(Glyph) \in ChatLine
        BY PlainLine
      <4> QED BY <1>3, <4>1, SaidAppend DEF TextOf
    <3> QED BY <3>1, SeqFacts
  <2> QED BY <2>1, <2>2, PlainLine
<1>4. CASE r.kind # "handoff" /\ ~(log # <<>> /\ Last(log).by = r.by)
  <2> DEFINE l == [by |-> r.by, parts |-> <<r>>]
  <2>1. r \in Chunk /\ r.kind = "text"
    BY <1>1, <1>2, <1>4
  <2>2. l \in ChatLine /\ l.by = r.by /\ l.parts = <<r>>
    BY <1>1, <2>1, SeqFacts DEF ChatLine
  <2>3. AppendChat(log, r) = Append(log, l)
    BY <1>4 DEF AppendChat
  <2> HIDE DEF l
  <2>4. ASSUME NEW a \in Agent PROVE Said(Append(log, l), a) = Said(log, a) \o TextOf(r, a)
    <3>1. Said(Append(log, l), a) = Said(log, a) \o (IF l.by = a THEN l.parts ELSE <<>>)
      BY <2>2, SaidAppend
    <3>2. TextOf(r, a) = IF l.by = a THEN l.parts ELSE <<>>
      BY <2>1, <2>2 DEF TextOf
    <3> QED BY <3>1, <3>2
  <2>5. Append(log, l) \in Seq(ChatLine)
    BY <2>2, SeqFacts
  <2> QED BY <2>3, <2>4, <2>5
<1>5. CASE r.kind # "handoff" /\ log # <<>> /\ Last(log).by = r.by
  <2>1. PICK front \in Seq(ChatLine), last \in ChatLine :
          front = Front(log) /\ last = Last(log) /\ Append(front, last) = log
    BY <1>5, FrontLast
  <2> DEFINE l == [by |-> r.by, parts |-> Append(last.parts, r)]
  <2>2. r \in Chunk /\ r.kind = "text" /\ last.parts \in Seq(Chunk) /\ last.by = r.by
    BY <1>1, <1>2, <1>5, <2>1 DEF ChatLine
  <2>3. l \in ChatLine /\ l.by = r.by /\ l.parts = Append(last.parts, r)
    BY <1>1, <2>2, SeqFacts DEF ChatLine
  <2>4. AppendChat(log, r) = Append(front, l)
    BY <1>5, <2>1 DEF AppendChat
  <2> HIDE DEF l
  <2>5. ASSUME NEW a \in Agent PROVE Said(Append(front, l), a) = Said(log, a) \o TextOf(r, a)
    <3>1. /\ Said(front, a) \in Seq(Chunk)
          /\ Said(Append(front, l), a) = Said(front, a) \o (IF l.by = a THEN l.parts ELSE <<>>)
      BY <2>3, SaidAppend
    <3>2. Said(log, a) = Said(front, a) \o (IF last.by = a THEN last.parts ELSE <<>>)
      <4>1. Said(Append(front, last), a)
              = Said(front, a) \o (IF last.by = a THEN last.parts ELSE <<>>)
        BY SaidAppend
      <4> QED BY <2>1, <4>1
    <3>3. CASE r.by = a
      <4>1. TextOf(r, a) = <<r>>
        BY <2>2, <3>3 DEF TextOf
      <4>2. Said(front, a) \o Append(last.parts, r) = (Said(front, a) \o last.parts) \o <<r>>
        BY <2>2, <3>1, SeqFacts
      <4> QED BY <2>2, <2>3, <3>1, <3>2, <3>3, <4>1, <4>2
    <3>4. CASE r.by # a
      <4>1. TextOf(r, a) = <<>>
        BY <3>4 DEF TextOf
      <4>2. Said(log, a) = Said(front, a) \o <<>> /\ Said(log, a) = Said(front, a)
        BY <2>2, <3>1, <3>2, <3>4, SeqFacts
      <4> QED BY <2>3, <3>1, <3>4, <4>1, <4>2
    <3> QED BY <3>3, <3>4
  <2>6. Append(front, l) \in Seq(ChatLine)
    BY <2>3, SeqFacts
  <2> QED BY <2>4, <2>5, <2>6
<1> QED BY <1>3, <1>4, <1>5

(* The loop of on_tick over the answers.                                   *)
Drains(g, log, rs, n) == g[0] = log /\ \A k \in 1..n : g[k] = AppendChat(g[k - 1], rs[k])

(* What the log goes through while a tick drains the responses.            *)
LEMMA DrainedLoop ==
  ASSUME NEW log \in Seq(ChatLine), NEW rs \in Seq(Answer)
  PROVE  \E g : /\ Drained(log, rs) = g[Len(rs)] /\ Drains(g, log, rs, Len(rs))
                /\ \A k \in 0..Len(rs) : g[k] \in Seq(ChatLine)
<1> DEFINE N == Len(rs)
           Q == Seq(ChatLine)
           F == [k \in 1..N |-> [x \in Q |-> AppendChat(x, rs[k])]]
           rec(g) == [n \in 0..N |-> IF n = 0 THEN log ELSE AppendChat(g[n - 1], rs[n])]
           at == CHOOSE g : g = rec(g)
<1>1. N \in Nat /\ log \in Q /\ \A k \in 1..N : rs[k] \in Answer
  OBVIOUS
<1>2. \A x \in Q, r \in Answer : AppendChat(x, r) \in Q
  BY AppendChatSaid
<1>3. Drained(log, rs) = at[N]
  BY DEF Drained
<1> HIDE DEF N, Q
<1>4. Steps(F, Q, N)
  <2>1. \A k \in 1..N : [x \in Q |-> AppendChat(x, rs[k])] \in [Q -> Q]
    BY <1>1, <1>2
  <2> QED BY <1>1, <2>1 DEF Steps
<1>5. PICK g : Looping(g, Q, log, N, F)
  <2> HIDE DEF F
  <2> QED BY <1>1, <1>4, LoopExists
<1>6. \A k \in 1..N : g[k] = AppendChat(g[k - 1], rs[k])
  <2> TAKE k \in 1..N
  <2>1. k - 1 \in 0..N
    BY <1>1
  <2> QED BY <1>5, <2>1 DEF Looping
<1>7. g = rec(g)
  BY <1>1, <1>5, <1>6 DEF Looping
<1>8. at = rec(at)
  <2> HIDE DEF rec
  <2> QED BY <1>7
<1> HIDE DEF at
<1>9. at[0] = log /\ \A k \in 1..N : at[k] = AppendChat(at[k - 1], rs[k])
  BY <1>1, <1>8
<1>10. \A k \in 0..N : at[k] \in Q
  <2>1. ASSUME NEW k \in 1..N, at[k - 1] \in Q PROVE at[k] \in Q
    BY <1>1, <1>2, <1>9, <2>1
  <2> QED BY <1>1, <1>9, <2>1, Iterated
<1> QED BY <1>3, <1>9, <1>10 DEF N, Q, Drains

(* The same responses drained lead to the same log.                        *)
LEMMA DrainsSame ==
  ASSUME NEW log, NEW rs, NEW n \in Nat, NEW g, NEW h, Drains(g, log, rs, n), Drains(h, log, rs, n)
  PROVE  g[n] = h[n]
<1> USE DEF Drains
<1> DEFINE T == {k \in 0..n : g[k] # h[k]}
<1>1. SUFFICES ASSUME T # {} PROVE FALSE
  OBVIOUS
<1>2. T \in SUBSET Nat
  OBVIOUS
<1>3. PICK m \in T : \A k \in T : m <= k
  <2> HIDE DEF T
  <2> QED BY <1>1, <1>2, Least
<1>4. m \in 1..n /\ m - 1 \in 0..n /\ ~(m <= m - 1)
  BY <1>3
<1>5. g[m - 1] = h[m - 1]
  <2>1. m - 1 \notin T
    <3> HIDE DEF T
    <3> QED BY <1>3, <1>4
  <2> QED BY <1>4, <2>1
<1> QED BY <1>3, <1>4, <1>5

(* One more answer.                                                        *)
LEMMA DrainedAppend ==
  ASSUME NEW log \in Seq(ChatLine), NEW rs \in Seq(Answer), NEW r \in Answer
  PROVE  Drained(log, Append(rs, r)) = AppendChat(Drained(log, rs), r)
<1> DEFINE more == Append(rs, r)
           n == Len(rs)
<1>1. /\ more \in Seq(Answer) /\ Len(more) = n + 1 /\ n \in Nat /\ more[n + 1] = r
      /\ \A k \in 1..n : more[k] = rs[k]
  BY AppendProperties
<1> HIDE DEF more
<1>2. PICK h : Drained(log, more) = h[Len(more)] /\ Drains(h, log, more, Len(more))
  BY <1>1, DrainedLoop
<1>3. PICK g : Drained(log, rs) = g[Len(rs)] /\ Drains(g, log, rs, Len(rs))
  BY DrainedLoop
<1>4. Drains(h, log, rs, n)
  <2>1. ASSUME NEW k \in 1..n PROVE h[k] = AppendChat(h[k - 1], rs[k])
    <3>1. k \in 1..Len(more) /\ more[k] = rs[k]
      BY <1>1
    <3> QED BY <1>2, <3>1 DEF Drains
  <2> QED BY <1>2, <2>1 DEF Drains
<1>5. h[n] = g[n]
  <2> HIDE DEF n
  <2>1. Drains(g, log, rs, n)
    BY <1>3 DEF n
  <2> QED BY <1>1, <1>4, <2>1, DrainsSame
<1>6. ASSUME NEW k \in 1..Len(more), k = n + 1 PROVE h[k] = AppendChat(h[n], r)
  <2>1. h[k] = AppendChat(h[k - 1], more[k])
    BY <1>2, Zenon DEF Drains
  <2>2. k - 1 = n
    BY <1>1, <1>6
  <2> QED BY <1>1, <1>6, <2>1, <2>2
<1>7. n + 1 \in 1..Len(more)
  BY <1>1
<1> QED BY <1>1, <1>2, <1>3, <1>5, <1>6, <1>7 DEF more

(* Nothing drained, nothing changed.                                       *)
LEMMA DrainedNothing ==
  ASSUME NEW log \in Seq(ChatLine)
  PROVE  Drained(log, <<>>) = log
<1>1. <<>> \in Seq(Answer) /\ Len(<<>>) = 0
  OBVIOUS
<1>2. PICK g : Drained(log, <<>>) = g[Len(<<>>)] /\ Drains(g, log, <<>>, Len(<<>>))
  BY <1>1, DrainedLoop
<1> QED BY <1>1, <1>2 DEF Drains

(* The texts of one agent, one answer at a time.                           *)
TextPart(a) == [r \in Answer |-> TextOf(r, a)]

(* The text of responses, as parts put together.                           *)
LEMMA TextsFlat ==
  ASSUME NEW a \in Agent
  PROVE  /\ Feeds(TextPart(a), Answer, Chunk)
         /\ \A rs \in Seq(Answer) : Texts(rs, a) = Flat(TextPart(a), rs)
<1>1. TextPart(a) \in [Answer -> Seq(Chunk)]
  <2>1. \A r \in Answer : r.kind = "text" => r \in Chunk
    BY DEF Answer, Chunk
  <2>2. \A r \in Answer : TextOf(r, a) \in Seq(Chunk)
    BY <2>1, SeqFacts DEF TextOf
  <2> QED BY <2>2 DEF TextPart
<1>2. ASSUME NEW rs \in Seq(Answer) PROVE Texts(rs, a) = Flat(TextPart(a), rs)
  <2>1. \A i \in DOMAIN rs : TextPart(a)[rs[i]] = TextOf(rs[i], a)
    <3>1. \A i \in DOMAIN rs : rs[i] \in Answer
      OBVIOUS
    <3> QED BY <3>1 DEF TextPart
  <2>2. [i \in DOMAIN rs |-> TextPart(a)[rs[i]]]
          = [i \in DOMAIN rs |-> IF rs[i].by = a /\ rs[i].kind = "text" THEN <<rs[i]>> ELSE <<>>]
    BY <2>1 DEF TextOf
  <2> QED BY <2>2 DEF Texts, Flat
<1> QED BY <1>1, <1>2 DEF Feeds

(* A response more adds its text.                                          *)
LEMMA TextsAppend ==
  ASSUME NEW a \in Agent, NEW rs \in Seq(Answer), NEW r \in Answer
  PROVE  /\ Texts(rs, a) \in Seq(Chunk) /\ TextOf(r, a) \in Seq(Chunk)
         /\ Append(rs, r) \in Seq(Answer)
         /\ Texts(Append(rs, r), a) = Texts(rs, a) \o TextOf(r, a)
<1>1. Append(rs, r) \in Seq(Answer)
  BY AppendShape
<1>2. /\ Flat(TextPart(a), rs) \in Seq(Chunk)
      /\ Flat(TextPart(a), Append(rs, r)) = Flat(TextPart(a), rs) \o TextPart(a)[r]
  BY TextsFlat, FlatAppend
<1>3. TextPart(a)[r] = TextOf(r, a) /\ TextPart(a)[r] \in Seq(Chunk)
  BY TextsFlat DEF TextPart, Feeds
<1> QED BY <1>1, <1>2, <1>3, TextsFlat

(* All the answers of a tick: each goes to its sender, in order.           *)
LEMMA DrainedSaid ==
  ASSUME NEW log \in Seq(ChatLine), NEW rs \in Seq(Answer)
  PROVE  /\ Drained(log, rs) \in Seq(ChatLine)
         /\ \A a \in Agent : /\ Texts(rs, a) \in Seq(Chunk)
                             /\ Said(Drained(log, rs), a) = Said(log, a) \o Texts(rs, a)
<1> DEFINE Good(u) == /\ Drained(log, u) \in Seq(ChatLine)
                      /\ \A a \in Agent : Said(Drained(log, u), a) = Said(log, a) \o Texts(u, a)
           T == {u \in Seq(Answer) : ~Good(u)}
<1>1. T = {}
  <2>1. SUFFICES ASSUME T # {} PROVE FALSE
    OBVIOUS
  <2>2. T \in SUBSET Seq(Answer)
    OBVIOUS
  <2>3. <<>> \in T \/ \E u \in Seq(Answer), r \in Answer : u \notin T /\ Append(u, r) \in T
    <3> HIDE DEF T
    <3> QED BY <2>1, <2>2, Shortest
  <2>4. Good(<<>>)
    <3>1. \A a \in Agent : Texts(<<>>, a) = <<>> /\ Said(log, a) \in Seq(Chunk)
      <4>1. <<>> \in Seq(Answer) /\ Line(Glyph) \in ChatLine
        BY PlainLine
      <4> QED BY <4>1, TextsFlat, FlatEmpty, SaidAppend
    <3> QED BY <3>1, DrainedNothing, SeqFacts
  <2>5. PICK u \in Seq(Answer), r \in Answer : Good(u) /\ ~Good(Append(u, r))
    <3> HIDE DEF Good
    <3> QED BY <2>3, <2>4
  <2>6. /\ AppendChat(Drained(log, u), r) \in Seq(ChatLine)
        /\ \A a \in Agent : Said(AppendChat(Drained(log, u), r), a)
                               = Said(Drained(log, u), a) \o TextOf(r, a)
    BY <2>5, AppendChatSaid
  <2>7. ASSUME NEW a \in Agent
        PROVE  Said(Drained(log, Append(u, r)), a) = Said(log, a) \o Texts(Append(u, r), a)
    <3>1. /\ Texts(u, a) \in Seq(Chunk) /\ TextOf(r, a) \in Seq(Chunk)
          /\ Texts(Append(u, r), a) = Texts(u, a) \o TextOf(r, a)
      BY TextsAppend
    <3>2. Said(log, a) \in Seq(Chunk)
      <4>1. Line(Glyph) \in ChatLine
        BY PlainLine
      <4> QED BY <4>1, SaidAppend
    <3>3. Said(log, a) \o (Texts(u, a) \o TextOf(r, a)) = (Said(log, a) \o Texts(u, a)) \o TextOf(r, a)
      <4>1. \A s, t, v \in Seq(Chunk) : s \o (t \o v) = (s \o t) \o v
        BY SeqFacts
      <4> QED BY <3>1, <3>2, <4>1, Zenon
    <3> QED BY <2>5, <2>6, <3>1, <3>3, DrainedAppend
  <2> QED BY <2>5, <2>6, <2>7, DrainedAppend
<1>2. \A a \in Agent : Texts(rs, a) \in Seq(Chunk)
  BY TextsFlat, FlatKeeps
<1> QED BY <1>1, <1>2

(* One task for each target.                                               *)
LEMMA SetSequence ==
  ASSUME NEW X, NEW S \in SUBSET X, IsFiniteSet(S)
  PROVE  SetToSeq(S) \in Seq(X)
<1>1. Cardinality(S) \in Nat /\ ExistsBijection(1..Cardinality(S), S)
  BY FS_CardinalityType
<1>2. PICK f \in [1..Cardinality(S) -> S] : IsInjective(f)
  BY <1>1 DEF ExistsBijection, Bijection, Injection, IsInjective
<1>3. SetToSeq(S) \in [1..Cardinality(S) -> S]
  BY <1>2 DEF SetToSeq
<1>4. SetToSeq(S) \in Seq(S)
  BY <1>1, <1>3
<1> QED BY <1>4, SeqMonotonic

(* The tasks a prompt sends out.                                           *)
LEMMA TargetTasks ==
  ASSUME TuiInv
  PROVE  SetToSeq({[kind |-> "TaskRequest", to |-> a] : a \in Targets}) \in Seq(TaskRow)
<1> DEFINE f == [a \in Targets |-> [kind |-> "TaskRequest", to |-> a]]
           S == {[kind |-> "TaskRequest", to |-> a] : a \in Targets}
<1>1. Targets \in SUBSET Agent
  BY DEF Targets, TuiInv, TuiCounts
<1>2. IsFiniteSet(Targets)
  <2>1. 0 \in Int /\ NAgents - 1 \in Int
    BY Bounds
  <2>2. IsFiniteSet(Agent)
    BY <2>1, FS_Interval DEF Agent
  <2> QED BY <1>1, <2>2, FS_Subset
<1>3. IsFiniteSet(S)
  <2>1. f \in Surjection(Targets, S)
    <3>1. f \in [Targets -> S] /\ \A t \in S : \E a \in Targets : f[a] = t
      OBVIOUS
    <3> HIDE DEF f, S
    <3> QED BY <3>1, Fun_IsSurj
  <2> HIDE DEF f, S
  <2> QED BY <1>2, <2>1, FS_Surjection
<1>4. S \in SUBSET TaskRow
  <2>1. \A a \in Agent : a \in 0..NAgents
    BY Bounds DEF Agent
  <2> QED BY <1>1, <2>1 DEF TaskRow, TaskKind
<1> HIDE DEF S
<1>5. SetToSeq(S) \in Seq(TaskRow)
  BY <1>3, <1>4, SetSequence
<1> QED BY <1>5 DEF S

-----------------------------------------------------------------------------
(* The steps.                                                              *)
LEMMA TuiStart == TuiInit => TuiInv
<1> SUFFICES ASSUME TuiInit PROVE TuiInv
  OBVIOUS
<1>1. Line(Feedback) \in ChatLine /\ Append(<<>>, Line(Feedback)) = lines /\ lines \in Seq(ChatLine)
  <2>1. Line(Feedback) \in ChatLine
    BY NothingSaid, PlainLine
  <2>2. \A x \in ChatLine : Append(<<>>, x) = <<x>> /\ <<x>> \in Seq(ChatLine)
    OBVIOUS
  <2> QED BY <2>1, <2>2 DEF TuiInit
<1>2. \A a \in Agent : Said(Append(<<>>, Line(Feedback)), a) = <<>>
  BY NothingSaid, PlainLine
<1>3. <<>> \in Seq(TaskRow) /\ <<>> \in Seq(Answer) /\ <<>> \in Seq(Chunk)
  OBVIOUS
<1>4. heard \in [Agent -> Seq(Chunk)] /\ \A a \in Agent : heard[a] = <<>>
  BY <1>3 DEF TuiInit
<1>5. TuiChat
  BY <1>1, <1>2, <1>3, <1>4 DEF TuiInit, TuiChat
<1>6. TuiTasks
  BY <1>3 DEF TuiInit, TuiTasks
<1>7. TuiPlace
  BY DEF TuiInit, TuiPlace, TabName, Panel
<1>8. TuiCounts
  <2>1. cursor = 0 /\ multi = {} /\ keys = 0 /\ chunks = 0 /\ chatScroll = 0
    BY DEF TuiInit
  <2> QED BY <2>1, Bounds DEF TuiCounts, Agent
<1> QED BY <1>5, <1>6, <1>7, <1>8 DEF TuiInv

(* A key pressed leaves the scroll offset within the keys pressed.         *)
LEMMA Pressed ==
  ASSUME TuiCounts, Press
  PROVE  /\ keys' \in 0..MaxKeys /\ 0 \in 0..keys' /\ chatScroll \in 0..keys'
         /\ \A to \in {chatScroll + 1, chatScroll - 1} \cap Nat : to \in 0..keys'
         /\ UNCHANGED <<responses, chunks>>
<1>1. keys \in 0..MaxKeys /\ chatScroll \in 0..keys
  BY DEF TuiCounts
<1>2. keys < MaxKeys /\ keys' = keys + 1 /\ UNCHANGED <<responses, chunks>>
  BY DEF Press
<1> QED BY <1>1, <1>2, Bounds

(* Keys that leave the chat and the tasks alone.                           *)
KeyAction ==
  \/ KeyTab \/ KeyBackTab \/ KeyOverlay \/ KeyEsc \/ KeyCtrlC
  \/ KeyUp \/ KeyDown \/ KeySpace \/ KeyClearSelection \/ KeyFastEnter \/ KeyBackspace
  \/ \E to \in {chatScroll + 1, chatScroll - 1} \cap Nat : KeyScroll(to)
  \/ \E t \in Command \cup {"prompt"} : KeyText(t)

(* The next tab is a tab, the next panel a panel.                          *)
LEMMA NextOnes ==
  /\ \A t \in TabName : NextTab[t] \in TabName
  /\ \A p \in Panel : NextPanel[p] \in Panel
<1>1. /\ NextTab["Home"] = "Chat" /\ NextTab["Chat"] = "Monitor" /\ NextTab["Monitor"] = "Memory"
      /\ NextTab["Memory"] = "Workflow" /\ NextTab["Workflow"] = "Home"
  BY DEF NextTab
<1>2. /\ NextPanel["Input"] = "Memory" /\ NextPanel["Memory"] = "Chat"
      /\ NextPanel["Chat"] = "Agents" /\ NextPanel["Agents"] = "Input"
  BY DEF NextPanel
<1>3. \A t \in TabName : NextTab[t] \in TabName
  BY <1>1 DEF TabName
<1>4. \A p \in Panel : NextPanel[p] \in Panel
  BY <1>2 DEF Panel
<1> QED BY <1>3, <1>4

(* A key leaves the selection a place there is.                            *)
LEMMA KeyPlace ==
  ASSUME TuiPlace, KeyAction
  PROVE  TuiPlace'
<1> USE DEF place, choice, TuiPlace
<1>1. CASE KeyTab
  <2>1. NextTab[tab] \in TabName
    BY NextOnes
  <2>2. tab' = NextTab[tab] /\ focus' \in Panel /\ UNCHANGED <<overlay, choice, quit, input>>
    BY <1>1 DEF KeyTab, Panel
  <2> QED BY <2>1, <2>2
<1>2. CASE KeyBackTab
  <2>1. NextPanel[focus] \in Panel
    BY NextOnes
  <2> QED BY <1>2, <2>1 DEF KeyBackTab
<1>3. CASE KeyOverlay
  BY <1>3 DEF KeyOverlay
<1>4. CASE KeyEsc
  BY <1>4 DEF KeyEsc
<1>5. CASE KeyCtrlC
  BY <1>5 DEF KeyCtrlC
<1>6. CASE KeyUp
  BY <1>6 DEF KeyUp, MoveCursor
<1>7. CASE KeyDown
  BY <1>7 DEF KeyDown, MoveCursor
<1>8. CASE KeySpace
  BY <1>8 DEF KeySpace
<1>9. CASE KeyClearSelection
  BY <1>9 DEF KeyClearSelection
<1>10. CASE KeyFastEnter
  BY <1>10 DEF KeyFastEnter
<1>11. CASE KeyBackspace
  BY <1>11 DEF KeyBackspace
<1>12. ASSUME NEW to, KeyScroll(to) PROVE TuiPlace'
  BY <1>12 DEF KeyScroll
<1>13. ASSUME NEW t \in Command \cup {"prompt"}, KeyText(t) PROVE TuiPlace'
  BY <1>13 DEF KeyText
<1> QED
  BY <1>1, <1>2, <1>3, <1>4, <1>5, <1>6, <1>7, <1>8, <1>9, <1>10, <1>11, <1>12, <1>13 DEF KeyAction

(* A key leaves the counters within their bounds.                          *)
LEMMA KeyCounts ==
  ASSUME TuiCounts, KeyAction
  PROVE  TuiCounts'
<1>1. Press
  BY DEF KeyAction, KeyTab, KeyBackTab, KeyOverlay, KeyEsc, KeyCtrlC, KeyUp, KeyDown, MoveCursor,
         KeySpace, KeyClearSelection, KeyFastEnter, KeyBackspace, KeyScroll, KeyText
<1>2. chatScroll' \in 0..keys'
  <2>1. UNCHANGED chatScroll \/ chatScroll' \in {chatScroll + 1, chatScroll - 1} \cap Nat
    BY DEF KeyAction, KeyTab, KeyBackTab, KeyOverlay, KeyEsc, KeyCtrlC, KeyUp, KeyDown, MoveCursor,
           KeySpace, KeyClearSelection, KeyFastEnter, KeyBackspace, KeyScroll, KeyText
  <2> QED BY <1>1, <2>1, Pressed
<1>3. cursor' \in Agent \/ (NAgents = 0 /\ cursor' = 0)
  <2>1. CASE UNCHANGED cursor
    BY <2>1 DEF TuiCounts
  <2>2. CASE cursor > 0 /\ cursor' = cursor - 1
    <3>1. cursor \in Agent
      BY <2>2 DEF TuiCounts
    <3> QED BY <2>2, <3>1, Bounds DEF Agent
  <2>3. CASE cursor + 1 < NAgents /\ cursor' = cursor + 1
    <3>1. cursor \in Nat
      BY Bounds DEF TuiCounts, Agent
    <3> QED BY <2>3, <3>1, Bounds DEF Agent
  <2> QED
    BY <2>1, <2>2, <2>3
    DEF KeyAction, KeyTab, KeyBackTab, KeyOverlay, KeyEsc, KeyCtrlC, KeyUp, KeyDown, MoveCursor,
        KeySpace, KeyClearSelection, KeyFastEnter, KeyBackspace, KeyScroll, KeyText, choice
<1>4. multi' \in SUBSET Agent
  <2>1. CASE UNCHANGED multi \/ multi' = {}
    BY <2>1 DEF TuiCounts
  <2>2. CASE KeySpace
    <3>1. cursor \in Agent
      <4>1. cursor < NAgents
        BY <2>2 DEF KeySpace
      <4> QED BY <4>1 DEF TuiCounts
    <3> QED BY <2>2, <3>1 DEF KeySpace, TuiCounts
  <2> QED
    BY <2>1, <2>2
    DEF KeyAction, KeyTab, KeyBackTab, KeyOverlay, KeyEsc, KeyCtrlC, KeyUp, KeyDown, MoveCursor,
        KeyClearSelection, KeyFastEnter, KeyBackspace, KeyScroll, KeyText, choice
<1> QED BY <1>1, <1>2, <1>3, <1>4, Pressed DEF TuiCounts

(* A key that writes nothing preserves the invariant.                      *)
LEMMA KeyStep ==
  ASSUME TuiInv, KeyAction
  PROVE  TuiInv'
<1>1. UNCHANGED <<chat, responses, tasks>>
  BY DEF KeyAction, KeyTab, KeyBackTab, KeyOverlay, KeyEsc, KeyCtrlC, KeyUp, KeyDown, MoveCursor,
         KeySpace, KeyClearSelection, KeyFastEnter, KeyBackspace, KeyScroll, KeyText, Press
<1> QED BY <1>1, KeyPlace, KeyCounts DEF TuiInv, TuiTasks, TuiChat, chat

(* A line of nobody's goes at the end of the chat.                         *)
LEMMA Pushed ==
  ASSUME TuiChat, NEW w \in {You, Glyph, Feedback}, Push(<<Line(w)>>),
         UNCHANGED <<heard, responses>>
  PROVE  TuiChat'
<1>1. lines \in Seq(ChatLine) /\ lines' = lines \o <<Line(w)>>
  BY DEF TuiChat, Push
<1> DEFINE log == lines
           l == Line(w)
<1>2. /\ log \o <<l>> = Append(log, l) /\ Append(log, l) \in Seq(ChatLine)
      /\ \A a \in Agent : Said(Append(log, l), a) = Said(log, a)
  BY <1>1, PlainLine
<1> HIDE DEF l
<1>3. lines' = Append(lines, l) /\ lines' \in Seq(ChatLine)
  BY <1>1, <1>2 DEF l
<1> QED BY <1>2, <1>3 DEF TuiChat

(* A prompt entered preserves it.                                          *)
LEMMA EnterStep ==
  ASSUME TuiInv, EnterPrompt
  PROVE  TuiInv'
<1>1. /\ keys' \in 0..MaxKeys /\ 0 \in 0..keys' /\ UNCHANGED <<responses, chunks>>
  BY Pressed DEF EnterPrompt, TuiInv
<1>2. TuiPlace' /\ TuiCounts'
  BY <1>1 DEF EnterPrompt, TuiInv, TuiPlace, TuiCounts, place, choice
<1>3. TuiChat'
  BY <1>1, Pushed DEF EnterPrompt, TuiInv
<1>4. TuiTasks'
  <2> DEFINE new == SetToSeq({[kind |-> "TaskRequest", to |-> a] : a \in Targets})
  <2>1. tasks \in Seq(TaskRow) /\ tasks' = tasks \o new
    BY DEF EnterPrompt, TuiInv, TuiTasks
  <2>2. new \in Seq(TaskRow)
    BY TargetTasks
  <2> HIDE DEF new
  <2>3. tasks \o new \in Seq(TaskRow)
    BY <2>1, <2>2, SeqFacts
  <2> QED BY <2>1, <2>3 DEF TuiTasks
<1> QED BY <1>2, <1>3, <1>4 DEF TuiInv

(* So does a command that is consumed,                                     *)
LEMMA CommandStep ==
  ASSUME TuiInv, NEW cmd, Consume(cmd), scopeAll' \in BOOLEAN, TuiTasks',
         UNCHANGED responses => TuiChat'
  PROVE  TuiInv'
<1>1. /\ keys' \in 0..MaxKeys /\ 0 \in 0..keys' /\ UNCHANGED <<responses, chunks>>
  BY Pressed DEF Consume, TuiInv
<1>2. TuiPlace' /\ TuiCounts'
  BY <1>1 DEF Consume, TuiInv, TuiPlace, TuiCounts, place
<1> QED BY <1>1, <1>2 DEF TuiInv

(* one that sends a task,                                                  *)
LEMMA EmitStep ==
  ASSUME TuiInv, NEW cmd, NEW kind \in TaskKind \ {"TaskRequest"}, Emit(cmd, kind)
  PROVE  TuiInv'
<1>1. UNCHANGED responses => TuiChat'
  BY Pushed DEF Emit, TuiInv
<1>2. [kind |-> kind, to |-> NAgents] \in TaskRow
  BY Bounds DEF TaskRow, Agent
<1>3. TuiTasks'
  <2> DEFINE t == [kind |-> kind, to |-> NAgents]
  <2>1. tasks \in Seq(TaskRow) /\ tasks' = Append(tasks, t)
    BY DEF Emit, TuiInv, TuiTasks
  <2>2. t \in TaskRow
    BY <1>2
  <2> HIDE DEF t
  <2>3. Append(tasks, t) \in Seq(TaskRow)
    BY <2>1, <2>2, SeqFacts
  <2> QED BY <2>1, <2>3 DEF TuiTasks
<1>4. scopeAll' \in BOOLEAN
  BY DEF Emit, TuiInv, TuiPlace
<1> QED BY <1>1, <1>3, <1>4, CommandStep DEF Emit

(* and each slash command.                                                 *)
LEMMA SlashStep ==
  ASSUME TuiInv,
         \/ SlashClear \/ SlashAll \/ SlashFeedback
         \/ SlashHandoff \/ SlashEvidence \/ SlashWorkflow
  PROVE  TuiInv'
<1>1. scopeAll \in BOOLEAN /\ TuiTasks /\ TuiChat
  BY DEF TuiInv, TuiPlace
<1>2. UNCHANGED tasks => TuiTasks'
  BY <1>1 DEF TuiTasks
<1>3. CASE SlashClear
  <2>1. lines' = Append(<<>>, Line(Feedback)) /\ lines' \in Seq(ChatLine)
    <3>1. Line(Feedback) \in ChatLine
      BY NothingSaid, PlainLine
    <3>2. \A x \in ChatLine : Append(<<>>, x) = <<x>> /\ <<x>> \in Seq(ChatLine)
      OBVIOUS
    <3> QED BY <1>3, <3>1, <3>2 DEF SlashClear
  <2>2. \A a \in Agent : Said(Append(<<>>, Line(Feedback)), a) = <<>>
    BY NothingSaid, PlainLine
  <2>3. heard' \in [Agent -> Seq(Chunk)] /\ \A a \in Agent : heard'[a] = <<>>
    BY <1>3, SeqFacts DEF SlashClear
  <2>4. UNCHANGED responses => TuiChat'
    BY <1>1, <2>1, <2>2, <2>3 DEF TuiChat
  <2>5. Consume("/clear") /\ scopeAll' \in BOOLEAN /\ TuiTasks'
    BY <1>1, <1>2, <1>3 DEF SlashClear
  <2> QED BY <2>4, <2>5, CommandStep
<1>4. CASE SlashAll
  <2>1. UNCHANGED responses => TuiChat'
    BY <1>1, <1>4, Pushed DEF SlashAll
  <2>2. Consume("/all") /\ scopeAll' \in BOOLEAN /\ TuiTasks'
    BY <1>2, <1>4 DEF SlashAll
  <2> QED BY <2>1, <2>2, CommandStep
<1>5. CASE SlashFeedback
  <2>1. UNCHANGED responses => TuiChat'
    BY <1>1, <1>5, Pushed DEF SlashFeedback
  <2>2. PICK cmd : Consume(cmd)
    BY <1>5 DEF SlashFeedback
  <2>3. scopeAll' \in BOOLEAN /\ TuiTasks'
    BY <1>1, <1>2, <1>5 DEF SlashFeedback
  <2> QED BY <2>1, <2>2, <2>3, CommandStep
<1>6. CASE SlashHandoff
  BY <1>6, EmitStep DEF SlashHandoff, TaskKind
<1>7. CASE SlashEvidence
  BY <1>7, EmitStep DEF SlashEvidence, TaskKind
<1>8. CASE SlashWorkflow
  BY <1>8, EmitStep DEF SlashWorkflow, TaskKind
<1> QED BY <1>3, <1>4, <1>5, <1>6, <1>7, <1>8

(* A response queued waits for a tick.                                     *)
LEMMA BridgeStep ==
  ASSUME TuiInv, NEW a \in Agent, NEW kind \in {"text", "handoff"}, Bridge(a, kind)
  PROVE  TuiInv'
<1>1. chunks' \in 0..MaxChunks /\ chunks' \in 1..MaxChunks
  <2>1. chunks \in 0..MaxChunks /\ chunks < MaxChunks /\ chunks' = chunks + 1
    BY DEF Bridge, TuiInv, TuiCounts
  <2> QED BY <2>1, Bounds
<1>2. [by |-> a, kind |-> kind, n |-> chunks'] \in Answer
  BY <1>1 DEF Answer
<1>3. TuiChat'
  BY <1>2, SeqFacts DEF Bridge, TuiInv, TuiChat, chat
<1>4. TuiPlace' /\ TuiCounts' /\ TuiTasks'
  BY <1>1 DEF Bridge, TuiInv, TuiPlace, TuiCounts, TuiTasks, place, choice
<1> QED BY <1>3, <1>4 DEF TuiInv

(* A tick says what was queued, and empties the queue.                     *)
LEMMA TickStep ==
  ASSUME TuiInv, Tick
  PROVE  TuiInv'
<1>1. /\ lines \in Seq(ChatLine) /\ responses \in Seq(Answer) /\ heard \in [Agent -> Seq(Chunk)]
      /\ \A a \in Agent : Said(lines, a) = heard[a]
  BY DEF TuiInv, TuiChat
<1>2. /\ lines' \in Seq(ChatLine)
      /\ \A a \in Agent : /\ Texts(responses, a) \in Seq(Chunk)
                          /\ Said(lines', a) = heard[a] \o Texts(responses, a)
  BY <1>1, DrainedSaid DEF Tick
<1>3. /\ heard' \in [Agent -> Seq(Chunk)]
      /\ \A a \in Agent : Said(lines', a) = heard'[a]
  BY <1>1, <1>2, SeqFacts DEF Tick
<1>4. responses' \in Seq(Answer)
  BY SeqFacts DEF Tick
<1>5. TuiPlace' /\ TuiCounts' /\ TuiTasks'
  BY DEF Tick, TuiInv, TuiPlace, TuiCounts, TuiTasks, place, choice
<1> QED BY <1>2, <1>3, <1>4, <1>5 DEF TuiInv, TuiChat

(* The invariant holds of every behaviour.                                 *)
THEOREM TuiInvCorrect == TuiSpec => []TuiInv
<1>1. TuiInv /\ [TuiNext]_tuivars => TuiInv'
  <2> SUFFICES ASSUME TuiInv, [TuiNext]_tuivars PROVE TuiInv'
    OBVIOUS
  <2>1. CASE UNCHANGED tuivars
    BY <2>1 DEF tuivars, place, choice, chat, TuiInv, TuiPlace, TuiCounts, TuiTasks, TuiChat
  <2>2. CASE TuiNext
    BY <2>2, KeyStep, EnterStep, SlashStep, BridgeStep, TickStep DEF TuiNext, KeyAction
  <2> QED BY <2>1, <2>2
<1> QED BY <1>1, TuiStart, PTL DEF TuiSpec

(* The terminal's selection, counters, log and tasks keep their kinds,     *)
(* however many agents there are and whatever keys are pressed between the *)
(* ticks (app.rs:707-914).                                                 *)
THEOREM TerminalTypeCorrect == TuiSpec => []TerminalTypeOK
<1>1. TuiInv => TerminalTypeOK
  <2> SUFFICES ASSUME TuiInv PROVE TerminalTypeOK
    OBVIOUS
  <2>1. \A i \in DOMAIN lines : lines[i].by \in Writer /\ lines[i].parts \in Seq(Chunk)
    <3>1. \A i \in DOMAIN lines : lines[i] \in ChatLine
      BY DEF TuiInv, TuiChat
    <3> QED BY <3>1 DEF ChatLine
  <2>2. \A i \in DOMAIN tasks : tasks[i].kind = "TaskRequest" <=> tasks[i].to \in Agent
    <3>1. \A i \in DOMAIN tasks : tasks[i] \in TaskRow
      BY DEF TuiInv, TuiTasks
    <3> QED BY <3>1 DEF TaskRow
  <2>3. chatScroll \in 0..MaxKeys
    <3>1. keys \in 0..MaxKeys /\ chatScroll \in 0..keys
      BY DEF TuiInv, TuiCounts
    <3> QED BY <3>1, Bounds
  <2>4. responses \in Seq(Answer)
    BY DEF TuiInv, TuiChat
  <2>5. cursor \in 0..NAgents /\ (NAgents > 0 => cursor \in Agent)
    <3>1. cursor \in Agent \/ (NAgents = 0 /\ cursor = 0)
      BY DEF TuiInv, TuiCounts
    <3> QED BY <3>1, Bounds DEF Agent
  <2> QED BY <2>1, <2>2, <2>3, <2>4, <2>5 DEF TuiInv, TuiPlace, TuiCounts, TerminalTypeOK, Chunk, Answer
<1> QED BY <1>1, TuiInvCorrect, PTL

(* The panel draws the lines of whoever the next prompt goes to.           *)
LEMMA DrawnSaid ==
  ASSUME TuiInv, NEW a \in Targets
  PROVE  Said(Drawn, a) = Said(lines, a)
<1> DEFINE keep == [l \in ChatLine |-> IF InScope(l) THEN <<l>> ELSE <<>>]
<1>1. a \in Agent /\ lines \in Seq(ChatLine) /\ (multi # {} \/ a = cursor)
  BY DEF Targets, TuiInv, TuiCounts, TuiChat
<1>2. \A l \in ChatLine : l.by = a => InScope(l)
  BY <1>1 DEF InScope
<1>3. Feeds(keep, ChatLine, ChatLine)
  <2>1. \A l \in ChatLine : (IF InScope(l) THEN <<l>> ELSE <<>>) \in Seq(ChatLine)
    BY SeqFacts
  <2> QED BY <2>1 DEF Feeds
<1>4. Filters(keep, Part(a), ChatLine)
  BY <1>2 DEF Filters, Part
<1>5. Drawn = Flat(keep, lines)
  <2>1. \A i \in DOMAIN lines : lines[i] \in ChatLine
    BY <1>1
  <2>2. [i \in DOMAIN lines |-> keep[lines[i]]]
          = [i \in DOMAIN lines |-> IF InScope(lines[i]) THEN <<lines[i]>> ELSE <<>>]
    BY <2>1
  <2> QED BY <2>2 DEF Drawn, Flat
<1> HIDE DEF keep
<1>6. Flat(keep, lines) \in Seq(ChatLine)
  BY <1>1, <1>3, FlatKeeps
<1>7. Flat(Part(a), Flat(keep, lines)) = Flat(Part(a), lines)
  BY <1>1, <1>3, <1>4, SaidFlat, FlatFilter
<1> QED BY <1>1, <1>5, <1>6, <1>7, SaidFlat

(* What the log has of an agent is what the agent said, in its order and   *)
(* whole, however the responses of several agents interleave with one      *)
(* another and with the user's lines; and the scope hides none of a        *)
(* target's words (app.rs:565-598, 1427-1452).                             *)
THEOREM SpeakersCorrect == TuiSpec => []SpeakersApart
<1>1. TuiInv => SpeakersApart
  BY DrawnSaid DEF TuiInv, TuiChat, SpeakersApart
<1> QED BY <1>1, TuiInvCorrect, PTL

=============================================================================
