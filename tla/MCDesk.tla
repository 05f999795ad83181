----------------------------- MODULE MCDesk -----------------------------
(***************************************************************************)
(* The components a user works with from the terminal, side by side in one *)
(* instance: the orchestrator, the agent registry, the workflow file, the  *)
(* workflow steps, the terminal's event loop and the memory queries.  They *)
(* share no state, so a behaviour follows one of them, its part, and the   *)
(* others rest in a fixed state: the states explored are the sum of those  *)
(* of the components and not their product.                                *)
(***************************************************************************)
EXTENDS Orchestrator, AgentRegistry, WorkflowFile, WorkflowSteps, TerminalUI, MemoryQueries

CONSTANTS u1, u2

St(i, deps) == [id |-> i, deps |-> deps]
MCFlows == {
  {St(1, {}), St(2, {1}), St(3, {1})},      \* one before two
  {St(1, {}), St(2, {1, 3}), St(3, {2})},   \* a cycle
  {St(1, {}), St(1, {4}), St(2, {1})}}      \* an id twice, an unknown dependency

DepSeqs == {<<>>, <<1, 2>>, <<1, 3>>, <<2, 3>>, <<1, 1>>, <<2, 2>>, <<3, 3>>, <<2, 9>>}
             \cup {<<d>> : d \in {1, 2, 3, 9}}
FileStep(i, a, d) == [id |-> i, agent |-> a, deps |-> d]
MCFiles ==
  {[agents |-> {}, steps |-> <<FileStep(1, "x", a), FileStep(2, "y", b), FileStep(3, "x", c)>>] :
     a, b, c \in DepSeqs}
  \cup {[agents |-> ag, steps |-> st] :
     ag \in {{"x"}, {"x", "y"}},
     st \in {<<>>, <<FileStep(2, "x", <<>>), FileStep(1, "y", <<2>>)>>,
             <<FileStep(1, "x", <<>>), FileStep(1, "x", <<>>)>>}}

AnyFile == CHOOSE w \in MCFiles : TRUE
MCOldRows == {NoRow, [state |-> "done", by |-> u1]}

-----------------------------------------------------------------------------
VARIABLE part

deskvars == <<part, ovars, rgvars, wfvars, wsvars, tuivars, mqvars>>

Parts == {"orchestrator", "registry", "file", "steps", "terminal", "messages", "evidence"}

Init ==
  /\ part \in Parts
  /\ OInit
  /\ RgInit /\ (part # "registry" => regName = [i \in RegId |-> CHOOSE n \in RegName : TRUE])
  /\ WfInit /\ (part # "file" => file = AnyFile)
  /\ WsInit /\ (part # "steps" => steps = [s \in WStep |-> NoRow])
  /\ TuiInit
  /\ MqInit

Stepping(A) ==
  part = "steps" /\ A /\ UNCHANGED <<part, ovars, rgvars, wfvars, tuivars, mqvars>>

Next ==
  \/ part = "orchestrator" /\ ONext /\ UNCHANGED <<part, rgvars, wfvars, wsvars, tuivars, mqvars>>
  \/ part = "registry" /\ RgNext /\ UNCHANGED <<part, ovars, wfvars, wsvars, tuivars, mqvars>>
  \/ part = "file" /\ WfNext /\ UNCHANGED <<part, ovars, rgvars, wsvars, tuivars, mqvars>>
  \/ part = "steps" /\ WsNext /\ UNCHANGED <<part, ovars, rgvars, wfvars, tuivars, mqvars>>
  \/ part = "terminal" /\ TuiNext /\ UNCHANGED <<part, ovars, rgvars, wfvars, wsvars, mqvars>>
  \/ part = "messages" /\ MessageStep /\ UNCHANGED <<part, ovars, rgvars, wfvars, wsvars, tuivars>>
  \/ part = "evidence" /\ EvidenceStep /\ UNCHANGED <<part, ovars, rgvars, wfvars, wsvars, tuivars>>

(* The tasks that carry a command to the writer, the writer and the tasks  *)
(* of a refresh are tokio tasks, which run when they can.                  *)
Spec ==
  /\ Init /\ [][Next]_deskvars
  /\ WF_deskvars(Stepping(WriterStep)) /\ WF_deskvars(Stepping(RefreshStep))

DeskTypeOK ==
  /\ OrchestratorTypeOK /\ RegistryTypeOK /\ FileTypeOK /\ StepsTypeOK
  /\ TerminalTypeOK /\ QueriesTypeOK

=============================================================================
