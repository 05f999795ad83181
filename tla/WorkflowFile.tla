----------------------------- MODULE WorkflowFile -----------------------------
(***************************************************************************)
(* Validation and ordering of a workflow file, as `crow run` does it       *)
(* (crates/ch-tui/src/workflow_file.rs, and run_workflow in main.rs):      *)
(* structural checks first, then Kahn's algorithm with a stack, one pop a  *)
(* step.  A file is a sequence of steps; depends_on is a sequence, so that *)
(* a dependency may be named twice.                                        *)
(***************************************************************************)
EXTENDS Naturals, Sequences, FiniteSets, Functions

CONSTANTS
  StepName,   (* ids, ordered as numbers                                    *)
  Files       (* the files: [agents, steps], a step being [id, agent, deps] *)

(* A StepDef, and what is known of a file once it has been parsed.         *)
StepDef == [id : StepName, agent : STRING, deps : Seq(Nat)]

ASSUME FileAssumption ==
  /\ StepName \subseteq Nat
  /\ \A w \in Files : w.steps \in Seq(StepDef)

VARIABLES
  file,       (* the parsed file                                            *)
  stage,      (* "parsed", "sorting", or the result                         *)
  inDegree,   (* by id: dependencies not yet in the order                   *)
  stack,      (* the Vec that is called queue in the code                   *)
  order,      (* ids in the order found so far                              *)
  printed     (* the steps `crow run` has listed, by their place in the file *)

wfvars == <<file, stage, inDegree, stack, order, printed>>

Results == {"ok", "NoSteps", "DuplicateStepId", "UnknownAgent", "UnknownDependency", "Cycle"}

Step(k) == file.steps[k]
Known == {Step(k).id : k \in DOMAIN file.steps}
Deps(k) == Range(Step(k).deps)

(* The entries of all depends_on, by step and by place.                    *)
Entries == UNION {{k} \X DOMAIN Step(k).deps : k \in DOMAIN file.steps}
Dependent(e) == Step(e[1]).id
Dependency(e) == Step(e[1]).deps[e[2]]

(* How often i names d as a dependency, and how many it names.             *)
Mentions(i, d) == Cardinality({e \in Entries : Dependent(e) = i /\ Dependency(e) = d})
InDegree(i) == Cardinality({e \in Entries : Dependent(e) = i})

(* Vec::sort of a set of ids.                                              *)
Sorted(S) ==
  CHOOSE s \in [1..Cardinality(S) -> S] :
    \A j, k \in 1..Cardinality(S) : j < k => s[j] < s[k]

WfInit ==
  /\ file \in Files
  /\ stage = "parsed"
  /\ inDegree = <<>>
  /\ stack = <<>>
  /\ order = <<>>
  /\ printed = <<>>

-----------------------------------------------------------------------------
(* The checks in their order: the first that fails is the one reported.    *)
Rejected ==
  IF file.steps = <<>> THEN "NoSteps"
  ELSE IF Cardinality(Known) < Len(file.steps) THEN "DuplicateStepId"
  ELSE IF file.agents # {} /\ \E k \in DOMAIN file.steps : Step(k).agent \notin file.agents
  THEN "UnknownAgent"
  ELSE IF \E k \in DOMAIN file.steps : ~(Deps(k) \subseteq Known) THEN "UnknownDependency"
  ELSE "sorting"

(* Everything before the loop: the checks, the degrees and what is ready.  *)
Validate ==
  /\ stage = "parsed"
  /\ stage' = Rejected
  /\ IF Rejected = "sorting"
     THEN /\ inDegree' = [i \in Known |-> InDegree(i)]
          /\ stack' = Sorted({i \in Known : InDegree(i) = 0})
     ELSE UNCHANGED <<inDegree, stack>>
  /\ UNCHANGED <<file, order, printed>>

(* Mutant: a step is ready as soon as one of its dependencies is placed.   *)
PopEager ==
  /\ stage = "sorting"
  /\ stack # <<>>
  /\ LET id == stack[Len(stack)]
         next == {i \in Known : Mentions(i, id) > 0}
     IN  /\ order' = Append(order, id)
         /\ inDegree' = [i \in Known |-> inDegree[i] - Mentions(i, id)]
         /\ stack' = SubSeq(stack, 1, Len(stack) - 1) \o Sorted(next)
  /\ UNCHANGED <<file, stage, printed>>

(* queue.pop takes the last one; what becomes ready is sorted and put on   *)
(* top.                                                                    *)
Pop ==
  /\ stage = "sorting"
  /\ stack # <<>>
  /\ LET id == stack[Len(stack)]
         left == [i \in Known |-> inDegree[i] - Mentions(i, id)]
         next == {i \in Known : Mentions(i, id) > 0 /\ left[i] = 0}
     IN  /\ order' = Append(order, id)
         /\ inDegree' = left
         /\ stack' = SubSeq(stack, 1, Len(stack) - 1) \o Sorted(next)
  /\ UNCHANGED <<file, stage, printed>>

Finish ==
  /\ stage = "sorting"
  /\ stack = <<>>
  /\ stage' = IF Len(order) = Len(file.steps) THEN "ok" ELSE "Cycle"
  /\ UNCHANGED <<file, inDegree, stack, order, printed>>

(* run_workflow lists the steps of an accepted file, each looked up by its *)
(* id, and runs none of them, be it a dry run or not.  A rejected file     *)
(* ends it with an error.                                                  *)
ListSteps ==
  /\ stage = "ok"
  /\ stage' = "listed"
  /\ printed' = [n \in DOMAIN order |-> CHOOSE k \in DOMAIN file.steps : Step(k).id = order[n]]
  /\ UNCHANGED <<file, inDegree, stack, order>>

WfNext == Validate \/ Pop \/ Finish \/ ListSteps

WfSpec == WfInit /\ [][WfNext]_wfvars

-----------------------------------------------------------------------------
FileTypeOK ==
  /\ stage \in {"parsed", "sorting", "listed"} \cup Results
  /\ inDegree \in [DOMAIN inDegree -> Nat] /\ DOMAIN inDegree \subseteq Known
  /\ stack \in Seq(Known)
  /\ order \in Seq(Known)
  /\ printed \in Seq(DOMAIN file.steps)

Respects(o) ==
  \A k \in DOMAIN file.steps, n \in DOMAIN o :
    o[n] = Step(k).id => Deps(k) \subseteq {o[m] : m \in 1..(n - 1)}

(* The stack is popped from the wrong end for a queue, and yet a step is   *)
(* placed only after everything it depends on, and once.  The file is      *)
(* accepted exactly if some order of its steps respects the dependencies,  *)
(* and then `crow run` lists every step, each after what it depends on     *)
(* (workflow_file.rs:118-151, main.rs:509-525).                            *)
PlacedInOrder ==
  /\ Respects(order)
  /\ \A m, n \in DOMAIN order : order[m] = order[n] => m = n
  /\ stage = "listed" =>
       /\ Range(printed) = DOMAIN file.steps
       /\ Respects([n \in DOMAIN printed |-> Step(printed[n]).id])
  /\ stage \in {"ok", "Cycle"} =>
       (stage = "ok" <=> \E o \in [1..Cardinality(Known) -> Known] :
                             Range(o) = Known /\ Respects(o))

=============================================================================
