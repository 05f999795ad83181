---------------------------- MODULE WorkflowSteps ----------------------------
(***************************************************************************)
(* The life of workflow steps: the /workflow commands of the terminal UI   *)
(* (crates/ch-tui/src/app.rs), the memory writer that persists them        *)
(* (crates/ch-memory/src/writer.rs), the table workflow_steps              *)
(* (crates/ch-memory/src/backends/sqlite.rs) and the panel that shows it.  *)
(*                                                                         *)
(* Each command spawns a task of its own that broadcasts it, so commands   *)
(* reach the writer in any order.  A refresh of the panel is a task too:   *)
(* it reads the table and leaves the rows in one slot, over what lies      *)
(* there, for the next tick to collect.                                    *)
(***************************************************************************)
EXTENDS Naturals, Sequences, FiniteSets, SequencesExt

CONSTANTS
  WStep,         (* ids of steps                                            *)
  WUser,         (* users: one for each session of the terminal             *)
  NoRow,         (* the table has no row for the step                       *)
  OldRows,       (* what an earlier session may have left of a step         *)
  MaxIssued,     (* bound of the model: commands                            *)
  MaxRefreshes,  (* bound of the model: refreshes of the panel              *)
  MaxDbErrors    (* bound of the model: statements the database refuses     *)

RowState == {"claimed", "in_progress", "done", "failed"}
Row == [state : RowState, by : WUser]

ASSUME StepsAssumption ==
  /\ MaxIssued \in Nat
  /\ MaxRefreshes \in Nat
  /\ MaxDbErrors \in Nat
  /\ NoRow \notin Row
  /\ OldRows \subseteq Row \cup {NoRow}

VARIABLES
  steps,      (* the table: by id, a row [state, by] or NoRow               *)
  spawned,    (* commands whose task has not reached the writer's queue     *)
  inbox,      (* the writer's queue                                         *)
  nIssued,    (* commands so far, which number them                         *)
  dbErrors,   (* statements refused so far                                  *)
  version,    (* writes so far: stands for the contents of the table        *)
  refreshes,  (* by refresh: where it stands, and the version it read       *)
  slot,       (* pending_workflow: the version there, or none               *)
  panel,      (* workflow_rows: the version shown                           *)
  batch       (* by step: commands that overlapped: not in the code         *)

store == <<steps, spawned, inbox, nIssued, dbErrors, batch>>
view == <<refreshes, slot, panel>>
wsvars == <<store, view, version>>

Target == [claim |-> "claimed", start |-> "in_progress", done |-> "done", fail |-> "failed"]
Op == DOMAIN Target
Commands == [n : 1..MaxIssued, step : WStep, op : Op, user : WUser]
None == MaxIssued + 1

StateOf(s) == IF steps[s] = NoRow THEN "absent" ELSE steps[s].state

WsInit ==
  /\ steps \in [WStep -> OldRows]
  /\ spawned = {}
  /\ inbox = <<>>
  /\ nIssued = 0
  /\ dbErrors = 0
  /\ version = 0
  /\ refreshes = <<>>
  /\ slot = None
  /\ panel = 0
  /\ batch = [s \in WStep |-> [from |-> StateOf(s), ops |-> {}, lost |-> TRUE]]

-----------------------------------------------------------------------------
InFlight(s) == {c \in spawned \cup Range(inbox) : c.step = s}

(* A command joins the batch of its step, or starts one when nothing is    *)
(* under way.                                                              *)
Batched(s, op) ==
  IF InFlight(s) = {} THEN [from |-> StateOf(s), ops |-> {op}, lost |-> FALSE]
  ELSE [batch[s] EXCEPT !.ops = @ \cup {op}]

(* A /workflow command: the feedback line appears at once, the broadcast   *)
(* is left to a task.                                                      *)
Issue(u, s, op) ==
  /\ nIssued < MaxIssued
  /\ nIssued' = nIssued + 1
  /\ spawned' = spawned \cup {[n |-> nIssued', step |-> s, op |-> op, user |-> u]}
  /\ batch' = [batch EXCEPT ![s] = Batched(s, op)]
  /\ UNCHANGED <<steps, inbox, dbErrors, view, version>>

(* send_to_channel, which ends at the writer ...                           *)
Broadcast(c) ==
  /\ c \in spawned
  /\ spawned' = spawned \ {c}
  /\ inbox' = Append(inbox, c)
  /\ UNCHANGED <<steps, nIssued, dbErrors, batch, view, version>>

(* ... or fails with an error that is logged, because the bus is down or   *)
(* has no #general; or succeeds while the writer is not a member, or gone. *)
LoseCommand(c) ==
  /\ c \in spawned
  /\ spawned' = spawned \ {c}
  /\ batch' = [batch EXCEPT ![c.step].lost = TRUE]
  /\ UNCHANGED <<steps, inbox, nIssued, dbErrors, view, version>>

(* claim_step: an upsert, whatever state the step is in and whoever has    *)
(* claimed it; a row keeps the workflow it was first claimed for.          *)
ClaimStep(c) ==
  /\ c.op = "claim"
  /\ steps' = [steps EXCEPT ![c.step] = [state |-> "claimed", by |-> c.user]]
  /\ version' = version + 1

(* Mutant: an update makes the row it does not find.                       *)
SetStateUpserts(c) ==
  /\ c.op # "claim"
  /\ steps' = [steps EXCEPT ![c.step] = [state |-> Target[c.op], by |-> c.user]]
  /\ version' = version + 1

(* set_state: any state over any other; NotFound if there is no row.       *)
SetState(c) ==
  /\ c.op # "claim"
  /\ IF steps[c.step] = NoRow
     THEN UNCHANGED <<steps, version>>
     ELSE /\ steps' = [steps EXCEPT ![c.step].state = Target[c.op]]
          /\ version' = version + 1

(* The writer takes one message after the other and drops what fails.      *)
Persist ==
  /\ inbox # <<>>
  /\ inbox' = Tail(inbox)
  /\ ClaimStep(Head(inbox)) \/ SetState(Head(inbox))
  /\ UNCHANGED <<spawned, nIssued, dbErrors, batch, view>>

DbRefuses ==
  /\ inbox # <<>>
  /\ dbErrors < MaxDbErrors
  /\ dbErrors' = dbErrors + 1
  /\ inbox' = Tail(inbox)
  /\ batch' = [batch EXCEPT ![Head(inbox).step].lost = TRUE]
  /\ UNCHANGED <<steps, spawned, nIssued, view, version>>

-----------------------------------------------------------------------------
(* refresh_workflow, on entering the tab and on `r`.                       *)
Refresh ==
  /\ Len(refreshes) < MaxRefreshes
  /\ refreshes' = Append(refreshes, [at |-> "spawned", asked |-> version, read |-> None,
                        alone |-> \A r \in Range(refreshes) : r.at = "over"])
  /\ UNCHANGED <<store, slot, panel, version>>

(* all_steps, in the task.                                                 *)
ReadTable(k) ==
  /\ refreshes[k].at = "spawned"
  /\ refreshes' = [refreshes EXCEPT ![k].at = "read", ![k].read = version]
  /\ UNCHANGED <<store, slot, panel, version>>

(* The statement fails: the task ends and leaves the slot as it is.        *)
ReadFails(k) ==
  /\ refreshes[k].at = "spawned"
  /\ dbErrors < MaxDbErrors
  /\ dbErrors' = dbErrors + 1
  /\ refreshes' = [refreshes EXCEPT ![k].at = "over"]
  /\ UNCHANGED <<steps, spawned, inbox, nIssued, batch, slot, panel, version>>

(* Mutant: rows that nobody has collected yet are not written over.        *)
KeepSlot(k) ==
  /\ refreshes[k].at = "read"
  /\ refreshes' = [refreshes EXCEPT ![k].at = "over"]
  /\ slot' = IF slot = None THEN refreshes[k].read ELSE slot
  /\ UNCHANGED <<store, panel, version>>

(* The rows go into the slot, over rows that nobody has collected yet.     *)
PutSlot(k) ==
  /\ refreshes[k].at = "read"
  /\ refreshes' = [refreshes EXCEPT ![k].at = "over"]
  /\ slot' = refreshes[k].read
  /\ UNCHANGED <<store, panel, version>>

(* collect_workflow_refresh, on a tick.                                    *)
Collect ==
  /\ slot # None
  /\ panel' = slot
  /\ slot' = None
  /\ UNCHANGED <<store, refreshes, version>>

RefreshStep ==
  \/ \E k \in DOMAIN refreshes : ReadTable(k) \/ ReadFails(k) \/ PutSlot(k)
  \/ Collect

WriterStep == Persist \/ DbRefuses \/ \E c \in spawned : Broadcast(c) \/ LoseCommand(c)

WsNext ==
  \/ \E u \in WUser, s \in WStep, op \in Op : Issue(u, s, op)
  \/ WriterStep
  \/ Refresh
  \/ RefreshStep

WsSpec == WsInit /\ [][WsNext]_wsvars

-----------------------------------------------------------------------------
StepsTypeOK ==
  /\ steps \in [WStep -> Row \cup {NoRow}]
  /\ spawned \subseteq Commands
  /\ inbox \in Seq(Commands)
  /\ nIssued \in 0..MaxIssued
  /\ dbErrors \in 0..MaxDbErrors
  /\ version \in 0..MaxIssued
  /\ \A k \in DOMAIN refreshes : refreshes[k] \in
       [at : {"spawned", "read", "over"}, asked : 0..MaxIssued, read : 0..None, alone : BOOLEAN]
  /\ slot \in 0..None
  /\ panel \in 0..MaxIssued
  /\ batch \in [WStep -> [from : RowState \cup {"absent"}, ops : SUBSET Op, lost : BOOLEAN]]

(* What a batch of overlapping commands may leave of a step: without a row *)
(* it takes a claim to make one.                                           *)
Outcomes(b) ==
  (IF b.from = "absent" /\ "claim" \notin b.ops THEN {"absent"} ELSE {Target[o] : o \in b.ops})
  \cup (IF b.lost THEN {b.from} ELSE {})

(* Once the commands about a step have been carried out, its row is what   *)
(* the last one asked for, if each was issued after the one before was     *)
(* stored; commands that overlap end in what one of them asks for.  Where  *)
(* one was lost or refused it may be as it was before.  A step nobody      *)
(* claimed never comes into being by /workflow start, done or fail         *)
(* (app.rs:442-524, writer.rs:37-67, sqlite.rs:848-866, 961-979).          *)
StepsSettle == \A s \in WStep : InFlight(s) = {} => StateOf(s) \in Outcomes(batch[s])

Failed(r) == r.at = "over" /\ r.read = None

(* A refresh asked for while no other was under way brings the panel to    *)
(* the table as it was then, or later, though the results of refreshes     *)
(* asked for meanwhile may overwrite its own in the slot.  The exception   *)
(* is a refresh whose own reading failed, of which nothing is left         *)
(* (app.rs:214-234).                                                       *)
PanelCatchesUp ==
  \A k \in 1..MaxRefreshes :
    k \in DOMAIN refreshes /\ refreshes[k].alone
    ~> k \in DOMAIN refreshes /\ (panel >= refreshes[k].asked \/ Failed(refreshes[k]))

=============================================================================
