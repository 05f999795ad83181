--------------------------- MODULE MemoryPipeline ---------------------------
(***************************************************************************)
(* How claims become evidence: the terminal UI broadcasts them, the memory *)
(* writer (crates/ch-memory/src/writer.rs) stores what it receives in the  *)
(* evidence table (backends/sqlite.rs), the verifier (verifier.rs) polls   *)
(* the table and broadcasts verdicts, which the writer stores in turn.     *)
(* They meet only in the table and on the message bus.  The process may    *)
(* end at any moment and be started again: the table is all that is left.  *)
(* It also ends when the user quits: once the bus is shut down main        *)
(* returns, and the runtime drops the tasks with all they hold.            *)
(*                                                                         *)
(* A message's payload is looked up by the number of the message; a claim  *)
(* is what the verifier's rule makes of it, a chat line is only stored.    *)
(***************************************************************************)
EXTENDS MessageBus

CONSTANTS
  General,        (* the channel all of this happens on                      *)
  Writer,         (* the agent id of the memory writer                       *)
  User,           (* the agent id of the terminal UI                         *)
  Main,           (* the task that starts the program                        *)
  VerifierTask,   (* the verifier's task; Sender[VerifierTask] is its id     *)
  UserTasks,      (* tasks the UI spawns, one for each command under way     *)
  Texts,          (* what the user may say                                   *)
  HumanJudges,    (* whether the user verifies and fails evidence, too       *)
  WriterIsPatient,(* whether the writer happens to join once there is a      *)
                  (* channel: nothing in the code makes it                   *)
  PollLimit,      (* rows the verifier asks for: 50 in the code              *)
  MaxSays,        (* bound of the model: messages of the user                *)
  MaxHasty,       (* bound of the model: polls while something is under way  *)
  MaxErrors,      (* bound of the model: statements the database refuses     *)
  MaxCrashes      (* bound of the model: times the program is started again  *)

ASSUME PipelineAssumption ==
  /\ General \in ChannelName
  /\ {Writer, User} \subseteq Agent
  /\ {Main, VerifierTask} \cup UserTasks \subseteq Task
  /\ Main \in Admins
  /\ Sender[VerifierTask] \notin {Writer, User}
  /\ \A t \in UserTasks : Sender[t] = User
  /\ Texts \subseteq {"chat", "pass", "fail", "skip"}
  /\ {HumanJudges, WriterIsPatient} \subseteq BOOLEAN
  /\ PollLimit \in Nat \ {0}
  /\ {MaxSays, MaxHasty, MaxErrors, MaxCrashes} \subseteq Nat

VARIABLES
  payload,   (* payload[i]: what message i carries                           *)
  row,       (* status of the evidence row of message i, "none" without one  *)
  saved,     (* chat lines in the messages table                             *)
  main,      (* how far the program has come                                 *)
  writer,    (* where the writer stands                                      *)
  job,       (* the message it is storing                                    *)
  work,      (* rows the verifier has still to judge                         *)
  hasty,     (* polls while something was under way                          *)
  refused,   (* messages whose statement the database refused                *)
  crashes    (* times the program was started again                          *)

busVars == vars
table == <<row, saved, refused>>
local == <<main, writer, job, work, hasty>>
pvars == <<busVars, payload, table, local, crashes>>

Claims == {"pass", "fail", "skip"}
Said(text) == [kind |-> text, of |-> 0, by |-> "user"]
Verdict(r, kind, by) == [kind |-> kind, of |-> r, by |-> by]
Payloads == {Said(x) : x \in Texts} \cup
            {Verdict(r, k, by) : r \in 1..MaxMsgs, k \in {"verify", "reject"}, by \in {"user", "rule"}}

PInit ==
  /\ Init
  /\ payload = <<>>
  /\ row = [i \in 1..MaxMsgs |-> "none"]
  /\ saved = {}
  /\ main = "boot"
  /\ writer = "none"
  /\ job = 0
  /\ work = {}
  /\ hasty = 0
  /\ refused = {}
  /\ crashes = 0

-----------------------------------------------------------------------------
(* Starting up: run_tui starts the hub, spawns the writer and the verifier *)
(* and goes on, while they begin to run.                                   *)
HubStarts ==
  /\ main = "boot"
  /\ Start
  /\ main' = "loading"
  /\ writer' = "spawned"
  /\ UNCHANGED <<payload, table, job, work, hasty, crashes>>

UserSubscribes ==
  /\ main = "loading"
  /\ Subscribe(User)
  /\ main' = "creating"
  /\ UNCHANGED <<payload, table, writer, job, work, hasty, crashes>>

CreateGeneral ==
  /\ main = "creating"
  /\ CreateCheck(Main, General)
  /\ main' = "joining"
  /\ UNCHANGED <<payload, table, writer, job, work, hasty, crashes>>

UserJoins ==
  /\ main = "joining"
  /\ phase[Main] = "idle"
  /\ JoinChannel(User, General, "Full")
  /\ main' = "up"
  /\ UNCHANGED <<payload, table, writer, job, work, hasty, crashes>>

WriterSubscribes ==
  /\ writer = "spawned"
  /\ Subscribe(Writer)
  /\ writer' = "subscribed"
  /\ UNCHANGED <<payload, table, main, job, work, hasty, crashes>>

(* join_channel fails if there is no channel yet, and the error is dropped. *)
WriterJoins ==
  /\ writer = "subscribed"
  /\ WriterIsPatient => General \in channels
  /\ IF General \in channels THEN JoinChannel(Writer, General, "Full") ELSE UNCHANGED busVars
  /\ writer' = "receiving"
  /\ UNCHANGED <<payload, table, main, job, work, hasty, crashes>>

Startup ==
  \/ HubStarts
  \/ UserSubscribes
  \/ CreateGeneral
  \/ UserJoins
  \/ WriterSubscribes
  \/ WriterJoins

-----------------------------------------------------------------------------
(* A task broadcasts a payload on the channel.                             *)
Broadcast(t, p) ==
  /\ SendToChannel(t, General, NoAgent, 0)
  /\ payload' = Append(payload, p)

MaySpeak == main = "up" /\ Cardinality({i \in 1..Len(payload) : payload[i].by = "user"}) < MaxSays

(* A line of chat, or /evidence claim.                                     *)
Say(t, text) ==
  /\ MaySpeak
  /\ Broadcast(t, Said(text))
  /\ UNCHANGED <<table, local, crashes>>

(* /evidence verify and /evidence fail, with an id the listing shows.      *)
HumanVerdict(t, r, kind) ==
  /\ HumanJudges
  /\ MaySpeak
  /\ row[r] # "none"
  /\ Broadcast(t, Verdict(r, kind, "user"))
  /\ UNCHANGED <<table, local, crashes>>

-----------------------------------------------------------------------------
(* The writer takes a message, stores it, and only then takes the next.    *)
WriterTakes ==
  /\ writer = "receiving"
  /\ Receive(Writer)
  /\ writer' = "storing"
  /\ job' = Head(queue[Writer]).id
  /\ UNCHANGED <<payload, table, main, work, hasty, crashes>>

Stored == writer' = "receiving" /\ job' = 0

(* A chat line or a handoff.  The envelope the user's /handoff sends lists *)
(* no decisions (app.rs:279-283), and nothing else in the program sends    *)
(* one, so there is none to fan out into evidence rows.                    *)
StoreChat ==
  /\ writer = "storing"
  /\ payload[job].kind = "chat"
  /\ saved' = saved \cup {job}
  /\ Stored
  /\ UNCHANGED <<busVars, payload, row, refused, main, work, hasty, crashes>>

(* INSERT OR REPLACE: the row is pending, whatever it was.                 *)
WriteEvidence ==
  /\ writer = "storing"
  /\ payload[job].kind \in Claims
  /\ row' = [row EXCEPT ![job] = "pending"]
  /\ Stored
  /\ UNCHANGED <<busVars, payload, saved, refused, main, work, hasty, crashes>>

Sets(r, status) == row' = IF row[r] = "none" THEN row ELSE [row EXCEPT ![r] = status]

(* One UPDATE, whatever the status is; NotFound without a row.             *)
VerifyRow ==
  /\ writer = "storing"
  /\ payload[job].kind = "verify"
  /\ Sets(payload[job].of, "verified")
  /\ Stored
  /\ UNCHANGED <<busVars, payload, saved, refused, main, work, hasty, crashes>>

(* fail first reads the row's metadata, then writes the row.               *)
FailReads ==
  /\ writer = "storing"
  /\ payload[job].kind = "reject"
  /\ IF row[payload[job].of] = "none" THEN Stored ELSE writer' = "failing" /\ UNCHANGED job
  /\ UNCHANGED <<busVars, payload, table, main, work, hasty, crashes>>

FailWrites ==
  /\ writer = "failing"
  /\ Sets(payload[job].of, "failed")
  /\ Stored
  /\ UNCHANGED <<busVars, payload, saved, refused, main, work, hasty, crashes>>

(* Mutant: the error ends the loop.                                        *)
StopOnError ==
  /\ writer \in {"storing", "failing"}
  /\ Cardinality(refused) < MaxErrors
  /\ refused' = refused \cup {job}
  /\ writer' = "stopped"
  /\ job' = 0
  /\ UNCHANGED <<busVars, payload, row, saved, main, work, hasty, crashes>>

(* A statement fails: a warning, and the message is gone.                  *)
StoreErrs ==
  /\ writer \in {"storing", "failing"}
  /\ Cardinality(refused) < MaxErrors
  /\ refused' = refused \cup {job}
  /\ Stored
  /\ UNCHANGED <<busVars, payload, row, saved, main, work, hasty, crashes>>

(* The bus dropped the writer's sender and the queue is empty.             *)
WriterStops ==
  /\ writer = "receiving"
  /\ Writer \notin subscribers
  /\ queue[Writer] = <<>>
  /\ writer' = "stopped"
  /\ rx' = [rx EXCEPT ![Writer] = "dropped"]
  /\ UNCHANGED <<running, clearing, subscribers, churn, queue, waiting, channels, members,
                 hasHistory, channelHistory, history, feed, calls,
                 payload, table, main, job, work, hasty, crashes>>

WriterStep ==
  \/ WriterTakes
  \/ StoreChat
  \/ WriteEvidence
  \/ VerifyRow
  \/ FailReads
  \/ FailWrites
  \/ StoreErrs
  \/ WriterStops

-----------------------------------------------------------------------------
Pending == {i \in 1..MaxMsgs : row[i] = "pending"}

(* Nothing is under way: what the verifier finds on most of its ticks,     *)
(* which are seconds apart.  In the bound it finds anything else MaxHasty  *)
(* times.                                                                  *)
Settled ==
  /\ main = "up"
  /\ writer = "receiving"
  /\ queue[Writer] = <<>>
  /\ \A t \in Task : phase[t] = "idle"

(* Mutant: the newest rows come first.                                     *)
Newest(limit) == {r \in Pending : Cardinality({q \in Pending : q > r}) < limit}

(* pending(limit): the oldest rows.  A row is as old as its message; the   *)
(* seconds the code counts in are taken to tell them apart.                *)
Oldest(limit) == {r \in Pending : Cardinality({q \in Pending : q < r}) < limit}

(* Mutant: the query has no limit.                                         *)
PollAll ==
  /\ main \notin {"boot", "over"}
  /\ work = {}
  /\ phase[VerifierTask] = "idle"
  /\ Settled \/ hasty < MaxHasty
  /\ hasty' = IF Settled THEN hasty ELSE hasty + 1
  /\ work' = {r \in Pending : payload[r].kind # "skip"}
  /\ work' # {}
  /\ UNCHANGED <<busVars, payload, table, main, writer, job, crashes>>

(* Mutant: a verdict is broadcast once, whether it arrives or not.         *)
PollOnce ==
  /\ main \notin {"boot", "over"}
  /\ work = {}
  /\ phase[VerifierTask] = "idle"
  /\ Settled \/ hasty < MaxHasty
  /\ hasty' = IF Settled THEN hasty ELSE hasty + 1
  /\ work' = {r \in Oldest(PollLimit) : payload[r].kind # "skip" /\ \A i \in 1..Len(payload) : payload[i].of # r}
  /\ work' # {}
  /\ UNCHANGED <<busVars, payload, table, main, writer, job, crashes>>

(* A tick of the verifier.  Rows the rule skips need no more steps.        *)
Poll ==
  /\ main \notin {"boot", "over"}
  /\ work = {}
  /\ phase[VerifierTask] = "idle"
  /\ Settled \/ hasty < MaxHasty
  /\ hasty' = IF Settled THEN hasty ELSE hasty + 1
  /\ work' = {r \in Oldest(PollLimit) : payload[r].kind # "skip"}
  /\ work' # {}
  /\ UNCHANGED <<busVars, payload, table, main, writer, job, crashes>>

(* Mutant: the outcome is not looked at.                                   *)
RuleBlind(r) == Verdict(r, "verify", "rule")

RuleOf(r) == Verdict(r, IF payload[r].kind = "pass" THEN "verify" ELSE "reject", "rule")

(* emit_verdict for the next row, as it was when polled; an error is       *)
(* dropped.                                                                *)
EmitVerdict ==
  /\ phase[VerifierTask] = "idle"
  /\ \E r \in work :
       /\ \A q \in work : r <= q
       /\ work' = work \ {r}
       /\ \/ Broadcast(VerifierTask, RuleOf(r))
          \/ /\ ~running /\ clearing = {}
             /\ UNCHANGED <<busVars, payload>>
  /\ UNCHANGED <<table, main, writer, job, hasty, crashes>>

VerifierStep == Poll \/ EmitVerdict

-----------------------------------------------------------------------------
(* run_tui ends the orderly way: the bus is shut down while the tasks run   *)
(* on ...                                                                  *)
Quit ==
  /\ main = "up"
  /\ Shutdown
  /\ main' = "quit"
  /\ UNCHANGED <<payload, table, writer, job, work, hasty, crashes>>

(* What is left of a process that ends: the tables.                        *)
ProcessEnds ==
  /\ writer' = "none"
  /\ job' = 0
  /\ work' = {}
  /\ running' = FALSE
  /\ clearing' = {}
  /\ subscribers' = {}
  /\ rx' = [a \in Agent |-> "dropped"]
  /\ queue' = [a \in Agent |-> <<>>]
  /\ waiting' = [a \in Agent |-> <<>>]
  /\ channels' = {}
  /\ members' = [c \in ChannelName |-> [a \in Agent |-> "Out"]]
  /\ hasHistory' = {}
  /\ channelHistory' = [c \in ChannelName |-> <<>>]
  /\ history' = <<>>
  /\ feed' = <<>>
  /\ phase' = [t \in Task |-> "idle"]
  /\ call' = [t \in Task |-> NoCall]
  /\ todo' = [t \in Task |-> {}]
  /\ pos' = [t \in Task |-> 0]
  /\ churn' = 0
  /\ UNCHANGED <<sent, payload, table, hasty>>

(* ... then main returns, whatever is queued, and the tasks are cancelled. *)
Exit ==
  /\ main = "quit"
  /\ clearing = {}
  /\ main' = "over"
  /\ ProcessEnds
  /\ UNCHANGED crashes

(* The program is started anew after its process has ended, be it by       *)
(* accident, at any moment, or by quitting.                                *)
Restart ==
  /\ crashes < MaxCrashes
  /\ crashes' = crashes + 1
  /\ main' = "boot"
  /\ ProcessEnds

BusStep ==
  \/ \E t \in Task : Progress(t)
  \/ CreateInsert(Main)
  \/ CreateHistory(Main)
  \/ Receive(User)
  \/ \E s \in Shards : ClearShard(s)

(* What happens without the user and without an accident.                  *)
SystemStep ==
  \/ Startup
  \/ WriterStep
  \/ VerifierStep
  \/ Exit
  \/ BusStep /\ UNCHANGED <<payload, table, local, crashes>>

PNext ==
  \/ SystemStep
  \/ \E t \in UserTasks, text \in Texts : Say(t, text)
  \/ \E t \in UserTasks, r \in 1..MaxMsgs, kind \in {"verify", "reject"} : HumanVerdict(t, r, kind)
  \/ Quit
  \/ Restart

PSpec == PInit /\ [][PNext]_pvars

(* The scheduler runs every task that can run, the database answers and    *)
(* the timers tick.  Nothing is asked of the user.  Every behaviour of the *)
(* system alone is finite, so one condition serves all its steps.          *)
FairPSpec == PSpec /\ WF_pvars(SystemStep)

-----------------------------------------------------------------------------
(* Every variable stays in its type, and the verifier never holds more     *)
(* rows than it asks for.                                                  *)
MemoryTypeOK ==
  /\ payload \in Seq(Payloads)
  /\ Len(payload) = sent
  /\ row \in [1..MaxMsgs -> {"none", "pending", "verified", "failed"}]
  /\ saved \subseteq 1..MaxMsgs
  /\ main \in {"boot", "loading", "creating", "joining", "up", "quit", "over"}
  /\ writer \in {"none", "spawned", "subscribed", "receiving", "storing", "failing", "stopped"}
  /\ job \in 0..Len(payload)
  /\ (job # 0) = (writer \in {"storing", "failing"})
  /\ work \subseteq 1..Len(payload)
  /\ Cardinality(work) <= PollLimit
  /\ refused \subseteq 1..MaxMsgs
  /\ hasty \in 0..MaxHasty
  /\ crashes \in 0..MaxCrashes

(* Whatever is broadcast, stored, lost, repeated or cut off by a crash, a  *)
(* row goes from pending to one verdict and stays there (lib.rs:109-118).  *)
Evidence == INSTANCE EvidenceLifecycle WITH Evidence <- 1..MaxMsgs, status <- row
ImplementsLifecycle == Evidence!Spec

JudgedByUser(r, kind) == \E i \in 1..Len(payload) : payload[i] = Verdict(r, kind, "user")

(* A row ends as the rule judges the claim it was made from, or as the     *)
(* user judged that row: no verdict is written to another row or to the    *)
(* other side (verifier.rs:70-80, writer.rs:96-124).                       *)
VerdictsFit ==
  \A r \in 1..MaxMsgs :
    /\ row[r] = "verified" => payload[r].kind = "pass" \/ JudgedByUser(r, "verify")
    /\ row[r] = "failed" => payload[r].kind = "fail" \/ JudgedByUser(r, "reject")

(* A claim the rule can judge gets its verdict although a verdict may be   *)
(* lost before the channel is there, refused by the database or cut off by *)
(* a crash: the verifier asks again (verifier.rs:62-80).  The exception is *)
(* a claim behind as many older ones that the rule skips as the verifier   *)
(* asks for: those stay pending and are all it ever gets.                  *)
Starved(r) == Cardinality({q \in Pending : q < r /\ payload[q].kind = "skip"}) >= PollLimit
ClaimsGetJudged ==
  \A r \in 1..MaxMsgs :
    row[r] = "pending" /\ payload[r].kind # "skip"
      ~> row[r] # "pending" \/ Starved(r) \/ main \in {"quit", "over"}

(* A claim in the writer's queue becomes a row, whatever the messages      *)
(* before it come to, unless its own statement is refused or the process   *)
(* ends first, by accident or because the user quits: main does not wait   *)
(* for the writer (writer.rs:35-95, 244-246, main.rs:409-412).             *)
Queued(r) == \E i \in 1..Len(queue[Writer]) : queue[Writer][i].id = r
QueuedClaimsAreStored ==
  \A r \in 1..MaxMsgs :
    Queued(r) /\ payload[r].kind \in Claims
      ~> row[r] # "none" \/ r \in refused \/ main \in {"boot", "over"}

(* A writer that receives is on the channel it writes down (writer.rs:8-9, *)
(* 28-33).                                                                 *)
WriterIsMember ==
  main = "up" /\ writer = "receiving" => members[General][Writer] = "Full"
=============================================================================
