--------------------------- MODULE SubprocessDriver ---------------------------
(***************************************************************************)
(* The subprocess driver (crates/ch-agent/src/drivers/subprocess.rs): one  *)
(* child behind a mutex, which chats of the agent's handler and of callers *)
(* of the runtime share with stop().                                       *)
(*                                                                         *)
(* In the persistent modes a chat takes the child that is there or starts  *)
(* one, for which it gives the lock up: start() spawns, then locks to      *)
(* store.  It writes its prompt, for as long as the child takes to read    *)
(* it, closes the child's input, reads to the end of its output, or for    *)
(* 120 seconds, all under the lock, and leaves no child behind.  In argv   *)
(* mode each chat has a process of its own.                                *)
(***************************************************************************)
EXTENDS Naturals, FiniteSets

CONSTANTS
  Caller,       (* tasks that chat, once each                               *)
  MaxProc,      (* bound of the model: processes spawned                    *)
  MaxTrouble    (* bound of the model: spawns and writes that fail,         *)
                (* timeouts, processes that exit by themselves or turn away *)
                (* from their input                                         *)

ASSUME DriverAssumption == MaxProc \in Nat /\ MaxTrouble \in Nat

VARIABLES
  mode,      (* config.input_mode: "argv", or "persistent" (json and plain) *)
  child,     (* the process in the mutex, 0 for None                        *)
  guard,     (* who holds the mutex: a set of at most one                   *)
  at,        (* where each caller stands                                    *)
  mine,      (* by caller: the process it has spawned or uses, or 0         *)
  proc,      (* by process: "unborn", "running", "exited", "killed"         *)
  asked,     (* by process: the callers whose prompt it was given           *)
  input,     (* by process: its stdin has not been closed by the driver     *)
  pipe,      (* by process: its end of stdin, "read", "full" (it does not   *)
             (* read on: a write waits) or "shut" (it has closed it)        *)
  result,    (* by caller: what its chat returned                           *)
  stopper,   (* where a caller of stop() stands                             *)
  trouble    (* bound: troubles so far                                      *)

procs == <<proc, asked, input, pipe>>
spvars == <<mode, child, guard, at, mine, procs, result, stopper, trouble>>

Proc == 1..MaxProc

SpInit ==
  /\ mode \in {"argv", "persistent"}
  /\ child = 0
  /\ guard = {}
  /\ at = [c \in Caller |-> "idle"]
  /\ mine = [c \in Caller |-> 0]
  /\ proc = [p \in Proc |-> "unborn"]
  /\ asked = [p \in Proc |-> {}]
  /\ input = [p \in Proc |-> FALSE]
  /\ pipe = [p \in Proc |-> "read"]
  /\ result = [c \in Caller |-> "none"]
  /\ stopper = "idle"
  /\ trouble = 0

Fails == trouble < MaxTrouble /\ trouble' = trouble + 1
Go(c, there) == at' = [at EXCEPT ![c] = there]
Return(c, r) == Go(c, "done") /\ result' = [result EXCEPT ![c] = r]

(* Command::spawn: the next process.                                       *)
Spawn(p, prompts) ==
  /\ proc[p] = "unborn" /\ \A q \in 1..(p - 1) : proc[q] # "unborn"
  /\ proc' = [proc EXCEPT ![p] = "running"]
  /\ asked' = [asked EXCEPT ![p] = prompts]
  /\ input' = [input EXCEPT ![p] = prompts = {}]
  /\ UNCHANGED pipe

-----------------------------------------------------------------------------
(* Argv mode: a process for this message, which has the prompt from birth; *)
(* nobody but its chat can end the wait, and no timeout does.              *)
ChatArgv(c, p) ==
  /\ mode = "argv" /\ at[c] = "idle"
  /\ Spawn(p, {c})
  /\ mine' = [mine EXCEPT ![c] = p]
  /\ Go(c, "output")
  /\ UNCHANGED <<child, guard, result, stopper, trouble>>

(* A failure to spawn, or a status other than success, is an error.        *)
ChatArgvFails(c) ==
  /\ mode = "argv" /\ at[c] = "idle"
  /\ Fails
  /\ Return(c, "error")
  /\ UNCHANGED <<child, guard, mine, procs, stopper>>

(* chat waits for the end, and tells a failure by the exit status.         *)
ArgvOutput(c) ==
  /\ at[c] = "output"
  /\ proc[mine[c]] = "exited"
  /\ \/ Return(c, "ok") /\ UNCHANGED trouble
     \/ Return(c, "error") /\ Fails
  /\ UNCHANGED <<child, guard, mine, procs, stopper>>

(* stream_chat spawns as chat does and hands back the stream, whose reader *)
(* is the caller from here on.                                             *)
StreamArgv(c, p) ==
  /\ mode = "argv" /\ at[c] = "idle"
  /\ Spawn(p, {c})
  /\ mine' = [mine EXCEPT ![c] = p]
  /\ Go(c, "streaming")
  /\ UNCHANGED <<child, guard, result, stopper, trouble>>

(* Its lines end with the process, and the stream with a final chunk that  *)
(* knows no exit status; a line that cannot be read ends the process, and  *)
(* the stream in the same way.  The caller may also stop reading: that     *)
(* drops the child and leaves it running.                                  *)
StreamOver(c) ==
  /\ at[c] = "streaming"
  /\ \/ proc[mine[c]] = "exited" /\ UNCHANGED <<proc, trouble>> /\ Return(c, "ok")
     \/ proc[mine[c]] = "running" /\ Fails /\ Return(c, "ok")
        /\ proc' = [proc EXCEPT ![mine[c]] = "killed"]
     \/ proc[mine[c]] = "running" /\ Fails /\ Return(c, "error") /\ UNCHANGED proc
  /\ UNCHANGED <<child, guard, mine, asked, input, pipe, stopper>>

(* The persistent modes: chat is called, and waits for the lock.           *)
ChatAsk(c) ==
  /\ mode = "persistent" /\ at[c] = "idle"
  /\ Go(c, "locking")
  /\ UNCHANGED <<child, guard, mine, procs, result, stopper, trouble>>

(* The first lock.                                                         *)
ChatLock(c) ==
  /\ at[c] = "locking" /\ guard = {}
  /\ IF child = 0
     THEN Go(c, "starting") /\ UNCHANGED guard
     ELSE Go(c, "writing") /\ guard' = {c}
  /\ UNCHANGED <<child, mine, procs, result, stopper, trouble>>

Start(c, p) ==
  /\ at[c] = "starting"
  /\ Spawn(p, {})
  /\ mine' = [mine EXCEPT ![c] = p]
  /\ Go(c, "storing")
  /\ UNCHANGED <<child, guard, result, stopper, trouble>>

StartFails(c) ==
  /\ at[c] = "starting"
  /\ Fails
  /\ Return(c, "error")
  /\ UNCHANGED <<child, guard, mine, procs, stopper>>

(* start() stores its child over one that may be there: that one is        *)
(* dropped, which does not end it.                                         *)
Store(c) ==
  /\ at[c] = "storing" /\ guard = {}
  /\ child' = mine[c]
  /\ Go(c, "relock")
  /\ UNCHANGED <<guard, mine, procs, result, stopper, trouble>>

(* Another chat, or stop(), may have come in between.                      *)
Relock(c) ==
  /\ at[c] = "relock" /\ guard = {}
  /\ IF child = 0
     THEN Return(c, "error") /\ UNCHANGED guard
     ELSE Go(c, "writing") /\ guard' = {c} /\ UNCHANGED result
  /\ UNCHANGED <<child, mine, procs, stopper, trouble>>

(* The prompt goes in and the input is closed.  No timeout is on write_all *)
(* and flush: a child that lives and does not read on keeps the chat here, *)
(* and the lock with it.                                                   *)
Write(c) ==
  /\ at[c] = "writing"
  /\ input[child] /\ proc[child] = "running" /\ pipe[child] = "read"
  /\ asked' = [asked EXCEPT ![child] = @ \cup {c}]
  /\ input' = [input EXCEPT ![child] = FALSE]
  /\ mine' = [mine EXCEPT ![c] = child]
  /\ Go(c, "reading")
  /\ UNCHANGED <<child, guard, proc, pipe, result, stopper, trouble>>

(* A child that has exited, or has closed its input and lives on, takes no *)
(* whole prompt: the error leaves it in place, its input open on this side *)
(* and its output untaken, for the next chat to find it so.                *)
WriteFails(c) ==
  /\ at[c] = "writing"
  /\ input[child] /\ (proc[child] # "running" \/ pipe[child] = "shut")
  /\ Return(c, "error")
  /\ guard' = {}
  /\ UNCHANGED <<child, mine, procs, stopper, trouble>>

(* A child whose input is closed already is not written to, and its output *)
(* has been taken: "stdout unavailable".                                   *)
UsedUp(c) ==
  /\ at[c] = "writing"
  /\ ~input[child]
  /\ Return(c, "used up")
  /\ guard' = {}
  /\ UNCHANGED <<child, mine, procs, stopper, trouble>>

(* Mutant: the child is left in place after its answer.                    *)
KeepChild(c) ==
  /\ at[c] = "reading"
  /\ \/ proc[child] = "exited" /\ Return(c, "ok") /\ UNCHANGED trouble
     \/ proc[child] = "running" /\ Return(c, "error") /\ Fails
  /\ guard' = {}
  /\ UNCHANGED <<child, mine, procs, stopper>>

(* Mutant: the answer is awaited for ever.                                 *)
ReadForEver(c) ==
  /\ at[c] = "reading"
  /\ proc[child] = "exited"
  /\ Return(c, "ok")
  /\ child' = 0
  /\ guard' = {}
  /\ UNCHANGED <<mine, procs, stopper, trouble>>

(* To the end of its output, which the child closes when it exits; or for  *)
(* 120 seconds, which leave it running.                                    *)
Read(c) ==
  /\ at[c] = "reading"
  /\ \/ proc[child] = "exited" /\ Return(c, "ok")
     \/ proc[child] = "running" /\ Return(c, "timed out")
  /\ child' = 0
  /\ guard' = {}
  /\ UNCHANGED <<mine, procs, stopper, trouble>>

-----------------------------------------------------------------------------
(* stop(): waits for the lock, kills the child and reaps it.               *)
Stop ==
  /\ stopper = "idle" /\ guard = {}
  /\ proc' = [p \in Proc |-> IF p = child THEN "killed" ELSE proc[p]]
  /\ child' = 0
  /\ stopper' = "done"
  /\ UNCHANGED <<guard, at, mine, asked, input, pipe, result, trouble>>

(* The agent's program ends, its answer given or not asked for.            *)
Exit(p) ==
  /\ proc[p] = "running"
  /\ IF asked[p] = {} /\ pipe[p] = "read" THEN Fails ELSE UNCHANGED trouble
  /\ proc' = [proc EXCEPT ![p] = "exited"]
  /\ UNCHANGED <<child, guard, at, mine, asked, input, pipe, result, stopper>>

(* The agent's program lives and does not read its input on, or closes it: *)
(* whenever it does, it shows when a chat is there to write.               *)
TurnsAway(p) ==
  /\ p = child /\ \E c \in Caller : at[c] = "writing"
  /\ proc[p] = "running" /\ input[p] /\ pipe[p] = "read"
  /\ Fails
  /\ \E end \in {"full", "shut"} : pipe' = [pipe EXCEPT ![p] = end]
  /\ UNCHANGED <<child, guard, at, mine, proc, asked, input, result, stopper>>

ChatStep(c) ==
  \/ \E p \in Proc : Start(c, p)
  \/ ChatLock(c) \/ StartFails(c) \/ Store(c) \/ Relock(c)
  \/ Write(c) \/ WriteFails(c) \/ UsedUp(c) \/ Read(c)

(* The mode is a matter of the agent's manifest.                           *)
SpStep ==
  \/ \E c \in Caller :
       \/ \E p \in Proc : ChatArgv(c, p) \/ StreamArgv(c, p)
       \/ ChatArgvFails(c) \/ ArgvOutput(c) \/ StreamOver(c) \/ ChatAsk(c) \/ ChatStep(c)
  \/ Stop
  \/ \E p \in Proc : Exit(p) \/ TurnsAway(p)

SpNext == SpStep /\ UNCHANGED mode

SpSpec == SpInit /\ [][SpNext]_spvars

-----------------------------------------------------------------------------
DriverTypeOK ==
  /\ mode \in {"argv", "persistent"}
  /\ child \in 0..MaxProc
  /\ guard \subseteq Caller /\ Cardinality(guard) <= 1
  /\ at \in [Caller -> {"idle", "output", "streaming", "locking", "starting", "storing",
                        "relock", "writing", "reading", "done"}]
  /\ mine \in [Caller -> 0..MaxProc]
  /\ proc \in [Proc -> {"unborn", "running", "exited", "killed"}]
  /\ asked \in [Proc -> SUBSET Caller]
  /\ input \in [Proc -> BOOLEAN]
  /\ pipe \in [Proc -> {"read", "full", "shut"}]
  /\ result \in [Caller -> {"none", "ok", "error", "timed out", "used up"}]
  /\ stopper \in {"idle", "done"}
  /\ trouble \in 0..MaxTrouble

(* A chat that finds a child finds one it can use: none that another chat  *)
(* has prompted, closed the input of or taken the output of, whatever      *)
(* chats start children over one another's, stop() comes between, and      *)
(* children exit by themselves; and its answer comes from a process that   *)
(* had its prompt and no other (subprocess.rs:577-660, 860-868).           *)
AnswerIsOwn ==
  \A c \in Caller :
    /\ result[c] # "used up"
    /\ result[c] = "ok" => asked[mine[c]] = {c}

(* A chat writes to a child that lives and does not read.                  *)
WriteStuck == \E c \in Caller : at[c] = "writing" /\ pipe[child] = "full" /\ proc[child] = "running"

(* Every chat of a persistent mode that was called returns, those that     *)
(* wait behind others for the lock included, though a child may never      *)
(* answer, exit, close its input or be taken away by stop(), unless some   *)
(* chat is for ever in its write to a child that lives and does not read,  *)
(* the one wait under the lock that has no timeout                         *)
(* (subprocess.rs:577-660).                                                *)
ChatsReturn ==
  \/ <>[]WriteStuck
  \/ \A c \in Caller : at[c] = "locking" ~> at[c] = "done"

=============================================================================
