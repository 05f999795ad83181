----------------------------- MODULE SetupWizard -----------------------------
(***************************************************************************)
(* The first-run wizard (ch-tui setup.rs) and the environment scanner      *)
(* behind it (ch-agent scanner.rs): the user ticks local environments,     *)
(* types SSH hosts, the scanner asks each of them for the known command    *)
(* line agents, the user ticks some, and one agent.toml is written per     *)
(* ticked agent, in a directory named after the agent and its environment. *)
(* Drawing is left out; the keys, the order and the early exits are not.   *)
(***************************************************************************)
EXTENDS Naturals, Sequences, FiniteSets, Selections

CONSTANTS Local,      \* the local environments detected, in order: EnvType records
          Remote,     \* the SSH targets the user may type
          KnownAgents, \* the well-known agents, in the order they are looked for
          MaxPresses, \* bound on the keys pressed in one picker
          MaxRemotes  \* bound on the SSH hosts typed

VARIABLES
    screen,    \* "start" | "local" | "ssh" | "scan" | "pick" | "write" | "over" | "exited" | "failed"
    terminal,  \* "cooked" | "raw": raw mode with the alternate screen
    os,        \* the operating system
    ticked,    \* local picker: per local environment
    caret,     \* the cursor of the picker on the screen
    targets,   \* the environments to scan, in order
    unscanned, \* those the scanner has not asked yet
    agentRows, \* ScanResults.agents: [bin, env, selected]
    unwritten, \* the agents whose manifest is still to be considered
    disk,      \* the manifests in plugins/agents: [name, bin, env, whole]
    before,    \* those that were there when the wizard started (history)
    confirmed, \* whether the selection was left with Enter (history)
    written,   \* the manifests this wizard wrote, or left torn (history)
    presses

suvars == <<screen, terminal, os, ticked, caret, targets, unscanned, agentRows, unwritten,
            disk, before, confirmed, written, presses>>

\* label: what the wizard shows; suffix: what the agent's directory is called after.
EnvType == [kind : {"native", "wsl", "ssh"}, label : STRING, suffix : STRING]

ASSUME SetupAssumption ==
    /\ Local \in Seq(EnvType) /\ Local # <<>> /\ Local[1].kind = "native"
    /\ Remote \subseteq EnvType
    /\ KnownAgents \in Seq(STRING)
    /\ MaxPresses \in Nat /\ MaxRemotes \in Nat

Present == {KnownAgents[i] : i \in DOMAIN KnownAgents}

\* The last label of a host name stands for the host, and its user for nothing.
ManifestName(a) == <<a.bin, a.env.suffix>>
Manifest(a) == [name |-> ManifestName(a), bin |-> a.bin, env |-> a.env, whole |-> TRUE]

\* fs::write empties the file first: one that then fails leaves none or a part
\* of the manifest under its name.
Half(f) == [name |-> f.name, bin |-> f.bin, env |-> f.env, whole |-> FALSE]

NeedsSetup == disk = {}

\* WSL distributions are looked for on Windows only.
Detected == Selected(Local, {i \in DOMAIN Local : Local[i].kind # "wsl" \/ os = "windows"})

\* What can be found where: the native search runs "where", which only
\* Windows has; the others run a probe script in a login shell.
Findable(e) == IF e.kind = "native" /\ os # "windows" THEN {} ELSE Present

Chosen(sel, envs) == Selected(envs, {i \in DOMAIN envs : sel[i]})

OldFiles == {Manifest([bin |-> b, env |-> Local[1]]) : b \in Present}

SuInit ==
    /\ screen = "start" /\ terminal = "cooked"
    /\ os \in {"windows", "linux"}
    /\ ticked = <<>> /\ caret = 1 /\ targets = <<>> /\ unscanned = <<>>
    /\ agentRows = <<>> /\ unwritten = <<>>
    /\ disk \in SUBSET OldFiles /\ before = disk
    /\ confirmed = FALSE /\ written = {} /\ presses = 0

\* `crow` starts the wizard when no agent is configured, `crow setup` always.
StartWizard(asked) ==
    /\ screen = "start" /\ (asked \/ NeedsSetup)
    /\ screen' = "local" /\ terminal' = "raw" /\ caret' = 1
    /\ ticked' = [i \in DOMAIN Detected |-> TRUE]
    /\ UNCHANGED <<os, targets, unscanned, agentRows, unwritten, disk, confirmed, written, presses>>

\* Mutant: Down goes one row too far.
MoveCaretPast(n) ==
    /\ presses < MaxPresses /\ presses' = presses + 1
    /\ \/ caret > 1 /\ caret' = caret - 1
       \/ caret <= n /\ caret' = caret + 1

\* Up and Down, in either picker of n rows.
MoveCaret(n) ==
    /\ presses < MaxPresses /\ presses' = presses + 1
    /\ \/ caret > 1 /\ caret' = caret - 1
       \/ caret < n /\ caret' = caret + 1

LocalKey ==
    /\ screen = "local"
    /\ \/ MoveCaret(Len(Detected)) /\ UNCHANGED ticked
       \/ /\ presses < MaxPresses /\ presses' = presses + 1
          /\ ticked' = [ticked EXCEPT ![caret] = ~@]
          /\ UNCHANGED caret
    /\ UNCHANGED <<screen, terminal, os, targets, unscanned, agentRows, unwritten, disk,
                   confirmed, written>>

\* Enter keeps the ticked environments, Esc none; either way the SSH screen is next.
LeaveLocal(key) ==
    /\ screen = "local"
    /\ targets' = IF key = "enter" THEN Chosen(ticked, Detected) ELSE <<>>
    /\ screen' = "ssh" /\ presses' = 0
    /\ UNCHANGED <<terminal, os, ticked, caret, unscanned, agentRows, unwritten, disk,
                   confirmed, written>>

\* a: host and user are read in cooked mode; a blank one adds nothing.  The
\* same host may be added again.
AddRemote(e) ==
    /\ screen = "ssh" /\ presses < MaxRemotes
    /\ presses' = presses + 1
    /\ targets' = Append(targets, e)
    /\ UNCHANGED <<screen, terminal, os, ticked, caret, unscanned, agentRows, unwritten, disk,
                   confirmed, written>>

\* Enter: the terminal is given back for the scan.
LeaveSsh ==
    /\ screen = "ssh"
    /\ screen' = "scan" /\ terminal' = "cooked"
    /\ unscanned' = targets
    /\ UNCHANGED <<os, ticked, caret, targets, agentRows, unwritten, disk, confirmed, written, presses>>

\* Esc or Ctrl-C: the process exits there and then, its terminal still raw.
ExitFromSsh ==
    /\ screen = "ssh"
    /\ screen' = "exited"
    /\ UNCHANGED <<terminal, os, ticked, caret, targets, unscanned, agentRows, unwritten, disk,
                   confirmed, written, presses>>

\* scan, one target: the known agents found there, in the order of the list, unticked.
Found(e, bins) == LET here == Selected(KnownAgents, {i \in DOMAIN KnownAgents : KnownAgents[i] \in bins}) IN
    [i \in DOMAIN here |-> [bin |-> here[i], env |-> e, selected |-> FALSE]]

ScanTarget(bins) ==
    /\ screen = "scan" /\ unscanned # <<>>
    /\ bins \subseteq Findable(Head(unscanned))
    /\ agentRows' = agentRows \o Found(Head(unscanned), bins)
    /\ unscanned' = Tail(unscanned)
    /\ UNCHANGED <<screen, terminal, os, ticked, caret, targets, unwritten, disk, confirmed,
                   written, presses>>

\* Nothing found ends the wizard; anything found opens the selection.
ScanOver ==
    /\ screen = "scan" /\ unscanned = <<>>
    /\ IF agentRows = <<>> THEN screen' = "over" /\ UNCHANGED terminal
                           ELSE screen' = "pick" /\ terminal' = "raw"
    /\ caret' = 1 /\ presses' = 0
    /\ UNCHANGED <<os, ticked, targets, unscanned, agentRows, unwritten, disk, confirmed, written>>

SetAll(rows, b) == [i \in DOMAIN rows |-> [rows[i] EXCEPT !.selected = b]]

\* Space ticks the caret's agent, a ticks all, or none when all are ticked.
PickKey ==
    /\ screen = "pick"
    /\ \/ MoveCaret(Len(agentRows)) /\ UNCHANGED agentRows
       \/ /\ presses < MaxPresses /\ presses' = presses + 1
          /\ \/ agentRows' = [agentRows EXCEPT ![caret].selected = ~@]
             \/ agentRows' = SetAll(agentRows, \E i \in DOMAIN agentRows : ~agentRows[i].selected)
          /\ UNCHANGED caret
    /\ UNCHANGED <<screen, terminal, os, ticked, targets, unscanned, unwritten, disk, confirmed,
                   written>>

\* Mutant: Esc leaves the ticks as they are.
TicksStay(key) == agentRows

\* Enter keeps the ticks; Esc and Ctrl-C clear them, so that nothing is written.
TicksKept(key) == IF key = "enter" THEN agentRows ELSE SetAll(agentRows, FALSE)

LeavePick(key) ==
    /\ screen = "pick"
    /\ agentRows' = TicksKept(key)
    /\ unwritten' = TicksKept(key)
    /\ confirmed' = (key = "enter")
    /\ screen' = "write" /\ terminal' = "cooked"
    /\ UNCHANGED <<os, ticked, caret, targets, unscanned, disk, written, presses>>

\* A file of that name is written over.
Replace(f) ==
    /\ disk' = {g \in disk : g.name # f.name} \cup {f}
    /\ written' = written \cup {f}

\* One agent: an unticked one is skipped, and the first failure ends the wizard
\* with what was written so far: the directory or the file cannot be made, or
\* what goes into it.
WriteManifest(outcome) ==
    /\ screen = "write" /\ unwritten # <<>>
    /\ LET a == Head(unwritten) IN
       \/ ~a.selected /\ UNCHANGED <<disk, written, screen>>
       \/ a.selected /\ outcome = "written" /\ Replace(Manifest(a)) /\ UNCHANGED screen
       \/ a.selected /\ outcome = "torn" /\ Replace(Half(Manifest(a))) /\ screen' = "failed"
       \/ a.selected /\ outcome = "refused" /\ UNCHANGED <<disk, written>> /\ screen' = "failed"
    /\ unwritten' = Tail(unwritten)
    /\ UNCHANGED <<terminal, os, ticked, caret, targets, unscanned, agentRows, confirmed, presses>>

Written ==
    /\ screen = "write" /\ unwritten = <<>>
    /\ screen' = "over"
    /\ UNCHANGED <<terminal, os, ticked, caret, targets, unscanned, agentRows, unwritten, disk,
                   confirmed, written, presses>>

SuStep == \/ \E asked \in BOOLEAN : StartWizard(asked)
          \/ LocalKey \/ LeaveSsh \/ ExitFromSsh \/ ScanOver \/ PickKey \/ Written
          \/ \E key \in {"enter", "esc"} : LeaveLocal(key) \/ LeavePick(key)
          \/ \E e \in Remote : AddRemote(e)
          \/ \E bins \in SUBSET Present : ScanTarget(bins)
          \/ \E outcome \in {"written", "torn", "refused"} : WriteManifest(outcome)

SuNext == SuStep /\ UNCHANGED before

SuSpec == SuInit /\ [][SuNext]_suvars

----------------------------------------------------------------------------
SetupTypeOK ==
    /\ screen = "local" => caret \in DOMAIN Detected /\ ticked \in [DOMAIN Detected -> BOOLEAN]
    /\ screen = "pick" => caret \in DOMAIN agentRows
    /\ \A i \in DOMAIN targets : targets[i] \in Remote \cup {Local[j] : j \in DOMAIN Local}
    /\ \A i \in DOMAIN agentRows : agentRows[i].bin \in Present
    /\ terminal \in {"cooked", "raw"}

\* The wizard writes what the user asked for and touches nothing else: a
\* manifest only for an agent that was ticked when Enter was pressed, found in
\* an environment that was ticked or typed, and a torn one only where it then
\* failed; every other file is one that was there, and every file that was
\* there stays unless one it wrote took its name; and once the wizard is over
\* every ticked agent has a whole manifest of this wizard's under its name, be
\* it that of a later agent of that name (setup.rs:72-118, scanner.rs:682-695).
WritesWhatWasPicked ==
    LET picked == {Manifest(agentRows[i]) : i \in {j \in DOMAIN agentRows : agentRows[j].selected}}
    IN  /\ \A f \in written : f \in picked \/ (screen = "failed" /\ \E g \in picked : f = Half(g))
        /\ written # {} => confirmed
        /\ \A f \in written : \E i \in DOMAIN targets : targets[i] = f.env
        /\ disk \subseteq before \cup written
        /\ \A f \in before \ disk : \E g \in written \cap disk : g.name = f.name
        /\ screen = "over" => {f.name : f \in picked} \subseteq {f.name : f \in written \cap disk}
=============================================================================
