------------------------------ MODULE TerminalUI ------------------------------
(***************************************************************************)
(* The terminal of the hub (crates/ch-tui/src/app.rs, and the bridge that  *)
(* run_tui in main.rs puts between the bus and the chat panel): one loop   *)
(* that draws, handles one event and, on a tick, appends what the bridge   *)
(* has left for the chat.                                                  *)
(*                                                                         *)
(* A text the user types is one step, in a state in which each of its      *)
(* letters goes into the input; the letters that are bound to something    *)
(* else in some state are keys with actions of their own.  The scroll      *)
(* offsets other than the chat's only choose what part of a panel is       *)
(* drawn, and are left out, as is the layout.                              *)
(***************************************************************************)
EXTENDS Naturals, Sequences, FiniteSets, SequencesExt

CONSTANTS
  NAgents,    (* agents loaded: app.agents is read once, at the start       *)
  Command,    (* slash commands, a subset of Commands below                 *)
  MaxKeys,    (* bound of the model: events the user makes                  *)
  MaxChunks   (* bound of the model: texts and handoffs agents send         *)

ASSUME TerminalAssumption ==
  /\ NAgents \in Nat /\ MaxKeys \in Nat /\ MaxChunks \in Nat
  /\ Command \subseteq {"/clear", "/model", "/all", "/handoff", "/evidence", "/workflow",
                        "/help", "/usage", "/unknown"}

Agent == 0..(NAgents - 1)

VARIABLES
  tab, focus,     (* active_tab and focused_panel                           *)
  overlay,        (* show_help_overlay                                      *)
  cursor, multi,  (* selected_agent and multi_selected                      *)
  scopeAll,       (* chat_scope_all                                         *)
  input,          (* the text typed so far                                  *)
  lines,          (* messages: who a line is by, and the parts of its text  *)
  chatScroll,     (* chat_scroll_offset                                     *)
  quit,           (* should_quit, which ends the loop                       *)
  responses,      (* the channel from the bridge                            *)
  tasks,          (* what was given to tasks that send it on the bus        *)
  keys, chunks,   (* bounds: events, and chunks sent, so far                *)
  heard           (* by agent: its chunks since /clear: not in the code     *)

place == <<tab, focus, overlay>>
choice == <<cursor, multi, scopeAll>>
chat == <<lines, heard>>
tuivars == <<place, choice, input, chat, chatScroll, quit, responses, tasks, keys, chunks>>

TabName == {"Home", "Chat", "Monitor", "Memory", "Workflow"}
Panel == {"Agents", "Chat", "Input", "Memory"}
NextTab == [Home |-> "Chat", Chat |-> "Monitor", Monitor |-> "Memory",
            Memory |-> "Workflow", Workflow |-> "Home"]
NextPanel == [Input |-> "Memory", Memory |-> "Chat", Chat |-> "Agents", Agents |-> "Input"]

(* Who a line is by: agents by number, then the user's prompts, lines with *)
(* a glyph that every scope passes, and feedback without one.              *)
You == NAgents
Glyph == NAgents + 1
Feedback == NAgents + 2
Writer == Agent \cup {You, Glyph, Feedback}
Line(by) == [by |-> by, parts |-> <<>>]

TuiInit ==
  /\ tab = "Chat" /\ focus = "Input" /\ overlay = FALSE
  /\ cursor = 0 /\ multi = {} /\ scopeAll = FALSE
  /\ input = ""
  /\ lines = <<Line(Feedback)>>
  /\ chatScroll = 0
  /\ quit = FALSE
  /\ responses = <<>>
  /\ tasks = <<>>
  /\ keys = 0 /\ chunks = 0
  /\ heard = [a \in Agent |-> <<>>]

Press ==
  /\ ~quit
  /\ keys < MaxKeys
  /\ keys' = keys + 1
  /\ UNCHANGED <<responses, chunks>>

-----------------------------------------------------------------------------
(* resolve_send_targets.                                                   *)
Targets == IF multi # {} THEN multi ELSE {cursor} \cap Agent

(* What the chat panel draws: everything, or the lines of the agent under  *)
(* the cursor, the user's and those with a glyph.                          *)
InScope(l) == scopeAll \/ multi # {} \/ NAgents = 0 \/ l.by \in {cursor, You, Glyph}
Drawn == FlattenSeq([i \in DOMAIN lines |-> IF InScope(lines[i]) THEN <<lines[i]>> ELSE <<>>])

(* Tab: the next tab, and the panel that goes with it.                     *)
KeyTab ==
  /\ Press
  /\ tab' = NextTab[tab]
  /\ focus' = IF tab' = "Home" THEN "Agents" ELSE "Input"
  /\ UNCHANGED <<overlay, choice, input, chat, chatScroll, quit, tasks>>

KeyBackTab ==
  /\ Press
  /\ focus' = NextPanel[focus]
  /\ UNCHANGED <<tab, overlay, choice, input, chat, chatScroll, quit, tasks>>

KeyOverlay ==
  /\ Press
  /\ focus # "Input"
  /\ overlay' = ~overlay
  /\ UNCHANGED <<tab, focus, choice, input, chat, chatScroll, quit, tasks>>

(* Esc closes the overlay first; Ctrl+C quits at once.                     *)
KeyEsc ==
  /\ Press
  /\ overlay' = FALSE
  /\ quit' = ~overlay
  /\ UNCHANGED <<tab, focus, choice, input, chat, chatScroll, tasks>>

KeyCtrlC ==
  /\ Press
  /\ quit' = TRUE
  /\ UNCHANGED <<place, choice, input, chat, chatScroll, tasks>>

MoveCursor(to) ==
  /\ Press
  /\ tab # "Workflow" /\ focus = "Agents"
  /\ cursor' = to
  /\ scopeAll' = FALSE
  /\ UNCHANGED <<place, multi, input, chat, chatScroll, quit, tasks>>

KeyUp == cursor > 0 /\ MoveCursor(cursor - 1)
(* Mutant: Down goes past the last agent.                                  *)
KeyDownPast == cursor < NAgents /\ MoveCursor(cursor + 1)

KeyDown == cursor + 1 < NAgents /\ MoveCursor(cursor + 1)

(* Up and Down in the chat panel, and the wheel outside the input.         *)
KeyScroll(to) ==
  /\ Press
  /\ focus # "Input"
  /\ chatScroll' = to
  /\ UNCHANGED <<place, choice, input, chat, quit, tasks>>

(* Space, and Backspace, while the agents have the focus.                  *)
KeySpace ==
  /\ Press
  /\ focus = "Agents" /\ cursor < NAgents
  /\ multi' = IF cursor \in multi THEN multi \ {cursor} ELSE multi \cup {cursor}
  /\ UNCHANGED <<place, cursor, scopeAll, input, chat, chatScroll, quit, tasks>>

KeyClearSelection ==
  /\ Press
  /\ focus = "Agents"
  /\ multi' = {}
  /\ UNCHANGED <<place, cursor, scopeAll, input, chat, chatScroll, quit, tasks>>

(* Characters, or a paste, which goes in whatever has the focus: a text at *)
(* the end of an empty input.  The letters `r`, space and `?` get through  *)
(* only where they are bound to nothing.                                   *)
KeyText(t) ==
  /\ Press
  /\ input = ""
  /\ input' = t
  /\ UNCHANGED <<place, choice, chat, chatScroll, quit, tasks>>

(* Enter less than 20 ms after another key is taken for a pasted newline,  *)
(* and is a blank of the text.                                             *)
KeyFastEnter ==
  /\ Press
  /\ input' = IF input = "" THEN "prompt" ELSE input
  /\ UNCHANGED <<place, choice, chat, chatScroll, quit, tasks>>

KeyBackspace ==
  /\ Press
  /\ focus # "Agents" /\ input # ""
  /\ input' = ""
  /\ UNCHANGED <<place, choice, chat, chatScroll, quit, tasks>>

-----------------------------------------------------------------------------
Push(new) == lines' = lines \o new

(* Enter on a prompt: its line, then one task for each target.             *)
EnterPrompt ==
  /\ Press
  /\ input = "prompt"
  /\ Push(<<Line(You)>>)
  /\ tasks' = tasks \o SetToSeq({[kind |-> "TaskRequest", to |-> a] : a \in Targets})
  /\ input' = ""
  /\ chatScroll' = 0
  /\ UNCHANGED <<place, choice, quit, heard>>

(* Every command clears the input and returns to the end of the chat.      *)
Consume(cmd) ==
  /\ Press
  /\ input = cmd
  /\ input' = ""
  /\ chatScroll' = 0
  /\ UNCHANGED <<place, cursor, multi, quit>>

SlashClear ==
  /\ Consume("/clear")
  /\ lines' = <<Line(Feedback)>>
  /\ heard' = [a \in Agent |-> <<>>]
  /\ UNCHANGED <<scopeAll, tasks>>

SlashAll ==
  /\ Consume("/all")
  /\ scopeAll' = TRUE
  /\ Push(<<Line(Feedback)>>)
  /\ UNCHANGED <<heard, tasks>>

(* /model shows or sets default_model; a command with a missing argument,  *)
(* or none of them, shows how it is used; /help has many lines.            *)
SlashFeedback ==
  /\ \E cmd \in Command \cap {"/model", "/help", "/usage", "/unknown"} : Consume(cmd)
  /\ Push(<<Line(Feedback)>>)
  /\ UNCHANGED <<scopeAll, heard, tasks>>

(* Commands that go out: a line with a glyph, and a broadcast.             *)
Emit(cmd, kind) ==
  /\ Consume(cmd)
  /\ Push(<<Line(Glyph)>>)
  /\ tasks' = Append(tasks, [kind |-> kind, to |-> NAgents])
  /\ UNCHANGED <<scopeAll, heard>>

SlashHandoff == Emit("/handoff", "Handoff")
SlashEvidence == \E kind \in {"Evidence", "EvidenceVerify"} : Emit("/evidence", kind)
SlashWorkflow == \E kind \in {"WorkflowClaim", "WorkflowUpdate"} : Emit("/workflow", kind)

-----------------------------------------------------------------------------
(* The bridge: texts go in under the name of their sender, handoffs as a   *)
(* line of their own; other payloads are dropped.                          *)
Bridge(a, kind) ==
  /\ chunks < MaxChunks
  /\ chunks' = chunks + 1
  /\ responses' = Append(responses, [by |-> a, kind |-> kind, n |-> chunks'])
  /\ UNCHANGED <<place, choice, input, chat, chatScroll, quit, tasks, keys>>

(* Mutant: a text continues the line of whichever agent spoke last.        *)
AppendLast(log, r) ==
  IF r.kind = "handoff" THEN Append(log, Line(Glyph))
  ELSE IF log # <<>> /\ Last(log).by \in Agent
       THEN [log EXCEPT ![Len(log)].parts = Append(@, r)]
       ELSE Append(log, [by |-> r.by, parts |-> <<r>>])

(* append_chat_message: a text continues the last line if that is its      *)
(* sender's, and starts a line otherwise.                                  *)
AppendChat(log, r) ==
  IF r.kind = "handoff" THEN Append(log, Line(Glyph))
  ELSE IF log # <<>> /\ Last(log).by = r.by
       THEN Append(Front(log), [by |-> r.by, parts |-> Append(Last(log).parts, r)])
       ELSE Append(log, [by |-> r.by, parts |-> <<r>>])

(* on_tick drains the channel.                                             *)
Drained(log, rs) ==
  LET at[n \in 0..Len(rs)] == IF n = 0 THEN log ELSE AppendChat(at[n - 1], rs[n])
  IN  at[Len(rs)]

(* The texts of one agent among the answers.                               *)
Texts(rs, a) ==
  FlattenSeq([i \in DOMAIN rs |->
    IF rs[i].by = a /\ rs[i].kind = "text" THEN <<rs[i]>> ELSE <<>>])

Tick ==
  /\ ~quit
  /\ responses # <<>>
  /\ lines' = Drained(lines, responses)
  /\ heard' = [a \in Agent |-> heard[a] \o Texts(responses, a)]
  /\ responses' = <<>>
  /\ UNCHANGED <<place, choice, input, chatScroll, quit, tasks, keys, chunks>>

TuiNext ==
  \/ KeyTab \/ KeyBackTab \/ KeyOverlay \/ KeyEsc \/ KeyCtrlC
  \/ KeyUp \/ KeyDown \/ KeySpace \/ KeyClearSelection \/ KeyFastEnter \/ KeyBackspace
  \/ \E to \in {chatScroll + 1, chatScroll - 1} \cap Nat : KeyScroll(to)
  \/ \E t \in Command \cup {"prompt"} : KeyText(t)
  \/ EnterPrompt
  \/ SlashClear \/ SlashAll \/ SlashFeedback
  \/ SlashHandoff \/ SlashEvidence \/ SlashWorkflow
  \/ \E a \in Agent, kind \in {"text", "handoff"} : Bridge(a, kind)
  \/ Tick

TuiSpec == TuiInit /\ [][TuiNext]_tuivars

-----------------------------------------------------------------------------
TerminalTypeOK ==
  /\ tab \in TabName /\ focus \in Panel /\ overlay \in BOOLEAN
  /\ cursor \in 0..NAgents /\ multi \subseteq Agent /\ scopeAll \in BOOLEAN
  /\ (NAgents > 0 => cursor \in Agent)
  /\ input \in Command \cup {"", "prompt"}
  /\ \A i \in DOMAIN lines : lines[i].by \in Writer /\ lines[i].parts \in Seq([by : Agent, kind : {"text"}, n : 1..MaxChunks])
  /\ chatScroll \in 0..MaxKeys
  /\ quit \in BOOLEAN
  /\ responses \in Seq([by : Agent, kind : {"text", "handoff"}, n : 1..MaxChunks])
  /\ \A i \in DOMAIN tasks : tasks[i].kind = "TaskRequest" <=> tasks[i].to \in Agent
  /\ keys \in 0..MaxKeys /\ chunks \in 0..MaxChunks

(* What some lines hold of an agent.                                       *)
Said(log, a) ==
  FlattenSeq([i \in DOMAIN log |-> IF log[i].by = a THEN log[i].parts ELSE <<>>])

(* However the streams of several agents, the user's own lines, handoffs,  *)
(* commands and /clear fall between one another and between ticks, each    *)
(* agent's lines hold all it said since the last /clear, in order, and     *)
(* nothing another agent said; and however cursor, selection and /all were *)
(* moved, the panel draws them for every agent the next prompt will go to  *)
(* (app.rs:565-598, 1425-1451, 1685-1705, main.rs:378-396).                *)
SpeakersApart ==
  \A a \in Agent :
    /\ Said(lines, a) = heard[a]
    /\ a \in Targets => Said(Drawn, a) = heard[a]

=============================================================================
