----------------------------- MODULE AgentRuntime -----------------------------
(***************************************************************************)
(* The agents behind the bus (crates/ch-agent/src/runtime.rs) and the      *)
(* terminal UI that prompts them (crates/ch-tui/src/app.rs).               *)
(*                                                                         *)
(* Each loaded agent has one handler task.  It takes a message from its    *)
(* queue, passes over what is not addressed to it, and otherwise streams   *)
(* the driver's answer, chunk by chunk, to its home channel.  Each chunk   *)
(* is a whole send_to_channel of the message bus: until it returns the     *)
(* handler takes nothing from its own queue, though the other agents of    *)
(* the channel keep filling it.  What the driver answers is left open: any *)
(* number of chunks up to a bound, an error before, between or instead of  *)
(* them, or nothing.                                                       *)
(***************************************************************************)
EXTENDS MessageBus

CONSTANTS
  Loaded,      (* agents in the runtime                                      *)
  Handler,     (* [Loaded -> Task]: their handler tasks                      *)
  Home,        (* [Loaded -> ChannelName]: first auto_join, or "general"     *)
  UserTasks,   (* the tasks the UI spawns, one for each prompt under way     *)
  Usage,       (* tokens an answer may report                                *)
  MaxChunks,   (* bound of the model: chunks of an answer                    *)
  MaxPrompts,  (* bound of the model: prompts                                *)
  MaxOpen      (* prompts the user has under way at once                     *)

ASSUME RuntimeAssumption ==
  /\ Loaded \subseteq Agent
  /\ Handler \in [Loaded -> Task]
  /\ \A a \in Loaded : Sender[Handler[a]] = a /\ Loop[a] = {Handler[a]}
  /\ Home \in [Loaded -> ChannelName]
  /\ UserTasks \subseteq Task \ {Handler[a] : a \in Loaded}
  /\ Usage \subseteq Nat
  /\ MaxChunks \in Nat
  /\ MaxPrompts \in Nat
  /\ MaxOpen \in Nat

VARIABLES
  handler,   (* where a handler task stands                                *)
  prompt,    (* the message it is answering                                *)
  chunks,    (* chunks of the answer it has sent: any_chunk_sent is > 0     *)
  activity,  (* what the UI shows of the agent                             *)
  tokens,    (* the cumulative tokens of an Idle activity                  *)
  spent,     (* tokens the agent really used: not in the code              *)
  asked,     (* numbers of the prompts sent, in order: not in the code     *)
  closed     (* those a handler is done with: not in the code              *)

busVars == vars
handlers == <<handler, prompt, chunks, activity, tokens, spent, closed>>
rvars == <<busVars, handlers, asked>>

Activity == {"Unknown", "Thinking", "Idle", "Errored"}

(* The agents are loaded and the bus runs; StartBus is its state.          *)
RInit(StartBus) ==
  /\ StartBus
  /\ handler = [a \in Loaded |-> "receiving"]
  /\ prompt = [a \in Loaded |-> NoMessage]
  /\ chunks = [a \in Loaded |-> 0]
  /\ activity = [a \in Loaded |-> "Unknown"]
  /\ tokens = [a \in Loaded |-> 0]
  /\ spent = [a \in Loaded |-> 0]
  /\ asked = <<>>
  /\ closed = {}

-----------------------------------------------------------------------------
(* send_prompt_to_agent: a task of its own sends the prompt to everybody   *)
(* in the channel, addressed to one agent.                                 *)
Ask(t, a, c) ==
  /\ a \in Peers[t]
  /\ Len(asked) < MaxPrompts
  /\ Len(asked) - Cardinality(closed) < MaxOpen
  /\ SendToChannel(t, c, a, 0)
  /\ asked' = Append(asked, sent + 1)
  /\ UNCHANGED handlers

(* Mutants: a message for anybody is taken for a prompt; the message is    *)
(* looked at and not taken off the queue.                                  *)
TakeAnything(a) ==
  /\ handler[a] = "receiving"
  /\ Receive(a)
  /\ handler' = [handler EXCEPT ![a] = "starting"]
  /\ prompt' = [prompt EXCEPT ![a] = Head(queue[a])]
  /\ chunks' = [chunks EXCEPT ![a] = 0]
  /\ activity' = [activity EXCEPT ![a] = "Thinking"]
  /\ tokens' = [tokens EXCEPT ![a] = 0]
  /\ UNCHANGED <<spent, asked, closed>>

Peek(a) ==
  /\ handler[a] = "receiving"
  /\ queue[a] # <<>>
  /\ Head(queue[a]).to = a
  /\ handler' = [handler EXCEPT ![a] = "starting"]
  /\ prompt' = [prompt EXCEPT ![a] = Head(queue[a])]
  /\ chunks' = [chunks EXCEPT ![a] = 0]
  /\ activity' = [activity EXCEPT ![a] = "Thinking"]
  /\ tokens' = [tokens EXCEPT ![a] = 0]
  /\ UNCHANGED <<busVars, spent, asked, closed>>

(* rx.recv: a message that is not for this agent is passed over.           *)
Take(a) ==
  LET m == Head(queue[a]) IN
  /\ handler[a] = "receiving"
  /\ Receive(a)
  /\ IF m.to = a
     THEN /\ handler' = [handler EXCEPT ![a] = "starting"]
          /\ prompt' = [prompt EXCEPT ![a] = m]
          /\ chunks' = [chunks EXCEPT ![a] = 0]
          /\ activity' = [activity EXCEPT ![a] = "Thinking"]
          /\ tokens' = [tokens EXCEPT ![a] = 0]
     ELSE UNCHANGED <<handler, prompt, chunks, activity, tokens>>
  /\ UNCHANGED <<spent, asked, closed>>

(* Mutant: the prompt is still there when the handler receives again.      *)
DoneKeepsPrompt(a) ==
  /\ handler' = [handler EXCEPT ![a] = "receiving"]
  /\ closed' = closed \cup {prompt[a].id}
  /\ UNCHANGED prompt

(* A handler is done with its prompt and receives again.                   *)
Done(a) ==
  /\ handler' = [handler EXCEPT ![a] = "receiving"]
  /\ prompt' = [prompt EXCEPT ![a] = NoMessage]
  /\ closed' = closed \cup {prompt[a].id}

Accepts(a) == IsRunning /\ Home[a] \in channels
Refuses(a) == clearing = {} /\ (~running \/ Home[a] \notin channels)
Reply(a) == SendToChannel(Handler[a], Home[a], NoAgent, prompt[a].id)

StreamStarts(a) ==
  /\ handler[a] = "starting"
  /\ handler' = [handler EXCEPT ![a] = "streaming"]
  /\ UNCHANGED <<busVars, prompt, chunks, activity, tokens, spent, asked, closed>>

Ready(a) == handler[a] = "streaming" /\ phase[Handler[a]] = "idle"

Chunk(a) ==
  /\ Ready(a)
  /\ chunks[a] < MaxChunks
  /\ Accepts(a)
  /\ Reply(a)
  /\ chunks' = [chunks EXCEPT ![a] = @ + 1]
  /\ UNCHANGED <<handler, prompt, activity, tokens, spent, asked, closed>>

(* The last chunk was sent.  The tokens are added to those of the activity *)
(* as it is, which is Thinking by now.                                     *)
BecomesIdle(a) ==
  /\ \E n \in Usage :
       /\ tokens' = [tokens EXCEPT ![a] = IF activity[a] = "Idle" THEN @ + n ELSE n]
       /\ spent' = [spent EXCEPT ![a] = @ + n]
  /\ activity' = [activity EXCEPT ![a] = "Idle"]
  /\ Done(a)

(* Mutant: an empty stream counts as an answer.                            *)
EmptyStreamEnds(a) ==
  /\ Ready(a)
  /\ BecomesIdle(a)
  /\ UNCHANGED <<busVars, chunks, asked>>

StreamEnds(a) ==
  /\ Ready(a)
  /\ chunks[a] > 0
  /\ BecomesIdle(a)
  /\ UNCHANGED <<busVars, chunks, asked>>

(* The bus is stopped: the stream is abandoned, as if it had ended.        *)
ChunkRefused(a) ==
  /\ Ready(a)
  /\ Refuses(a)
  /\ BecomesIdle(a)
  /\ UNCHANGED <<busVars, chunks, asked>>

(* Mutant: the error is shown but not published.                           *)
FailSilently(a) ==
  /\ \/ handler[a] = "starting"
     \/ Ready(a)
  /\ handler' = [handler EXCEPT ![a] = "failing"]
  /\ UNCHANGED <<busVars, prompt, chunks, activity, tokens, spent, asked, closed>>

(* An answer that never started, broke off or was empty is replaced by, or *)
(* ends with, one more message ...                                         *)
Apologise(a) ==
  /\ \/ handler[a] = "starting"
     \/ Ready(a)
  /\ handler' = [handler EXCEPT ![a] = "failing"]
  /\ \/ Accepts(a) /\ Reply(a)
     \/ Refuses(a) /\ UNCHANGED busVars
  /\ UNCHANGED <<prompt, chunks, activity, tokens, spent, asked, closed>>

(* Mutant: the error path forgets the activity.                            *)
StillThinking(a) ==
  /\ handler[a] = "failing"
  /\ phase[Handler[a]] = "idle"
  /\ Done(a)
  /\ UNCHANGED <<busVars, chunks, activity, tokens, spent, asked>>

(* ... and once that is sent, or refused, the agent shows the error.       *)
ShowError(a) ==
  /\ handler[a] = "failing"
  /\ phase[Handler[a]] = "idle"
  /\ activity' = [activity EXCEPT ![a] = "Errored"]
  /\ Done(a)
  /\ UNCHANGED <<busVars, chunks, tokens, spent, asked>>

(* The bus dropped the agent's sender and the queue is empty.              *)
HandlerStops(a) ==
  /\ handler[a] = "receiving"
  /\ a \notin subscribers
  /\ queue[a] = <<>>
  /\ handler' = [handler EXCEPT ![a] = "stopped"]
  /\ rx' = [rx EXCEPT ![a] = "dropped"]
  /\ UNCHANGED <<running, clearing, subscribers, churn, queue, waiting, channels, members,
                 hasHistory, channelHistory, history, feed, calls,
                 prompt, chunks, activity, tokens, spent, asked, closed>>

-----------------------------------------------------------------------------
HandlerStep(a) ==
  \/ Take(a)
  \/ StreamStarts(a)
  \/ Chunk(a)
  \/ StreamEnds(a)
  \/ ChunkRefused(a)
  \/ Apologise(a)
  \/ ShowError(a)
  \/ HandlerStops(a)

(* Steps of the bus and of those that only receive.                        *)
BusStep ==
  \/ \E t \in Task : Progress(t)
  \/ \E a \in Agent \ Loaded : Receive(a)
  \/ \E s \in Shards : ClearShard(s)

(* run_tui on its way out: stop_all leaves the handlers alone, shutdown    *)
(* clears the subscribers.                                                 *)
Quit == Shutdown

(* What happens without the user.                                          *)
RuntimeStep ==
  \/ \E a \in Loaded : HandlerStep(a)
  \/ BusStep /\ UNCHANGED <<handlers, asked>>

RNext ==
  \/ \E t \in UserTasks, a \in Loaded, c \in ChannelName : Ask(t, a, c)
  \/ RuntimeStep
  \/ Quit /\ UNCHANGED <<handlers, asked>>

-----------------------------------------------------------------------------
Prompts == {asked[k] : k \in 1..Len(asked)}

(* The variables of the handlers keep their types, and a handler holds a   *)
(* prompt exactly while it works on one.                                   *)
RuntimeTypeOK ==
  /\ TypeOK
  /\ handler \in [Loaded -> {"receiving", "starting", "streaming", "failing", "stopped"}]
  /\ prompt \in [Loaded -> Message \cup {NoMessage}]
  /\ \A a \in Loaded : prompt[a] = NoMessage <=> handler[a] \in {"receiving", "stopped"}
  /\ chunks \in [Loaded -> 0..MaxChunks]
  /\ activity \in [Loaded -> Activity]
  /\ tokens \in [Loaded -> Nat]
  /\ spent \in [Loaded -> Nat]
  /\ asked \in Seq(1..MaxMsgs)
  /\ closed \subseteq Prompts

Answered(i) == \E j \in 1..Len(feed) : feed[j].corr = i

(* Everybody in the channel gets the prompt, and only the agent it is      *)
(* addressed to answers it (runtime.rs:253-259).                           *)
OnlyAddresseeAnswers ==
  \A j, k \in 1..Len(feed) :
    feed[j].corr = feed[k].id => feed[k].to \in Loaded /\ feed[j].task = Handler[feed[k].to]

(* No prompt is worked on twice or by two agents: it lies in its agent's   *)
(* queue, or is being answered, or is done with (runtime.rs:237-273).      *)
PromptsTakenOnce ==
  \A i \in Prompts :
    Cardinality({a \in Loaded : prompt[a] # NoMessage /\ prompt[a].id = i}) +
    Cardinality({p \in Loaded \X (1..QueueCap) :
                   /\ p[2] <= Len(queue[p[1]])
                   /\ queue[p[1]][p[2]].id = i /\ queue[p[1]][p[2]].to = p[1]}) +
    Cardinality({i} \cap closed) <= 1

(* An agent that turns Idle has published an answer to its prompt, unless  *)
(* the bus was stopped (runtime.rs:370-417).                               *)
IdleMeansAnswered ==
  [][\A a \in Loaded :
       activity[a] = "Thinking" /\ activity'[a] = "Idle" /\ running
       => Answered(prompt[a].id)]_rvars

(* Every prompt is answered, unless the bus is stopped (runtime.rs:366-385, *)
(* 419-437): the user is never left with silence.                          *)
EveryPromptAnswered ==
  \A k \in 1..MaxPrompts :
    Len(asked) >= k ~> (Len(asked) >= k /\ Answered(asked[k])) \/ ~running

(* No agent shows Thinking forever, not even if the bus is stopped under   *)
(* its answer (runtime.rs:290, 354, 380, 408, 430).                        *)
ThinkingEnds == \A a \in Loaded : activity[a] = "Thinking" ~> activity[a] # "Thinking"

(* Agents answer in parallel, none in the way of another: no two handlers  *)
(* wait for a slot in each other's queue, for neither would get back to    *)
(* its own (app.rs:939; runtime.rs:237, 334).                              *)
HandlersDoNotBlockEachOther ==
  \A a, b \in Loaded : ~(Waits(Handler[a], b) /\ Waits(Handler[b], a))

(* The token counts of an agent are cumulative over its session.           *)
TokensCumulative == \A a \in Loaded : activity[a] = "Idle" => tokens[a] = spent[a]

=============================================================================
