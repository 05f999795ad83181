# Crow Hub in TLA+

Crow Hub runs several AI agents side by side: a message bus carries prompts,
answers, claims and verdicts between them, a terminal UI drives them, and a
SQLite file remembers what was said. This directory specifies that program as
it is written (`src/crates/...`), checks the specifications with TLC and proves
the central facts about it with TLAPS.

Paths below are relative to `src/crates/`.

## 1. The system

| Part | State | Operations | Talks to |
|---|---|---|---|
| Message bus, `ch-core/src/bus.rs`, `channel.rs` | `running` flag, map of subscribers (bounded mpsc senders), map of channels with members and visibilities, per-channel and global history, a broadcast to monitors | start, shutdown, subscribe, unsubscribe, create/delete/join/leave channel, publish, send_dm, send_to_channel, request | everybody, through queues and the broadcast |
| Agent runtime, `ch-agent/src/runtime.rs` | agents, ids and activities by name; one handler task per agent | load_all with warming tasks, load_plugin, stop_agent, stop_all; take a prompt, stream the answer, report an error | bus, drivers, UI (activities) |
| Plugin loading, `ch-agent/src/loader.rs`, `manifest.rs` | none | scan the plugin directories, validate the manifests | runtime |
| Drivers, `ch-agent/src/drivers/` | child processes, tmux panes | chat, stream_chat, start, stop | agent programs |
| Host environment, `ch-agent/src/host_env.rs` | cached probes, in memory and in one file a host | get_or_probe, invalidate, refresh | runtime, `crow refresh-env`, `crow doctor` |
| Models, `ch-model/src/` | backends, their last listings, an index from model to backend | discover, register, refresh, remove, route | API driver |
| Terminal UI, `ch-tui/src/app.rs`, `main.rs` | tab, panel, input, selection, chat lines, scope, the user's subscription | keys, prompts, `/evidence`, `/workflow`, `/handoff`; each command is sent by a task of its own | bus, runtime |
| Setup wizard, `ch-tui/src/setup.rs`, `ch-agent/src/scanner.rs` | the pickers' rows, the terminal's mode | pick environments, scan them, pick agents, write manifests | plugin directory |
| Memory writer, `ch-memory/src/writer.rs` | one receive loop | dispatch of chat, handoffs, claims, verdicts and workflow steps | bus, store |
| Stores, `ch-memory/src/backends/sqlite.rs` | tables messages, evidence, workflow_steps | write, write_evidence, verify, fail, pending, by_task, by_status, recent, claim_step, set_state | writer, verifier, CLI |
| Verifier, `ch-memory/src/verifier.rs` | nothing but a timer | poll pending rows, judge, broadcast the verdict | store, bus |
| Workflow files, `ch-tui/src/workflow_file.rs` | none | validate and order the steps, list them | CLI |
| Orchestrator, `ch-core/src/orchestrator.rs` | state, command queue, workflows | start, pause, resume, shutdown, execute | registry |
| Registry and sessions, `ch-core/src/registry.rs`, `session.rs` | agents by id and by name; sessions | register, unregister, look up; create, start, pause, complete | orchestrator |

`PROJECT.json` lists every part with its status, and every hazard at its line.

### What is hard about it

* **Every bus call is a long series of steps.** It checks a flag, writes a
  history, broadcasts, lists recipients and hands over one copy after another,
  waiting for a slot at each. Other calls, membership changes and a shutdown
  run in between, and some locks are held across the wait while others are not.
* **Bounded queues and tasks that both send and receive.** An agent that
  streams an answer receives nothing meanwhile, and the other agents keep
  filling its queue.
* **Claims become facts in five hops**: user, bus, writer, table, verifier,
  and back. Any hop can fail or die with the process; the verifier's next poll
  is the only retry.
* **Check, then act** in several visits to concurrent maps: create_channel, the
  registry, the host environment cache, the model index.
* **Locks given up in the middle**: a chat that starts a child lets go of the
  lock to do it, and other chats and stop() come in between.
* **One task for each command**: two commands of the user, or two refreshes of
  a panel, overtake each other.
* **State that leaves the process**: tables, environment files that a crash may
  tear, manifests written one after the other.

### What makes each part correct

* Bus: a channel send reaches every steady member exactly once and nobody else;
  monitors hear of a message before its recipients can; what a waiting send
  holds is not pulled from under it; every call and every shutdown returns.
* Runtime: each prompt is answered once, by the agent it is for; no agent
  thinks forever; what the UI shows agrees with what was published; a name
  leads to the identity, the entry and the handler of one and the same load.
* Memory: a row gets one verdict, the right one, in spite of loss, repetition
  and crashes; no claim that reached the writer is forgotten.
* Workflow steps: a step ends as the last command wanted it; a file is accepted
  exactly if it can be ordered; the panel catches up with the table.
* Orchestrator: a step runs after its dependencies have finished; a workflow is
  given up exactly if it is circular; when all loops have stopped it says so.
* Registry, host environment, models: maps that are not changed together still
  agree on what a reader finds.
* Driver: an answer belongs to its prompt, every chat returns, and a prompt
  passes through the shells unchanged.

## 2. Modules

| Module | Models | State and actions |
|---|---|---|
| `MessageBus` | `bus.rs`, `channel.rs` | A task's call is `phase` (where it stands), `call` (arguments), `todo` (recipients left), `pos` (position in the broadcast). One action per stretch of code between two points where another task can get in: `Begin` ... `Record`, `Announce`, then `Deliver`, `Wait` or `Skip` per recipient, `ServeNotify`, `Return`; `Listen`, `ReadFeed`, `Timeout` for the second half of request. `create_channel` is three actions, `delete_channel` two, `shutdown` one per shard after the flag. |
| `MessageBusHistory` | nothing in the code | Three history variables that watch the bus: how an agent stood to the channel during a send (`held`), how many copies it got (`got`), and which channels were created and deleted at the same time (`raced`). |
| `AgentRuntime` | handler tasks of `runtime.rs`, prompts of `app.rs` | EXTENDS the bus: each chunk and each error is a whole `send_to_channel` by the handler's task. The driver is nondeterministic: chunks up to a bound, an error at any point, or an empty stream. |
| `EvidenceLifecycle` | the promise of `EvidenceStatus` and `EvidenceStore` in `ch-memory/src/lib.rs` | Abstract: none, pending, then verified or failed for good. |
| `MemoryPipeline` | start-up and quitting of `run_tui`, `/evidence`, `writer.rs`, evidence table, `verifier.rs` | EXTENDS the bus: claims and verdicts travel as channel sends; `fail` is a read and a write; `Quit` shuts the bus down and `Exit` ends the process with whatever is queued; `Restart` may come at any moment. Both lose everything except the tables. Its `row` refines `EvidenceLifecycle`'s `status`. |
| `Orchestrator` | `orchestrator.rs` | Loops that want the one receiver, commands in a bounded queue, `shutdown` as two steps, a workflow as waves of spawned tasks that finish in any order; `ran` is a history variable, the steps that got a task. |
| `AgentRegistry` | `registry.rs` | The two maps; register is a lookup, an insertion and an insertion, unregister two removals. |
| `WorkflowFile` | `workflow_file.rs`, `run_workflow` of `main.rs` | The structural checks with their order, one action a pop of Kahn's algorithm, and what `crow run` prints. |
| `WorkflowSteps` | `/workflow` of `app.rs`, its arm of `writer.rs`, `claim_step` and `set_state` of `sqlite.rs`, the panel's slot | Commands and refreshes are tasks that overtake one another; a send may fail or miss the writer, the database may refuse a write or a read. |
| `TerminalUI` | the event loop of `app.rs`, the bridge in `main.rs` | Tabs, help, input, cursor, selection, `/all`, the chat's lines with their speakers, scrolling, ticks; what the bridge leaves between two ticks. |
| `MemoryQueries` | message table, `recent`, `by_task`, `by_status`, `crow memory tail` and `evidence` | A listing is a series of queries that writers may come between; rows of one second come in any order. |
| `RemoteInvocation` | `shell_quote`, `compose_remote_invocation`, `build_command` | The quoting as a function on characters, and a shell's splitting as its inverse, up to two shells deep. |
| `SubprocessDriver` | chat, stream_chat, start and stop of `subprocess.rs` | One child behind a mutex which is given up to start a child; prompts, timeouts, exits, children that do not read or close their input, argv mode. |
| `HostEnvCache` | `host_env.rs` | Lookup, read, probe, three writes of a file and the insertion, each an action; invalidation in two; saves and removals that fail, other processes and crashes. |
| `AgentLoading` | `load_all`, `load_plugin`, `stop_agent`, `stop_all`, `loader.rs`, `manifest.rs` | Scan, warming tasks, one plugin after the other with its driver, subscription and three maps. |
| `ModelRouting` | `ch-model`, the API driver | Discovery, register, refresh, remove with one action a map, routing by other threads in between. An id is its parts between slashes, so that a full name `backend/id` is the bare id of another model where the strings are equal. |
| `SetupWizard` | `setup.rs`, `scanner.rs` | The screens with their keys, the ways out, the scan, the writing of one manifest after the other, each of which may fail and leave it torn. The agents looked for are a constant (`KnownAgents`). |
| `Selections` | `Iterator::filter` over a Vec | What a filter keeps, by the ranks of the places kept, so that it can be reasoned about. |
| `MC...` | | Constants, initial states and fairness for TLC. `MCDesk` and `MCFleet` put several components in one instance. |
| `..._proofs`, `SequenceLemmas` | | Theorems and proofs, by part of the system (section 4). |

Operators whose comment starts with "Mutant:" are deliberate faults. They are in
no specification; each shows that some property notices that fault.

**Components that interact are composed**: runtime, user and writer, verifier
and table all run on the real bus of `MessageBus`, with its queues and waits.
**Components that do not interact are only put side by side**: in `MCDesk` and
`MCFleet` a variable `part` is chosen at the start and never changes; a
behaviour takes the steps of that component alone and the others rest. The
states explored are the sum of those of the components, not their product, and
what is checked is what a run for each of them would check.

### How the bus maps to the code

* A guard of a DashMap shard is held while a send waits for a slot, and writers
  of that shard wait: `ShardFree`. `Shard` places agents on shards freely.
* A channel send holds a guard of its channel from the lookup to its end:
  `Pins`, `ChannelFree`. It releases nothing in between, while `join_channel`
  and `leave_channel` only lock the members inside and go through.
* The writers of `running` exclude its readers: `IsRunning` needs `clearing = {}`.
* `QueueCap`, `MaxHistory`, `FeedCap` are 100, 10000 and 1000 in the code. The
  proofs hold for any values; the runs take 1, which makes queues full and
  histories overflow at once.
* `MaxMsgs` and `MaxChurn` bound the model only.

Simplifications: the guard of a channel pins that channel and not the others of
its shard; `publish` holds an iterator's guard over the whole loop and is given
one only while it waits; a writer that waits for a shard blocks its worker
thread, and the shortage of threads that can follow is not modelled;
timestamps, names and payloads are left out.

### How the others map to the code

* **AgentRuntime.** `runtime.rs:237-440` is one loop: `Take` is `rx.recv` and the
  test of the addressee, `StreamStarts` the driver's answer, `Chunk` one send of
  the `while let` loop, `StreamEnds` and `ChunkRefused` its two ends with the
  activity they write, `Apologise` and `ShowError` the error path.
* **Orchestrator.** `OnStart` to `OnExecute` are the arms of the loop's `match`;
  `SpawnWave` marks its steps complete as it spawns them, and only `JoinWave`
  keeps the next wave back.
* **HostEnvCache.** The user's last change to a host is a number, and an
  environment is the number it was probed at. `floor` is a history variable: what
  the number was at the last invalidation with nothing else under way.
* **SubprocessDriver.** `asked` records who prompted a process; nothing in the
  code knows it, which is what `AnswerIsOwn` is about.
* **MemoryQueries.** The clock is in whole seconds, as the columns are.
* **TerminalUI.** A text the user types is one step; keys that are bound to
  something are actions. Positions on the screen are left out, except for the
  scrolling of the chat.

## 3. Runs

| Run | Instance | Question and answer |
|---|---|---|
| `bus_delivery` | 3 agents, 2 tasks of one agent, both of which administer channels, 2 channels, queues and histories of 1, 2 messages, 2 changes | Two sends overlap with each other and with any two changes of subscribers, members and channels, among them both tasks creating the second channel at once, and one creating what the other deletes. Steady members are served exactly once, strangers never; guards protect what is waited for; monitors hear first; a channel has a history exactly if it exists, except where a creation met a deletion. |
| `bus_progress` | 2 agents, a task each, all four calls, 1 administrator | Every call returns and a shutdown gets through as long as agents receive. |
| `bus_request` | two agents, a request and its reply | Violated: `request` listens only after it has sent. |
| `agent_prompts` | 2 agents and the user in one channel, 2 prompts one after the other | Every prompt is answered by its addressee, taken once, and no agent is left Thinking, quitting at any moment included. |
| `agent_parallel` | the same, two prompts open | Violated: both agents stream into each other's full queue and wait forever. |
| `agent_tokens` | 1 agent that answers twice | Violated: the count starts anew with every answer. |
| `memory_claims` | 2 messages of the user, claims or verdicts; 1 refused statement; the verifier asks for 1 row | Each row gets a fitting verdict unless rows the rule skips fill the whole poll; queued claims are stored unless the process ends first. |
| `memory_faults` | 1 message; 1 refused statement, 1 crash, 1 poll at a bad moment | Rows keep their verdict, lost verdicts are repeated. |
| `memory_immutable` | a claim and one verdict by the user | Violated: the store overwrites a final status. |
| `memory_startup` | the plain start | Violated: the writer may join before the channel exists. |
| `desk_components` | see below | What a user works with from the terminal: seven parts, one in each behaviour. |
| `fleet_components` | see below | What stands between the hub and its agents: six components, one in each behaviour. |

`desk_components`:

| Part | Instance | Property |
|---|---|---|
| orchestrator | 2 loops, 1 client, queue of 2, 4 commands; workflows: a tree, a cycle, a repeated id with an unknown dependency | `DependenciesFirst`, `OutcomeRight` against a reference definition of circularity, on steps and not on their ids, `StoppedMeansNotRunning` |
| registry | 3 ids, 2 names | `IndexedAgentsExist`: no name stays taken for nobody, and none leads to another's agent |
| file | all graphs of 3 steps with up to one dependency each, and selected pairs, repetitions, unknown ones, empty files | `PlacedInOrder`: accepted exactly if an order exists, by search through all orders |
| steps | 1 step, 2 users, 2 commands, any of them lost, 2 refreshes, 1 refused write or reading, a row left from before | `StepsSettle`, `PanelCatchesUp` |
| terminal | 2 agents, 5 keys, 2 texts of agents, 6 commands | `SpeakersApart`: what each agent said since `/clear`, whole and in order, on the panel of every agent the next prompt goes to |
| messages, evidence | 2 messages, 3 rows of evidence, 2 seconds | `ListingsInOrder` |

`fleet_components`:

| Part | Instance | Property |
|---|---|---|
| command | all prompts of up to 3 characters of the three kinds; native, WSL, SSH; with and without environment and prelude | `PromptArrivesWhole` |
| driver | 3 callers, 3 processes, 1 trouble: a spawn or write that fails, an early exit, a child that does not read or closes its input | `AnswerIsOwn`, `ChatsReturn` |
| one host, one reader | 2 hosts that share a file, 2 threads, 1 change, 1 failure (a probe, a save, a removal) or crash; once with both threads at one host, once with one thread | `InvalidatedIsGone` |
| loading | up to 3 of 9 plugin directories, equal names and every kind of fault among them, 1 stop | `NamesLeadToOneAgent`, `OneProbePerHost` |
| routing | 2 ports, 1 backend by hand, 2 models, one of them called as the other is in full on a port, 2 operations, 1 agent | `ShownIsRoutable` |
| setup | 2 local environments, 2 SSH hosts, 1 known agent, 2 keys a picker; any manifest may be there before, any write may fail | `WritesWhatWasPicked` |

**Why the bounds are enough to be interesting.** With queues of one slot two
messages already make a sender wait, and with two tasks the wait overlaps with
another send. Two changes allow each pair of leave and rejoin, unsubscribe and
subscribe, delete and create, create and create. One poll at a bad moment covers a verdict before
the channel exists and a second verdict while the first is under way. `MaxMsgs`
of the memory runs is never reached (at most 4 and 5 messages are sent). Three
registrations with two names give two that race for a name and a third that
comes to a name set free. Two loops give one that works and one that waits.
Three callers give one that holds the lock, one that has given it up and one
that comes in between. Three steps are the least with a cycle that is not
everybody and a tree that branches. What larger instances could show of the safety
properties and the action properties is covered by the proofs, which have no
bounds; for liveness the bounds stand.

`CHECK_DEADLOCK FALSE` is set everywhere because messages, commands, keys and
changes are bounded, so every behaviour comes to rest.

**Choices in MemoryPipeline that are assumptions.** `WriterIsPatient` lets the
writer join only once there is a channel; the code does not make it, and
`memory_startup` shows what happens otherwise. The verifier's ticks are seconds
apart: it polls when nothing is under way (`Settled`), and at any other moment
`MaxHasty` times. A row is as old as its message; the one-second resolution of
`created_at` is taken to tell rows apart.

### Fairness

* Bus (`FairSpec`): weak fairness of each task's steps, of each agent's
  receiving and of the clearing of each shard: tokio schedules every task that
  can run, locks are granted in turn, timers fire. Nothing is assumed of
  new calls, subscriptions or channel changes. That agents keep receiving is
  what the code's receive loops do, except a loop that is sending: that is
  modelled by `Loop` and is what `agent_parallel` is about.
* Runtime (`RuntimeSpec`): the same, plus that a driver's answer ends. This is an
  assumption on the agents' programs: the code times out a persistent process
  only (`drivers/subprocess.rs:641`), and `drivers/tmux.rs:214-322` can follow a
  log forever.
* Memory (`FairPSpec`): the tasks run, the database answers, the timer ticks,
  and a `main` that has shut the bus down returns (`Exit`), which cancels the
  tasks with what they have queued: nothing waits for the writer. Nothing is
  assumed of the user, of `Quit` or of `Restart`.

In these two the messages are bounded and no group of tasks can run on
forever, so one weak fairness condition on all system steps together stands
for one for each task.

* `MCDesk`: weak fairness of the tasks that carry a command or a refresh and of
  the writer (`WriterStep`, `RefreshStep`). Nothing is assumed of the keyboard;
  the loop's ticks are part of `RefreshStep`, as the event loop polls with a
  timeout.
* `MCFleet`: weak fairness of each caller's steps (`ChatStep`): the mutex is fair,
  and a read ends with its process or after 120 seconds (`subprocess.rs:641`).
  Nothing is assumed of the agents' programs: none has to answer, to exit or to
  read. A write into one that lives and does not read has no timeout
  (`subprocess.rs:616-623`), and `ChatsReturn` names it as the only way in which
  chats may wait forever (`WriteStuck`).

## 4. Proofs

Each theorem holds for every choice of the constants that meets the module's
ASSUME: the types, limits that are positive, bounds that are numbers.

| Module | Theorem | Statement |
|---|---|---|
| `MessageBus_proofs` | `TypeCorrect` | `Spec => []TypeOK`: queues and histories stay within their limits |
| | `WaitersCorrect` | `Spec => WaitersKeepTheirQueue`: a queue that a send waits for is neither removed nor replaced |
| | `PinnedCorrect` | `Spec => PinnedChannelStays` |
| | `AnnouncedCorrect` | `Spec => []QueuedWasAnnounced` |
| | `HistoryCorrect` | `HSpec => []HistoryMatchesChannels`, for any number of tasks that create and delete |
| | `SteadyMembersCorrect` | `HSpec => []SteadyMembersServedOnce` |
| | `StrangersCorrect` | `HSpec => []StrangersHearNothing` |
| `AgentRuntime_proofs` | `RuntimeTypeCorrect` | `RSpec => []RuntimeTypeOK` |
| | `AddresseeCorrect` | `RSpec => []OnlyAddresseeAnswers` |
| | `PromptsCorrect` | `RSpec => []PromptsTakenOnce` |
| | `IdleCorrect` | if the agents' home channels are there before the first prompt, `HeardSpec => IdleMeansAnswered` |
| `MemoryPipeline_proofs` | `MemoryTypeCorrect` | `PSpec => []MemoryTypeOK`: the verifier never holds more rows than it asks for |
| | `VerdictsCorrect` | `PSpec => []VerdictsFit` |
| | `LifecycleCorrect` | if only the rule judges, `PSpec => ImplementsLifecycle`: the pipeline refines `EvidenceLifecycle` |
| `Hub_proofs` | `DependenciesCorrect`, `OutcomeCorrect`, `StoppedCorrect` | `OSpec => []DependenciesFirst`, `[]OutcomeRight`, `[]StoppedMeansNotRunning` |
| | `IndexCorrect` | `RgSpec => []IndexedAgentsExist` |
| | `ListingsCorrect` | `MqSpec => []ListingsInOrder` |
| | `SpeakersCorrect` | `TuiSpec => []SpeakersApart` |
| `Workflow_proofs` | `FileCorrect` | `WfSpec => []PlacedInOrder`: the sort agrees with the search through all orders, for any file |
| | `StepsCorrect` | `WsSpec => []StepsSettle` |
| | `DeskTypeCorrect`, `DeskCorrect` | `MCDesk`'s `Spec => []DeskTypeOK`, and all of the above for the composition |
| `Drivers_proofs` | `PromptCorrect` | `RiSpec => []PromptArrivesWhole`, for prompts of any length |
| | `AnswersCorrect` | `SpSpec => []AnswerIsOwn` |
| | `InvalidatedCorrect` | `HeSpec => []InvalidatedIsGone` |
| `Agents_proofs` | `NamesCorrect`, `OneProbeCorrect` | `AlSpec => []NamesLeadToOneAgent`, `[]OneProbePerHost` |
| | `RoutableCorrect` | `MrSpec => []ShownIsRoutable` |
| | `SetupCorrect` | `SuSpec => []WritesWhatWasPicked` |
| | `FleetTypeCorrect`, `FleetCorrect` | `MCFleet`'s `Spec => []FleetTypeOK`, and all of the above for the composition |

Each component of `MCDesk` and `MCFleet` has a theorem for its own type invariant
as well (`OrchestratorTyped`, `RegistryTyped`, `QueriesTypeCorrect`,
`TerminalTypeCorrect`, `FileTypeCorrect`, `StepsTypeCorrect`,
`InvocationTypeCorrect`, `DriverTypeCorrect`, `CacheTypeCorrect`,
`LoadingTypeCorrect`, `RoutingTypeCorrect`, `SetupTypeCorrect`). The compositions
inherit theirs because a step of the whole is a step of one component or leaves
it alone (`DeskParts`, `FleetParts`).

`Workflow_proofs` builds on `Hub_proofs`, and `Agents_proofs` on `Drivers_proofs`;
`SequenceLemmas` has what they share: filters, loops over a sequence, flattening,
and that among the places or sequences with a fault there is a least or a
shortest one.

No property is inductive as it stands. The strengthenings, by module:

**Bus.**

* `TInv` adds to `TypeOK` what a call holds in each phase (`CallOK`): a task
  that sends has a message of its own, and a channel task a channel. `TypeOK`
  alone is not inductive, because `Deliver` appends `call[t].msg`, which the
  type of `call` allows to be `NoMessage`.
* `PinsOK`: a pinned channel is in the map. With it, the guards of
  `CreateInsert` and `DeleteChannel` give `PinnedChannelStays`.
* `AnnouncedBefore`: a task that delivers has announced.
* `WaitersSubscribed`: whoever is waited for is subscribed. With `ShardFree` it
  gives the step property `WaitersKeepTheirQueue`.
* `HistOK`: of every channel that is not in `raced`, the two maps differ only
  while some task is creating or deleting it, and never are tasks at both. The
  history variable is needed: once a creation and a deletion have overlapped the
  maps may differ for good.
* `DInv`, for exactly-once delivery: for every send under way, `held` is what
  the membership says now (`HeldOK`), and each recipient is pending with no copy
  or served with one, by phase and level (`GotOK`).

**Runtime** (`RSpec` starts from any bus that is up and idle, with any
subscribers, channels and members: `BusUp`). The runtime's steps are steps of
the bus, sends, and the end of a handler; the lemmas of the bus proof serve for
the first.

* `RInv`: the bus' own invariants, and three facts that follow a message by its
  number. `Numbered`: messages on the feed or in a call have the numbers of
  sends, no two the same. `Answers`: what answers a number comes from the
  handler of the number's addressee, and a message to a loaded agent is a prompt.
  `Working`: a handler works on an announced message that is its own. Without
  `Working` nothing says what a handler answers; without `Numbered` two prompts
  could share the number an answer refers to.
* `Heard`, for `IdleCorrect`: a chunk that an agent at work has sent is on the
  feed, or its task is about to record or announce it (`Underway`). It needs the
  channel to exist when the send looks it up, or the send would end with an error
  that nobody hears of: hence the premise `HomesUp`. The loader creates the channels
  an agent joins (`runtime.rs:181-183`), the terminal `general`
  (`main.rs:368`), and no step of the runtime deletes one.
* `Once`: for every loaded agent, a message for it that is still to be delivered
  (`Due`) is not in its queue, its hands or closed; one that is queued is queued
  once and neither held nor closed; one that is held is not closed. `Due` has to
  say which send may still reach whom, phase by phase and visibility by
  visibility (`Coming`, `OnlyChannels`): this is where delivery to Full members
  before Notify members matters.

**Memory.** The steps of the pipeline are steps of the bus that send nothing
(`Calm`), broadcasts, accesses to the table, and a crash.

* `MInv` follows a verdict from the rule to the row: what is queued was sent
  (`Numbers`), rows come from claims (`RowsOK`), a verdict of the rule fits its claim
  (`VerdictsOK`), and what verifier and writer hold is theirs to do (`AtWork`).
  `VerdictsFit` alone says nothing of verdicts that are still on their way. That the
  verifier holds at most `PollLimit` rows is an injection of the oldest rows
  into `0..PollLimit-1`, by the number of older rows.
* `LInv`, for the refinement, follows a claim to its one row: a message is on its
  way to the writer or queued, once (`Apart`), and until the writer has stored it it has
  no row (`Fresh`), so that `INSERT OR REPLACE` never replaces. It needs that every
  member is a Full one (`LinesOK`), or the second round of a send could deliver
  again. The premise that users give no verdict is needed: `memory_immutable`
  shows what happens otherwise.

**Orchestrator.** `OInv`: one loop at work holds the receiver (`OneLoopWorks`);
the ids of the steps that ran are the completed ones, what is neither completed
nor pending does not exist, and no set of steps that wait for one another, or for
an id nobody has, contains one that ran (`Books`). The last gives both directions
of `OutcomeRight`: what remains when no step is ready is such a set.

**Registry.** `Staged`: an agent stays in the one map from its insertion to its
removal, and the other names only agents indexed and not yet removed.

**Host environments.** `CInv` says of the map, of the files and of what each
thread is about to write to them that it is not older than `floor`, and belongs
to a host of that file. The hands of the threads are the part that
`InvalidatedIsGone` leaves out and that a step may write. `floor` rises only with an
invalidation that removes the file: one whose removal fails promises nothing.

**Loading.** `Numbered` (identities are given out in order) and `Entered` (maps,
handlers and subscriptions agree). For the probes, `ProbeInv`: a host
that was probed, and after the warming every host a plugin in the queue will ask
for, is in the cache or a probe is about to put it there.

**Driver.** `Locked`: who may touch the child; `Prompted`: a process has at most
the prompt of the chat that uses it, none while its input is open, and one that
waits to be stored is nobody else's (`Apart`).

**Command line.** No state to speak of: the work is in what the operators do. The
lemmas `EscapeRead`, `QuotedRead` and `QuoteRead` say what a shell makes of one
escaped character, of any escaped text, and of a quoted word; `SplitsBack`, that
splitting undoes quoting and joining for any number of words; `InnerSplits` and
`OuterSplits` apply it once for each shell. All by the shortest text or list of
words for which it would fail. The premise is that a text consists of
characters of the three kinds.

**Models.** Ids are sequences of parts, so that `Qualified` is concatenation,
as in the code, and a full name may be another model's bare id. The premise of
`ShownIsRoutable` excludes such names and no others; `QualifiedOnce` and
`QualifiedKeys` say that the names left are taken by one model of one backend.
`MrInv` says by stage of the operation at work what the three maps owe one
another: a model that is shown is indexed and its backend stored (`Routable`),
except of the backend that is being changed (`BusyWith`). A refresh is not yet
changing its backend while it waits for the listing, which is why
`ShownIsRoutable` alone is not inductive.

**Wizard.** `SuInv`: rows still to scan and rows found belong to environments
picked (`RowsOK`); each ticked row is on disk or still to be written, and every
file that was there is still there or has given way to one of the same name
(`WritingOK`, `HasNew`).

**Listings.** `MqInv`: between its queries a listing holds the first rows of each
status it has asked for, of the table as it was at the start (`ListOK`), as far as
no verdict fell between. That the three cut queries merge to the cut of the whole
is a fact about stable sorting by rank and about counting: where a row is
missing, its own query returned as many rows before it as the limit allows.

**Terminal.** `TuiInv`: the lines of an agent in the log are what the ticks have
taken of its answers (`TuiChat`). The lemmas follow `append_chat_message` through a
drain of any length: a chunk goes to the last line only if that is the line of
its agent, so nobody else's text changes.

**Steps.** `Tracked`, for each step with commands under way: the row is as it was
when they began or as one of them asked for, and a claim that is neither lost nor
carried out is still under way. The property speaks of steps with nothing under
way only.

**File.** `Sorting`: the degree of a step counts what it depends on and is not
placed (`Owed`), the stack holds exactly the unplaced steps that owe nothing, each
once. That a cycle is reported only where there is no order goes by contraposition:
among the steps that are left, the one that is first in a valid order would owe
nothing and so would be on the stack.

**How induction is done.** The library's induction theorems take an operator as
a parameter, which the provers cannot instantiate. Two lemmas stand in for them:
`Least` (a set of numbers that is not empty has a least member) and `Shortest`
(a set of sequences, a shortest); a proof takes the set of counterexamples, and
the least one contradicts the step. Loops are recursive functions
(`at[n \in 0..Len(s)]`), whose existence `LoopExists` derives in the same way, from
the shorter loop. `SelectSeq` and the folds stay out of reach, hence
`Selections`.

**Only model-checked**: liveness (`CallsReturn`, `ShutdownCompletes`,
`EveryPromptAnswered`, `ThinkingEnds`, `ClaimsGetJudged`, `QueuedClaimsAreStored`,
`PanelCatchesUp`, `ChatsReturn`), which the prover cannot do: it has no ENABLED
and so no fairness. Every invariant and every action property of a
passing run is proved.

## 5. Disagreements between the code and what is said of it

Five are shown by a run that ends in a violation, listed under `findings`:
`request` and prompt replies, parallel answers that block each other, token
counts that are not cumulative, final evidence rows that change, a memory
writer that may never join its channel.

The following were met while modelling. The models follow the code, and where a
property would say otherwise it is stated with the exception.

Bus and runtime:

* A creation that overlaps a deletion of the same channel may leave it without a
  history, or a history without a channel (`ch-core/src/bus.rs:212-220`, 227-230): the maps
  are written one after the other. `HistoryMatchesChannels` excepts such channels.

* The comment at `ch-core/src/bus.rs:297` announces a record in the global history
  that `send_to_channel` does not make; `ChannelVisibility::Notify` is documented
  as "topic + sender, not content" (`channel.rs:16`) and gets the whole message.
* Loading a second agent of a name leaves the older handler and driver running,
  out of reach of `stop_agent` and `stop_all`. Names are said to be unique
  (`ch-agent/src/scanner.rs:545`), but a manifest's name ignores the user and
  all but the last label of a host.
* A manifest's `setup_script` is said to run for native agents;
  `build_command` ignores it.
* A workflow may name two steps alike. The ids are what counts as completed and
  what leaves pending (`ch-core/src/orchestrator.rs:152-155`, 211), so a copy whose
  dependencies are unknown is dropped unrun and the workflow reported as
  completed. `OutcomeRight` promises all steps for distinct ids only.

Drivers:

* In argv mode a stream ignores the exit status, so that a failed agent looks
  like an empty answer, and a stream that is dropped leaves its process running;
  so do a timeout, a stop between spawn and store, and a second start.
* A stream's final usage estimate reads a counter before the stream is consumed
  (`drivers/subprocess.rs:813`); `cd dir && script; exec` runs the agent even if
  `cd` fails; `TmuxDriver` without a log command calls itself
  (`drivers/tmux.rs:120`, 326).
* The prompt is written and flushed under the child's lock without a timeout
  (`drivers/subprocess.rs:616-623`): a child that lives and does not read holds
  every chat of its agent, and `stop()` too.
* `invalidate_all` ignores a file it cannot remove and returns Ok
  (`ch-agent/src/host_env.rs:274`), and a probe under way during an invalidation
  stores its result after it: in both cases the old environment is used again.
* A torn cache file parses as a whole one, a failed probe is remembered for as
  long as the process lives, and `crow refresh-env` does not reach a hub that runs.

Models:

* The registries of the hub and of `crow doctor` are empty
  (`ch-tui/src/main.rs:352`, 1019), so every API agent gets `ModelNotFound`.
* Full names and bare ids share one map (`ch-model/src/registry.rs:43-46`): a
  server that lists `other/model` as a bare id takes over the full name of that
  model of `other`, and gives it up with its own refresh or removal.
* Removing or refreshing one backend drops the bare name of a model that another
  still lists; the ports 8080 and 11434 share a backend's name.

Terminal and tables:

* On the Workflow tab `r` refreshes instead of being typed, so that the hint
  "/workflow claim" cannot be followed there; the chat's scope hides the feedback
  of commands; `/all off` does what `/all` does.
* `crow memory workflow` lists only pending rows by default, which nobody writes
  (`app.rs:451` and `main.rs:538` say otherwise); a step claimed again keeps its
  first workflow.
* `crow memory evidence --status all` is three queries; a verdict in between shows
  a row twice or not at all (`main.rs:835`).
* The setup picker highlights a grouped row and toggles by index; leaving the SSH
  picker with Esc leaves the terminal in raw mode (`setup.rs:288-293`). A manifest that
  cannot be written in full leaves an empty or torn one over the one that was
  there (`ch-agent/src/scanner.rs:692`).
* After a quit `main` does not wait for the writer (`main.rs:409-412`): what is in
  its queue is lost. A workflow command whose send fails is logged only
  (`app.rs:483-486`, 518-521), and a refresh whose reading fails leaves the panel as
  it is (`app.rs:219`).

## 6. Not modelled

* **Session manager**: nothing calls it. Its `get` and `list` return copies, so
  that rounds and participants never reach it.
* **tmux driver**: keys sent to and text read from a terminal. Its outcomes are
  those `AgentRuntime` leaves open.
* **Monitor**, `ch-adapter`, `ch-gui`: no callers, placeholders.
* **Configuration, pricing, scratch memory, embedder**: parsing and tables without
  state; the scratch store is in no crate.
* **Rendering**: layout, colours, wrapping. **Formats**: SQL text, JSON of agents
  and of model servers, probe scripts, the text of manifests.
* **Protocol**: plain data, as far as components look at it.
* **The fan-out of a handoff's decisions** into pending rows of evidence
  (`ch-memory/src/writer.rs:211-241`): one write a decision, each with its own
  dropped error. The one producer of handoffs in the program, `/handoff`
  (`ch-tui/src/app.rs:279-283`), sends none with decisions, so the loop has
  nothing to do; with a producer that did, a handoff would be stored in several
  writes after its message, and might be stored in part.
* **The end of the process in `AgentRuntime`**: its handlers finish after `Quit`, as
  far as the closed bus lets them, where the program cancels them when `main`
  returns. `ThinkingEnds` is about the screen while there is one.
* **Unreadable cache files**: a file of the host environment cache is there, torn or
  missing; one that exists and cannot be read counts as missing.
* Within modelled parts: the vector search and migrations of the store, the filters
  of the registry over status and capabilities, `publish` and `request` by agents
  (nothing in the program calls them; the bus model has them).

## 7. Plan

Done: the bus, the runtime, the pipeline of evidence, and all components behind
the terminal and the agents that keep state. What could follow:

1. `AgentLoading` composed with `AgentRuntime`: a reload while the old handler
   still answers, seen from the user.
2. `WorkflowSteps` on the real bus, as `MemoryPipeline` has it; its commands are
   tasks that overtake each other, which is all the bus adds for one writer.
3. The tmux driver's session commands, if it grows a state of its own.
4. Abstract specifications for more components than the table of evidence: a
   channel as a set of members, a driver as a function from prompts to answers.
