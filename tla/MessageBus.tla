----------------------------- MODULE MessageBus -----------------------------
(***************************************************************************)
(* The message bus of ch-core (crates/ch-core/src/bus.rs, channel.rs).     *)
(*                                                                         *)
(* Any number of tasks call the bus at once.  A call is not atomic: it     *)
(* checks that the bus runs, records the message, announces it on the      *)
(* monitors' feed and then hands it to its recipients one after the other, *)
(* waiting whenever a recipient's bounded queue is full.  Every shared     *)
(* structure has a lock of its own (a DashMap shard, a tokio RwLock), so   *)
(* the steps of different calls interleave.                                *)
(*                                                                         *)
(* A guard of a DashMap shard is held while a send waits (bus.rs:120, 127, *)
(* 163, 303, 315) and while a channel send runs (bus.rs:283); the writers  *)
(* of those shards wait for it.  Wording, timestamps and payloads are left *)
(* out: a message is its number, its sending task, its addressee and the   *)
(* message it answers.                                                     *)
(***************************************************************************)
EXTENDS Naturals, Sequences, FiniteSets

CONSTANTS
  Agent,         (* agent ids                                                *)
  Task,          (* tokio tasks that call the bus                            *)
  ChannelName,   (* names of channels                                        *)
  NoAgent,       (* Option::None of an addressee                             *)
  NoChannel,     (* a call that names no channel                             *)
  NoMessage,     (* a call that carries no message                           *)
  Sender,        (* [Task -> Agent]: the agent a task sends as               *)
  Peers,         (* [Task -> SUBSET (Agent \cup {NoAgent})]: whom a task     *)
                 (* addresses; NoAgent stands for everybody                  *)
  Loop,          (* [Agent -> SUBSET Task]: the tasks that are the agent's   *)
                 (* own receive loop: it receives nothing while one calls    *)
  Admins,        (* tasks that create and delete channels                    *)
  Shard,         (* [Agent -> shard]: the DashMap shard of a subscriber      *)
  Kinds,         (* the kinds of calls the tasks make                        *)
  QueueCap,      (* slots of a subscriber's queue: 100 in the code           *)
  MaxHistory,    (* messages kept in a history: 10000 in the code            *)
  FeedCap,       (* slots of the monitors' feed: 1000 in the code            *)
  MaxMsgs,       (* bound of the model: messages sent                        *)
  MaxChurn       (* bound of the model: changes of subscribers and channels  *)

AllKinds == {"publish", "dm", "channel", "request"}
Visibility == {"Full", "Notify", "None"}
Shards == {Shard[a] : a \in Agent}

Message == [id : 1..MaxMsgs, task : Task, to : Agent \cup {NoAgent}, corr : 0..MaxMsgs]

ASSUME ConstantsAssumption ==
  /\ NoAgent \notin Agent
  /\ NoChannel \notin ChannelName
  /\ NoMessage \notin Message
  /\ Sender \in [Task -> Agent]
  /\ Peers \in [Task -> SUBSET (Agent \cup {NoAgent})]
  /\ Loop \in [Agent -> SUBSET Task]
  /\ Admins \subseteq Task
  /\ DOMAIN Shard = Agent
  /\ Kinds \subseteq AllKinds
  /\ QueueCap \in Nat \ {0}
  /\ MaxHistory \in Nat \ {0}
  /\ FeedCap \in Nat \ {0}
  /\ MaxMsgs \in Nat
  /\ MaxChurn \in Nat

VARIABLES
  running,        (* the flag behind the RwLock                              *)
  clearing,       (* shards a shutdown has still to clear; it holds the      *)
                  (* write lock of running until there is none               *)
  subscribers,    (* agents with a sender in the map                         *)
  rx,             (* the receiver of the agent's latest subscription         *)
  queue,          (* messages in that subscription's mpsc channel            *)
  waiting,        (* tasks waiting for a slot of it, first come first served *)
  channels,       (* channels in the map                                     *)
  members,        (* visibility of a channel's members, "Out" if not one     *)
  hasHistory,     (* channels with an entry in channel_history               *)
  channelHistory, (* that entry                                              *)
  history,        (* the global history                                      *)
  feed,           (* messages broadcast to the monitors, oldest first        *)
  phase,          (* where a task stands in its call                         *)
  call,           (* its arguments                                           *)
  todo,           (* recipients the call has still to serve                  *)
  pos,            (* messages of the feed a waiting request has read         *)
  sent,           (* messages sent so far                                    *)
  churn           (* changes of subscribers and channels so far              *)

maps == <<running, clearing, subscribers, rx, churn>>
calls == <<phase, call, todo, pos, sent>>
vars == <<running, clearing, subscribers, rx, queue, waiting, channels, members,
          hasHistory, channelHistory, history, feed, phase, call, todo, pos, sent, churn>>

Delivering == {"full", "notify", "all", "one"}
Phase == {"idle", "record", "announce", "listen", "await",
          "insert", "insert_history", "delete_history"} \cup Delivering

NoCall == [kind |-> "none", msg |-> NoMessage, chan |-> NoChannel]

(* MessageBus::new *)
Init ==
  /\ running = FALSE
  /\ clearing = {}
  /\ subscribers = {}
  /\ rx = [a \in Agent |-> "dropped"]
  /\ queue = [a \in Agent |-> <<>>]
  /\ waiting = [a \in Agent |-> <<>>]
  /\ channels = {}
  /\ members = [c \in ChannelName |-> [a \in Agent |-> "Out"]]
  /\ hasHistory = {}
  /\ channelHistory = [c \in ChannelName |-> <<>>]
  /\ history = <<>>
  /\ feed = <<>>
  /\ phase = [t \in Task |-> "idle"]
  /\ call = [t \in Task |-> NoCall]
  /\ todo = [t \in Task |-> {}]
  /\ pos = [t \in Task |-> 0]
  /\ sent = 0
  /\ churn = 0

(* A call ends: its locals are gone.                                       *)
Ends(t) ==
  /\ phase' = [phase EXCEPT ![t] = "idle"]
  /\ call' = [call EXCEPT ![t] = NoCall]

(* A call goes on to its next step.                                        *)
GoesTo(t, p) ==
  /\ phase' = [phase EXCEPT ![t] = p]
  /\ UNCHANGED call

-----------------------------------------------------------------------------
(* Start, shutdown and subscriptions.                                      *)

Change == churn < MaxChurn /\ churn' = churn + 1

(* Mutant: the guard does not outlive the lookup of the subscriber.        *)
GuardDroppedEarly(s) == TRUE

(* No send holds a guard of the shard of a: its writers may enter.         *)
ShardFree(s) == \A a \in Agent : Shard[a] = s => waiting[a] = <<>>

Start ==
  /\ Change
  /\ clearing = {}
  /\ running' = TRUE
  /\ UNCHANGED <<clearing, subscribers, rx, queue, waiting, channels, members,
                 hasHistory, channelHistory, history, feed, calls>>

(* shutdown: take the write lock and lower the flag ...                    *)
Shutdown ==
  /\ Change
  /\ clearing = {}
  /\ running' = FALSE
  /\ clearing' = Shards
  /\ UNCHANGED <<subscribers, rx, queue, waiting, channels, members,
                 hasHistory, channelHistory, history, feed, calls>>

(* ... then clear the map shard by shard, waiting for the readers of each. *)
ClearShard(s) ==
  /\ s \in clearing
  /\ ShardFree(s)
  /\ subscribers' = {a \in subscribers : Shard[a] # s}
  /\ clearing' = clearing \ {s}
  /\ UNCHANGED <<running, rx, queue, waiting, channels, members, hasHistory,
                 channelHistory, history, feed, calls, churn>>

(* subscribe: a fresh queue; the receiver of an earlier one is out of reach *)
(* of the bus from now on.                                                 *)
Subscribe(a) ==
  /\ Change
  /\ ShardFree(Shard[a])
  /\ subscribers' = subscribers \cup {a}
  /\ rx' = [rx EXCEPT ![a] = "open"]
  /\ queue' = [queue EXCEPT ![a] = <<>>]
  /\ UNCHANGED <<running, clearing, waiting, channels, members, hasHistory,
                 channelHistory, history, feed, calls>>

Unsubscribe(a) ==
  /\ Change
  /\ a \in subscribers
  /\ ShardFree(Shard[a])
  /\ subscribers' = subscribers \ {a}
  /\ UNCHANGED <<running, clearing, rx, queue, waiting, channels, members,
                 hasHistory, channelHistory, history, feed, calls>>

(* The owner of the receiver takes the next message, unless it is busy     *)
(* with a call of its own.                                                 *)
Receive(a) ==
  /\ rx[a] = "open"
  /\ queue[a] # <<>>
  /\ \A t \in Loop[a] : phase[t] = "idle"
  /\ queue' = [queue EXCEPT ![a] = Tail(@)]
  /\ UNCHANGED <<maps, waiting, channels, members, hasHistory, channelHistory,
                 history, feed, calls>>

(* The owner ends and drops its receiver with what it had not read.        *)
DropReceiver(a) ==
  /\ Change
  /\ rx[a] = "open"
  /\ \A t \in Loop[a] : phase[t] = "idle"
  /\ rx' = [rx EXCEPT ![a] = "dropped"]
  /\ queue' = [queue EXCEPT ![a] = <<>>]
  /\ UNCHANGED <<running, clearing, subscribers, waiting, channels, members,
                 hasHistory, channelHistory, history, feed, calls>>

-----------------------------------------------------------------------------
(* Channels.                                                               *)

(* A channel send keeps a guard of its channel from the lookup to the end. *)
Pins(t, c) == /\ call[t].kind = "channel"
              /\ call[t].chan = c
              /\ phase[t] \in {"announce", "full", "notify"}

(* Mutant: the guard is dropped as soon as the message is recorded.        *)
ChannelGuardDropped(c) == \A t \in Task : ~(Pins(t, c) /\ phase[t] = "announce")

ChannelFree(c) == \A t \in Task : ~Pins(t, c)

(* create_channel: the check, the insertion and the insertion of the       *)
(* history are three visits to the maps.                                   *)
CreateCheck(t, c) ==
  /\ Change
  /\ phase[t] = "idle"
  /\ c \notin channels
  /\ phase' = [phase EXCEPT ![t] = "insert"]
  /\ call' = [call EXCEPT ![t] = [NoCall EXCEPT !.chan = c]]
  /\ UNCHANGED <<running, clearing, subscribers, rx, queue, waiting, channels, members,
                 hasHistory, channelHistory, history, feed, todo, pos, sent>>

CreateInsert(t) ==
  LET c == call[t].chan IN
  /\ phase[t] = "insert"
  /\ ChannelFree(c)
  /\ channels' = channels \cup {c}
  /\ members' = [members EXCEPT ![c] = [a \in Agent |-> "Out"]]
  /\ GoesTo(t, "insert_history")
  /\ UNCHANGED <<maps, queue, waiting, hasHistory, channelHistory, history, feed,
                 todo, pos, sent>>

CreateHistory(t) ==
  LET c == call[t].chan IN
  /\ phase[t] = "insert_history"
  /\ hasHistory' = hasHistory \cup {c}
  /\ channelHistory' = [channelHistory EXCEPT ![c] = <<>>]
  /\ Ends(t)
  /\ UNCHANGED <<maps, queue, waiting, channels, members, history, feed,
                 todo, pos, sent>>

(* delete_channel: the channel first, then its history.                    *)
DeleteChannel(t, c) ==
  /\ Change
  /\ phase[t] = "idle"
  /\ c \in channels
  /\ ChannelFree(c)
  /\ channels' = channels \ {c}
  /\ members' = [members EXCEPT ![c] = [a \in Agent |-> "Out"]]
  /\ phase' = [phase EXCEPT ![t] = "delete_history"]
  /\ call' = [call EXCEPT ![t] = [NoCall EXCEPT !.chan = c]]
  /\ UNCHANGED <<running, clearing, subscribers, rx, queue, waiting, hasHistory,
                 channelHistory, history, feed, todo, pos, sent>>

(* Mutant: the history outlives its channel.                               *)
HistoryLeftBehind(t) ==
  /\ phase[t] = "delete_history"
  /\ Ends(t)
  /\ UNCHANGED <<maps, queue, waiting, channels, members, hasHistory, channelHistory,
                 history, feed, todo, pos, sent>>

DeleteHistory(t) ==
  LET c == call[t].chan IN
  /\ phase[t] = "delete_history"
  /\ hasHistory' = hasHistory \ {c}
  /\ channelHistory' = [channelHistory EXCEPT ![c] = <<>>]
  /\ Ends(t)
  /\ UNCHANGED <<maps, queue, waiting, channels, members, history, feed,
                 todo, pos, sent>>

(* join_channel: a second join overwrites the visibility.                  *)
JoinChannel(a, c, v) ==
  /\ Change
  /\ c \in channels
  /\ members' = [members EXCEPT ![c][a] = v]
  /\ UNCHANGED <<running, clearing, subscribers, rx, queue, waiting, channels,
                 hasHistory, channelHistory, history, feed, calls>>

LeaveChannel(a, c) ==
  /\ Change
  /\ c \in channels
  /\ members[c][a] # "Out"
  /\ members' = [members EXCEPT ![c][a] = "Out"]
  /\ UNCHANGED <<running, clearing, subscribers, rx, queue, waiting, channels,
                 hasHistory, channelHistory, history, feed, calls>>

MembersWith(c, v) == {a \in Agent : members[c][a] = v}

-----------------------------------------------------------------------------
(* Sending.                                                                *)

(* is_running: the reader gets the lock when no shutdown holds it.  A call *)
(* that finds the bus stopped returns an error and changes nothing.        *)
IsRunning == running /\ clearing = {}

Begin(t, kind, to, chan, corr) ==
  /\ phase[t] = "idle"
  /\ IsRunning
  /\ sent < MaxMsgs
  /\ sent' = sent + 1
  /\ call' = [call EXCEPT ![t] =
                [kind |-> kind, chan |-> chan,
                 msg |-> [id |-> sent + 1, task |-> t, to |-> to, corr |-> corr]]]
  /\ phase' = [phase EXCEPT ![t] = "record"]
  /\ UNCHANGED <<maps, queue, waiting, channels, members, hasHistory, channelHistory,
                 history, feed, todo, pos>>

(* The requests a task may reply to: its agent has received them.  To the  *)
(* bus, a reply to anything else is like a message that is no reply.       *)
Asked(t) ==
  {call[u].msg.id : u \in {v \in Task :
     /\ call[v].kind = "request"
     /\ phase[v] \in {"all", "one", "listen", "await"}
     /\ Sender[t] \notin todo[v]
     /\ \A i \in 1..Len(queue[Sender[t]]) : queue[Sender[t]][i] # call[v].msg}}

Publish(t, to, corr) == "publish" \in Kinds /\ Begin(t, "publish", to, NoChannel, corr)
SendDm(t, to) == "dm" \in Kinds /\ Begin(t, "dm", to, NoChannel, 0)
Request(t, to) == "request" \in Kinds /\ Begin(t, "request", to, NoChannel, 0)
SendToChannel(t, c, to, corr) == "channel" \in Kinds /\ Begin(t, "channel", to, c, corr)

(* Mutant: the oldest message is dropped one message late.                 *)
PushOffByOne(h, m) == IF Len(h) <= MaxHistory THEN Append(h, m) ELSE Tail(Append(h, m))

Push(h, m) == IF Len(h) < MaxHistory THEN Append(h, m) ELSE Tail(Append(h, m))

(* publish, send_dm: the global history.                                   *)
Record(t) ==
  /\ phase[t] = "record"
  /\ call[t].kind # "channel"
  /\ history' = Push(history, call[t].msg)
  /\ GoesTo(t, "announce")
  /\ UNCHANGED <<maps, queue, waiting, channels, members, hasHistory, channelHistory,
                 feed, todo, pos, sent>>

(* send_to_channel: look the channel up, pin it, and record the message in *)
(* the channel's history if it has one; without a channel, an error.       *)
RecordChannel(t) ==
  LET c == call[t].chan IN
  /\ phase[t] = "record"
  /\ call[t].kind = "channel"
  /\ IF c \in channels THEN GoesTo(t, "announce") ELSE Ends(t)
  /\ channelHistory' = IF c \in channels \cap hasHistory
                       THEN [channelHistory EXCEPT ![c] = Push(@, call[t].msg)]
                       ELSE channelHistory
  /\ UNCHANGED <<maps, queue, waiting, channels, members, hasHistory,
                 history, feed, todo, pos, sent>>

(* Mutant: the sender is one of the recipients.                            *)
RouteToSenderToo(t) ==
  LET k == call[t].kind
      to == call[t].msg.to
  IN  IF k = "channel" THEN <<"full", MembersWith(call[t].chan, "Full")>>
      ELSE IF to = NoAgent THEN <<"all", Agent>>
      ELSE <<"one", {to}>>

(* Where a call goes once it has announced its message, and whom it serves *)
(* there: all others, the addressee, or the channel's Full members as they *)
(* are now.                                                                *)
Route(t) ==
  LET k == call[t].kind
      to == call[t].msg.to
  IN  IF k = "channel" THEN <<"full", MembersWith(call[t].chan, "Full") \ {Sender[t]}>>
      ELSE IF to = NoAgent THEN <<"all", Agent \ {Sender[t]}>>
      ELSE <<"one", {to}>>

(* Mutant: a channel send does not broadcast.                              *)
AnnounceUnlessChannel(t) ==
  /\ phase[t] = "announce"
  /\ feed' = IF call[t].kind = "channel" THEN feed ELSE Append(feed, call[t].msg)
  /\ GoesTo(t, Route(t)[1])
  /\ todo' = [todo EXCEPT ![t] = Route(t)[2]]
  /\ UNCHANGED <<maps, queue, waiting, channels, members, hasHistory, channelHistory,
                 history, pos, sent>>

Announce(t) ==
  /\ phase[t] = "announce"
  /\ feed' = Append(feed, call[t].msg)
  /\ GoesTo(t, Route(t)[1])
  /\ todo' = [todo EXCEPT ![t] = Route(t)[2]]
  /\ UNCHANGED <<maps, queue, waiting, channels, members, hasHistory, channelHistory,
                 history, pos, sent>>

Waits(t, a) == \E i \in 1..Len(waiting[a]) : waiting[a][i] = t
Blocked(t) == \E a \in Agent : Waits(t, a)

(* A slot goes to the task that waited longest; a newcomer does not        *)
(* overtake.                                                               *)
Turn(t, a) == IF waiting[a] = <<>> THEN ~Blocked(t) ELSE Head(waiting[a]) = t

(* Mutant: a guard is not released when its send goes through.             *)
StayInLine(a) == UNCHANGED waiting

LeaveLine(a) == waiting' = [waiting EXCEPT ![a] = IF @ = <<>> THEN @ ELSE Tail(@)]

(* subscriber.send(..).await with a slot free.                             *)
Deliver(t, a) ==
  /\ phase[t] \in Delivering
  /\ a \in todo[t]
  /\ Turn(t, a)
  /\ a \in subscribers
  /\ rx[a] = "open"
  /\ Len(queue[a]) < QueueCap
  /\ queue' = [queue EXCEPT ![a] = Append(@, call[t].msg)]
  /\ LeaveLine(a)
  /\ todo' = [todo EXCEPT ![t] = @ \ {a}]
  /\ UNCHANGED <<maps, channels, members, hasHistory, channelHistory, history, feed,
                 phase, call, pos, sent>>

(* Mutant: try_send instead of send: a full queue loses the message.       *)
DropInsteadOfWait(t, a) ==
  /\ phase[t] \in Delivering
  /\ a \in todo[t]
  /\ a \in subscribers
  /\ rx[a] = "open"
  /\ Len(queue[a]) >= QueueCap
  /\ todo' = [todo EXCEPT ![t] = @ \ {a}]
  /\ UNCHANGED <<maps, queue, waiting, channels, members, hasHistory, channelHistory,
                 history, feed, phase, call, pos, sent>>

(* The same with the queue full: the call waits, its guard in hand.        *)
Wait(t, a) ==
  /\ phase[t] \in Delivering
  /\ a \in todo[t]
  /\ ~Blocked(t)
  /\ a \in subscribers
  /\ rx[a] = "open"
  /\ Len(queue[a]) >= QueueCap \/ waiting[a] # <<>>
  /\ waiting' = [waiting EXCEPT ![a] = Append(@, t)]
  /\ UNCHANGED <<maps, queue, channels, members, hasHistory, channelHistory, history,
                 feed, calls>>

(* Mutant: only a missing subscriber is passed over, not a closed queue.   *)
SkipMissingOnly(t, a) ==
  /\ phase[t] \in Delivering
  /\ a \in todo[t]
  /\ Turn(t, a)
  /\ a \notin subscribers
  /\ LeaveLine(a)
  /\ todo' = [todo EXCEPT ![t] = @ \ {a}]
  /\ UNCHANGED <<maps, queue, channels, members, hasHistory, channelHistory, history,
                 feed, phase, call, pos, sent>>

(* No such subscriber, or one whose receiver is gone: a warning at most.   *)
Skip(t, a) ==
  /\ phase[t] \in Delivering
  /\ a \in todo[t]
  /\ Turn(t, a)
  /\ a \notin subscribers \/ rx[a] = "dropped"
  /\ LeaveLine(a)
  /\ todo' = [todo EXCEPT ![t] = @ \ {a}]
  /\ UNCHANGED <<maps, queue, channels, members, hasHistory, channelHistory, history,
                 feed, phase, call, pos, sent>>

(* Mutant: the second lookup finds the Full members again.                 *)
ServeFullAgain(t) ==
  /\ phase[t] = "full"
  /\ todo[t] = {}
  /\ GoesTo(t, "notify")
  /\ todo' = [todo EXCEPT ![t] = MembersWith(call[t].chan, "Full") \ {Sender[t]}]
  /\ UNCHANGED <<maps, queue, waiting, channels, members, hasHistory, channelHistory,
                 history, feed, pos, sent>>

(* The Notify members are looked up when all Full members are served.      *)
ServeNotify(t) ==
  /\ phase[t] = "full"
  /\ todo[t] = {}
  /\ GoesTo(t, "notify")
  /\ todo' = [todo EXCEPT ![t] = MembersWith(call[t].chan, "Notify") \ {Sender[t]}]
  /\ UNCHANGED <<maps, queue, waiting, channels, members, hasHistory, channelHistory,
                 history, feed, pos, sent>>

Return(t) ==
  /\ phase[t] \in {"notify", "all", "one"}
  /\ todo[t] = {}
  /\ IF call[t].kind = "request" THEN GoesTo(t, "listen") ELSE Ends(t)
  /\ UNCHANGED <<maps, queue, waiting, channels, members, hasHistory, channelHistory,
                 history, feed, todo, pos, sent>>

-----------------------------------------------------------------------------
(* The second half of request: it subscribes to the feed once the message  *)
(* is published, and reads on until the reply, an overrun or the timeout.  *)

Listen(t) ==
  /\ phase[t] = "listen"
  /\ pos' = [pos EXCEPT ![t] = Len(feed)]
  /\ GoesTo(t, "await")
  /\ UNCHANGED <<maps, queue, waiting, channels, members, hasHistory, channelHistory,
                 history, feed, todo, sent>>

Unread(t) == Len(feed) - pos[t]

(* An overrun (Lagged) is an error: the call returns on it and on the      *)
(* reply, and passes over any other message.                               *)
ReadFeed(t) ==
  /\ phase[t] = "await"
  /\ Unread(t) > 0
  /\ IF Unread(t) > FeedCap \/ feed[pos[t] + 1].corr = call[t].msg.id
     THEN Ends(t) /\ pos' = [pos EXCEPT ![t] = 0]
     ELSE GoesTo(t, "await") /\ pos' = [pos EXCEPT ![t] = @ + 1]
  /\ UNCHANGED <<maps, queue, waiting, channels, members, hasHistory, channelHistory,
                 history, feed, todo, sent>>

(* The timer is looked at after the receiver, so only when it has nothing. *)
Timeout(t) ==
  /\ phase[t] = "await"
  /\ Unread(t) = 0
  /\ Ends(t)
  /\ pos' = [pos EXCEPT ![t] = 0]
  /\ UNCHANGED <<maps, queue, waiting, channels, members, hasHistory, channelHistory,
                 history, feed, todo, sent>>

-----------------------------------------------------------------------------
Lifecycle ==
  \/ Start
  \/ Shutdown
  \/ \E s \in Shards : ClearShard(s)

Subscription(a) == Subscribe(a) \/ Unsubscribe(a) \/ Receive(a) \/ DropReceiver(a)

Administration(t) ==
  \/ \E c \in ChannelName : CreateCheck(t, c) \/ DeleteChannel(t, c)
  \/ CreateInsert(t)
  \/ CreateHistory(t)
  \/ DeleteHistory(t)

Membership(a, c) ==
  \/ \E v \in Visibility : JoinChannel(a, c, v)
  \/ LeaveChannel(a, c)

NewCall(t) ==
  \/ \E to \in Peers[t], corr \in {0} \cup Asked(t) : Publish(t, to, corr)
  \/ \E to \in Peers[t] \cap Agent : SendDm(t, to)
  \/ \E to \in Peers[t] : Request(t, to)
  \/ \E c \in ChannelName, to \in Peers[t], corr \in {0} \cup Asked(t) :
       SendToChannel(t, c, to, corr)

Progress(t) ==
  \/ Record(t)
  \/ RecordChannel(t)
  \/ Announce(t)
  \/ \E a \in Agent : Deliver(t, a) \/ Wait(t, a) \/ Skip(t, a)
  \/ ServeNotify(t)
  \/ Return(t)
  \/ Listen(t)
  \/ ReadFeed(t)
  \/ Timeout(t)

Next ==
  \/ Lifecycle
  \/ \E a \in Agent : Subscription(a)
  \/ \E t \in Admins : Administration(t)
  \/ \E a \in Agent, c \in ChannelName : Membership(a, c)
  \/ \E t \in Task : NewCall(t) \/ Progress(t)

Spec == Init /\ [][Next]_vars

-----------------------------------------------------------------------------
(* Every variable stays in its type; no queue outgrows its slots and no    *)
(* history its limit (bus.rs:76, 110).                                     *)
Call == [kind : AllKinds \cup {"none"}, msg : Message \cup {NoMessage},
         chan : ChannelName \cup {NoChannel}]

SubscribersType ==
  /\ running \in BOOLEAN
  /\ clearing \subseteq Shards
  /\ subscribers \subseteq Agent
  /\ rx \in [Agent -> {"open", "dropped"}]

QueuesType ==
  /\ queue \in [Agent -> Seq(Message)]
  /\ \A a \in Agent : Len(queue[a]) <= QueueCap
  /\ waiting \in [Agent -> Seq(Task)]

ChannelsType ==
  /\ channels \subseteq ChannelName
  /\ members \in [ChannelName -> [Agent -> Visibility \cup {"Out"}]]
  /\ hasHistory \subseteq ChannelName
  /\ channelHistory \in [ChannelName -> Seq(Message)]
  /\ \A c \in ChannelName : Len(channelHistory[c]) <= MaxHistory

LogsType ==
  /\ history \in Seq(Message)
  /\ Len(history) <= MaxHistory
  /\ feed \in Seq(Message)

CallsType ==
  /\ phase \in [Task -> Phase]
  /\ call \in [Task -> Call]
  /\ todo \in [Task -> SUBSET Agent]
  /\ pos \in [Task -> Nat]
  /\ sent \in 0..MaxMsgs
  /\ churn \in 0..MaxChurn

TypeOK == SubscribersType /\ QueuesType /\ ChannelsType /\ LogsType /\ CallsType

(* A send that waited for a slot ends by putting its message into the very *)
(* queue it waited for, unless the agent gave that queue up.  Until then    *)
(* nobody but the receiver and the send first in line touches the queue:    *)
(* subscribe, unsubscribe and shutdown neither replace nor remove it under  *)
(* the guards of those who wait, also where two waits follow each other     *)
(* (bus.rs:62, 77, 84 against 120, 127, 163, 303, 315).                     *)
WaitersKeepTheirQueue ==
  [][\A a \in Agent : waiting[a] # <<>> =>
       LET first == Head(waiting[a]) IN
       /\ queue'[a] # queue[a] => Receive(a) \/ DropReceiver(a) \/ Deliver(first, a)
       /\ rx'[a] = "open" => rx[a] = "open"
       /\ waiting'[a] = <<>> \/ Head(waiting'[a]) # first
            => Deliver(first, a) \/ rx[a] = "dropped"]_vars

(* A channel is neither deleted nor replaced by a fresh one while a send   *)
(* runs on it: its members and their messages cannot be swapped under it   *)
(* (bus.rs:218, 227 against 283).                                          *)
PinnedChannelStays ==
  [][\A t \in Task, c \in ChannelName :
        Pins(t, c) => /\ c \in channels'
                      /\ \A u \in Task : ~(/\ phase[u] = "insert"
                                          /\ phase'[u] = "insert_history"
                                          /\ call[u].chan = c)]_vars

(* Monitors hear of every message before any agent can receive it, in all  *)
(* four kinds of calls (bus.rs:116, 160, 298).                             *)
QueuedWasAnnounced ==
  \A a \in Agent : \A i \in 1..Len(queue[a]) :
    \E j \in 1..Len(feed) : feed[j] = queue[a][i]

(* A request whose reply was broadcast while it was under way returns that *)
(* reply (bus.rs:174-205).                                                 *)
RequestHearsReply ==
  [][\A t \in Task :
        /\ phase[t] = "await"
        /\ phase'[t] = "idle"
        /\ \E j \in 1..Len(feed) : feed[j].corr = call[t].msg.id
        => pos[t] < Len(feed) /\ feed[pos[t] + 1].corr = call[t].msg.id]_vars

(* Every call on the bus returns, if the agents keep receiving.            *)
CallsReturn == \A t \in Task : phase[t] # "idle" ~> phase[t] = "idle"

(* A shutdown gets through, however many sends hold guards as it comes.    *)
ShutdownCompletes == clearing # {} ~> clearing = {}

=============================================================================
