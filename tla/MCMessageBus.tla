---------------------------- MODULE MCMessageBus ----------------------------
(***************************************************************************)
(* Instances of the message bus for TLC.  Two agents send, the third only  *)
(* listens; the first state is that of a bus after start-up: it runs, one  *)
(* channel exists and everybody is subscribed and a member of it.          *)
(***************************************************************************)
EXTENDS MessageBusHistory, TLC

CONSTANTS a1, a2, a3, t1, t2, general, lobby

(* Two tasks of one agent, as the tasks the terminal UI spawns are.        *)
OneSender == t1 :> a1 @@ t2 :> a1
SameTasks == Permutations(Task)

(* One task for each of two agents.                                        *)
TwoSenders == t1 :> a1 @@ t2 :> a2

Everybody == [t \in Task |-> {NoAgent}]
EachOther == t1 :> {a2, NoAgent} @@ t2 :> {a1}

(* Receivers that do nothing but receive; receive loops that also send.    *)
FreeReceivers == [a \in Agent |-> {}]
SendingReceivers == [a \in Agent |-> {t \in Task : Sender[t] = a}]

MCShard == [a \in Agent |-> IF a = a1 THEN 1 ELSE 2]

Started ==
  /\ running = TRUE
  /\ clearing = {}
  /\ subscribers = Agent
  /\ rx = [a \in Agent |-> "open"]
  /\ queue = [a \in Agent |-> <<>>]
  /\ waiting = [a \in Agent |-> <<>>]
  /\ channels = {general}
  /\ members = [c \in ChannelName |-> [a \in Agent |-> IF a = a3 THEN "Notify" ELSE "Full"]]
  /\ hasHistory = {general}
  /\ channelHistory = [c \in ChannelName |-> <<>>]
  /\ history = <<>>
  /\ feed = <<>>
  /\ phase = [t \in Task |-> "idle"]
  /\ call = [t \in Task |-> NoCall]
  /\ todo = [t \in Task |-> {}]
  /\ pos = [t \in Task |-> 0]
  /\ sent = 0
  /\ churn = 0

StartedWatched ==
  /\ Started
  /\ held = [t \in Task |-> [a \in Agent |-> "Mixed"]]
  /\ got = [t \in Task |-> [a \in Agent |-> 0]]
  /\ raced = {}

DeliverySpec == StartedWatched /\ [][HNext]_hvars

(* The scheduler runs every task that can run, timers fire and the agents  *)
(* receive.  No fairness on new calls nor on changes of subscribers and    *)
(* channels.                                                               *)
StartedAlone == Started /\ held = <<>> /\ got = <<>> /\ raced = {}
NextAlone == Next /\ UNCHANGED <<held, got, raced>>
StartedSpec == StartedAlone /\ [][NextAlone]_hvars

Fairness ==
  /\ \A a \in Agent : WF_vars(Receive(a))
  /\ \A s \in Shards : WF_vars(ClearShard(s))
  /\ \A t \in Task : WF_vars(Progress(t)) /\ WF_vars(CreateInsert(t))
                      /\ WF_vars(CreateHistory(t)) /\ WF_vars(DeleteHistory(t))

FairSpec == StartedSpec /\ Fairness
=============================================================================
