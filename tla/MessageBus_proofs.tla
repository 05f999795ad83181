------------------------ MODULE MessageBus_proofs ------------------------
(***************************************************************************)
(* Theorems about the message bus, for any agents, tasks, channels and     *)
(* bounds.  Each rests on an invariant a step keeps:                       *)
(*                                                                         *)
(*   TInv             types, and what the phase of a task says of its call *)
(*   PinsOK           a pinned channel is in the map                       *)
(*   AnnouncedBefore  a message being handed out is on the feed            *)
(*   HistOK           channels and histories while no two calls race       *)
(*   DInv             what a channel send has handed to whom, so far       *)
(***************************************************************************)
EXTENDS MessageBusHistory, TLAPS

(* Phases of a task whose call carries a message.                          *)
Sending == {"record", "announce", "listen", "await"} \cup Delivering

(* The phase of a task determines what its call holds.                     *)
CallOK ==
  \A t \in Task :
    /\ phase[t] \in Sending =>
         /\ call[t].kind \in AllKinds
         /\ call[t].msg \in Message
         /\ call[t].msg.task = t
         /\ call[t].kind = "channel" => call[t].chan \in ChannelName
    /\ phase[t] \in {"full", "notify"} => call[t].kind = "channel"
    /\ phase[t] \in {"insert", "insert_history", "delete_history"} =>
         call[t].kind = "none" /\ call[t].chan \in ChannelName
    /\ phase[t] = "idle" => call[t].kind = "none"

(* TypeOK alone is not inductive: Append needs a message in the call.      *)
TInv == TypeOK /\ CallOK

(* A history stays a sequence of messages within its limit (bus.rs:110).   *)
LEMMA PushType ==
  ASSUME NEW h \in Seq(Message), Len(h) <= MaxHistory, NEW m \in Message
  PROVE  Push(h, m) \in Seq(Message) /\ Len(Push(h, m)) <= MaxHistory
BY ConstantsAssumption DEF Push

(* Each part of the invariant depends on a few variables only.             *)
LEMMA Unchanged ==
  ASSUME TInv
  PROVE  /\ UNCHANGED <<running, clearing, subscribers, rx>> => SubscribersType'
         /\ UNCHANGED <<queue, waiting>> => QueuesType'
         /\ UNCHANGED <<channels, members, hasHistory, channelHistory>> => ChannelsType'
         /\ UNCHANGED <<history, feed>> => LogsType'
         /\ UNCHANGED <<phase, call, todo, pos, sent, churn>> => CallsType'
         /\ UNCHANGED <<phase, call>> => CallOK'
BY DEF TInv, TypeOK, SubscribersType, QueuesType, ChannelsType, LogsType, CallsType, CallOK

(* A reply names the number of a message that was sent.                    *)
LEMMA AskedType ==
  ASSUME TInv, NEW t \in Task
  PROVE  Asked(t) \subseteq 0..MaxMsgs
<1> SUFFICES ASSUME NEW u \in Task, call[u].kind = "request", phase[u] \in {"all", "one", "listen", "await"}
             PROVE  call[u].msg.id \in 0..MaxMsgs
  BY DEF Asked
<1> QED
  BY ConstantsAssumption DEF TInv, CallOK, Sending, Delivering, Message

(* The end of a call leaves the tasks well typed.                          *)
LEMMA EndsType ==
  ASSUME TInv, NEW t \in Task, Ends(t)
  PROVE  /\ phase' \in [Task -> Phase]
         /\ call' \in [Task -> Call]
         /\ CallOK'
<1>1. NoCall \in Call
  BY DEF NoCall, Call
<1>2. phase' \in [Task -> Phase] /\ call' \in [Task -> Call]
  BY <1>1 DEF TInv, TypeOK, CallsType, Ends, Phase
<1>3. CallOK'
  BY DEF TInv, TypeOK, CallsType, CallOK, Ends, NoCall, Sending, Delivering
<1> QED
  BY <1>2, <1>3

(* Every step of the bus keeps the types.                                  *)
LEMMA TypeStep == TInv /\ [Next]_vars => TInv'
<1> SUFFICES ASSUME TInv, [Next]_vars PROVE TInv'
  OBVIOUS
<1> USE ConstantsAssumption DEF TInv, TypeOK
<1>1. ASSUME Start PROVE TInv'
  <2>1. SubscribersType'
    BY <1>1 DEF Start, SubscribersType
  <2>2. CallsType'
    BY <1>1 DEF Start, Change, CallsType, calls
  <2> QED
    BY <1>1, <2>1, <2>2, Unchanged DEF Start, calls
<1>2. ASSUME Shutdown PROVE TInv'
  <2>1. SubscribersType'
    BY <1>2 DEF Shutdown, SubscribersType
  <2>2. CallsType'
    BY <1>2 DEF Shutdown, Change, CallsType, calls
  <2> QED
    BY <1>2, <2>1, <2>2, Unchanged DEF Shutdown, calls
<1>3. ASSUME NEW s \in Shards, ClearShard(s) PROVE TInv'
  <2>1. SubscribersType'
    BY <1>3 DEF ClearShard, SubscribersType
  <2> QED
    BY <1>3, <2>1, Unchanged DEF ClearShard, calls
<1>4. ASSUME NEW a \in Agent, Subscribe(a) PROVE TInv'
  <2>1. SubscribersType'
    BY <1>4 DEF Subscribe, SubscribersType
  <2>2. QueuesType'
    BY <1>4 DEF Subscribe, QueuesType
  <2>3. CallsType'
    BY <1>4 DEF Subscribe, Change, CallsType, calls
  <2> QED
    BY <1>4, <2>1, <2>2, <2>3, Unchanged DEF Subscribe, calls
<1>5. ASSUME NEW a \in Agent, Unsubscribe(a) PROVE TInv'
  <2>1. SubscribersType'
    BY <1>5 DEF Unsubscribe, SubscribersType
  <2>2. CallsType'
    BY <1>5 DEF Unsubscribe, Change, CallsType, calls
  <2> QED
    BY <1>5, <2>1, <2>2, Unchanged DEF Unsubscribe, calls
<1>6. ASSUME NEW a \in Agent, Receive(a) PROVE TInv'
  <2>1. QueuesType'
    BY <1>6 DEF Receive, QueuesType
  <2> QED
    BY <1>6, <2>1, Unchanged DEF Receive, maps, calls
<1>7. ASSUME NEW a \in Agent, DropReceiver(a) PROVE TInv'
  <2>1. SubscribersType'
    BY <1>7 DEF DropReceiver, SubscribersType
  <2>2. QueuesType'
    BY <1>7 DEF DropReceiver, QueuesType
  <2>3. CallsType'
    BY <1>7 DEF DropReceiver, Change, CallsType, calls
  <2> QED
    BY <1>7, <2>1, <2>2, <2>3, Unchanged DEF DropReceiver, calls
<1>8. ASSUME NEW t \in Task, NEW c \in ChannelName, CreateCheck(t, c)
      PROVE  TInv'
  <2>1. CallsType'
    BY <1>8 DEF CreateCheck, Change, NoCall, CallsType, calls, Phase, Call
  <2>2. CallOK'
    BY <1>8 DEF CreateCheck, NoCall, CallOK, calls, CallsType, Sending,
       Delivering
  <2> QED
    BY <1>8, <2>1, <2>2, Unchanged DEF CreateCheck
<1>9. ASSUME NEW t \in Task, CreateInsert(t) PROVE TInv'
  <2>1. ChannelsType'
    BY <1>9 DEF CreateInsert, CallOK, ChannelsType
  <2>2. CallsType'
    BY <1>9 DEF CreateInsert, GoesTo, CallsType, maps, calls, Phase, Call
  <2>3. CallOK'
    BY <1>9 DEF CreateInsert, GoesTo, CallOK, maps, calls, CallsType, Sending,
       Delivering
  <2> QED
    BY <1>9, <2>1, <2>2, <2>3, Unchanged DEF CreateInsert, maps
<1>10. ASSUME NEW t \in Task, CreateHistory(t) PROVE TInv'
  <2>1. ChannelsType'
    BY <1>10 DEF CreateHistory, CallOK, ChannelsType
  <2>2. CallsType'
    BY <1>10, EndsType DEF CreateHistory, CallsType, maps
  <2>3. CallOK'
    BY <1>10, EndsType DEF CreateHistory
  <2> QED
    BY <1>10, <2>1, <2>2, <2>3, Unchanged DEF CreateHistory, maps
<1>11. ASSUME NEW t \in Task, NEW c \in ChannelName, DeleteChannel(t, c)
      PROVE  TInv'
  <2>1. ChannelsType'
    BY <1>11 DEF DeleteChannel, ChannelsType
  <2>2. CallsType'
    BY <1>11 DEF DeleteChannel, Change, NoCall, CallsType, calls, Phase, Call
  <2>3. CallOK'
    BY <1>11 DEF DeleteChannel, NoCall, CallOK, calls, CallsType, Sending,
       Delivering
  <2> QED
    BY <1>11, <2>1, <2>2, <2>3, Unchanged DEF DeleteChannel
<1>12. ASSUME NEW t \in Task, DeleteHistory(t) PROVE TInv'
  <2>1. ChannelsType'
    BY <1>12 DEF DeleteHistory, CallOK, ChannelsType
  <2>2. CallsType'
    BY <1>12, EndsType DEF DeleteHistory, CallsType, maps
  <2>3. CallOK'
    BY <1>12, EndsType DEF DeleteHistory
  <2> QED
    BY <1>12, <2>1, <2>2, <2>3, Unchanged DEF DeleteHistory, maps
<1>13. ASSUME NEW a \in Agent, NEW c \in ChannelName, NEW v \in Visibility,
            JoinChannel(a, c, v)
      PROVE  TInv'
  <2>1. ChannelsType'
    BY <1>13 DEF JoinChannel, ChannelsType
  <2>2. CallsType'
    BY <1>13 DEF JoinChannel, Change, CallsType, calls
  <2> QED
    BY <1>13, <2>1, <2>2, Unchanged DEF JoinChannel, calls
<1>14. ASSUME NEW a \in Agent, NEW c \in ChannelName, LeaveChannel(a, c)
      PROVE  TInv'
  <2>1. ChannelsType'
    BY <1>14 DEF LeaveChannel, ChannelsType
  <2>2. CallsType'
    BY <1>14 DEF LeaveChannel, Change, CallsType, calls
  <2> QED
    BY <1>14, <2>1, <2>2, Unchanged DEF LeaveChannel, calls
<1>15. ASSUME NEW t \in Task, NEW to \in Agent \cup {NoAgent}, NEW corr \in
            0..MaxMsgs, Publish(t, to, corr)
      PROVE  TInv'
  <2>1. CallsType'
    BY <1>15 DEF Publish, Begin, CallsType, maps, calls, Phase, Call,
       AllKinds, Message
  <2>2. CallOK'
    BY <1>15 DEF Publish, Begin, CallOK, maps, calls, CallsType, AllKinds,
       Message, Sending, Delivering, Phase
  <2> QED
    BY <1>15, <2>1, <2>2, Unchanged DEF Publish, Begin, maps
<1>16. ASSUME NEW t \in Task, NEW to \in Agent, SendDm(t, to) PROVE TInv'
  <2>1. CallsType'
    BY <1>16 DEF SendDm, Begin, CallsType, maps, calls, Phase, Call, AllKinds,
       Message
  <2>2. CallOK'
    BY <1>16 DEF SendDm, Begin, CallOK, maps, calls, CallsType, AllKinds,
       Message, Sending, Delivering, Phase
  <2> QED
    BY <1>16, <2>1, <2>2, Unchanged DEF SendDm, Begin, maps
<1>17. ASSUME NEW t \in Task, NEW to \in Agent \cup {NoAgent}, Request(t, to)
      PROVE  TInv'
  <2>1. CallsType'
    BY <1>17 DEF Request, Begin, CallsType, maps, calls, Phase, Call,
       AllKinds, Message
  <2>2. CallOK'
    BY <1>17 DEF Request, Begin, CallOK, maps, calls, CallsType, AllKinds,
       Message, Sending, Delivering, Phase
  <2> QED
    BY <1>17, <2>1, <2>2, Unchanged DEF Request, Begin, maps
<1>18. ASSUME NEW t \in Task, NEW c \in ChannelName, NEW to \in Agent \cup {NoAgent},
             NEW corr \in 0..MaxMsgs, SendToChannel(t, c, to, corr)
      PROVE  TInv'
  <2>1. CallsType'
    BY <1>18 DEF SendToChannel, Begin, CallsType, maps, calls, Phase, Call,
       AllKinds, Message
  <2>2. CallOK'
    BY <1>18 DEF SendToChannel, Begin, CallOK, maps, calls, CallsType,
       AllKinds, Message, Sending, Delivering, Phase
  <2> QED
    BY <1>18, <2>1, <2>2, Unchanged DEF SendToChannel, Begin, maps
<1>19. ASSUME NEW t \in Task, Record(t) PROVE TInv'
  <2>1. LogsType'
    BY PushType, <1>19 DEF Record, CallOK, Sending, CallsType, LogsType
  <2>2. CallsType'
    BY <1>19 DEF Record, GoesTo, CallsType, maps, calls, Phase, Call
  <2>3. CallOK'
    BY <1>19 DEF Record, GoesTo, CallOK, maps, calls, CallsType, Sending,
       Delivering
  <2> QED
    BY <1>19, <2>1, <2>2, <2>3, Unchanged DEF Record, maps
<1>20. ASSUME NEW t \in Task, RecordChannel(t) PROVE TInv'
  <2>1. ChannelsType'
    BY PushType, <1>20 DEF RecordChannel, CallOK, Sending, CallsType,
       ChannelsType
  <2>2. CallsType'
    <3>1. CASE call[t].chan \in channels
      BY <1>20, <3>1 DEF RecordChannel, GoesTo, CallsType, maps, calls, Phase,
         Call
    <3>2. CASE ~(call[t].chan \in channels)
      BY <1>20, <3>2, EndsType DEF RecordChannel, CallsType, maps
    <3> QED
      BY <3>1, <3>2
  <2>3. CallOK'
    <3>1. CASE call[t].chan \in channels
      BY <1>20, <3>1 DEF RecordChannel, GoesTo, CallOK, maps, calls,
         CallsType, Sending, Delivering
    <3>2. CASE ~(call[t].chan \in channels)
      BY <1>20, <3>2, EndsType DEF RecordChannel
    <3> QED
      BY <3>1, <3>2
  <2> QED
    BY <1>20, <2>1, <2>2, <2>3, Unchanged DEF RecordChannel, maps
<1>21. ASSUME NEW t \in Task, Announce(t) PROVE TInv'
  <2>1. LogsType'
    BY <1>21 DEF Announce, CallOK, Sending, CallsType, LogsType
  <2>2. CallsType'
    BY <1>21 DEF Announce, GoesTo, Route, MembersWith, CallsType, maps, calls,
       Phase, Call, Delivering, CallOK, Sending, Message
  <2>3. CallOK'
    BY <1>21 DEF Announce, GoesTo, Route, MembersWith, CallOK, maps, calls,
       CallsType, Sending, Delivering
  <2> QED
    BY <1>21, <2>1, <2>2, <2>3, Unchanged DEF Announce, maps
<1>22. ASSUME NEW t \in Task, NEW a \in Agent, Deliver(t, a) PROVE TInv'
  <2>1. QueuesType'
    BY <1>22 DEF Deliver, LeaveLine, CallOK, Sending, Delivering, QueuesType
  <2>2. CallsType'
    BY <1>22 DEF Deliver, CallsType, maps, calls
  <2> QED
    BY <1>22, <2>1, <2>2, Unchanged DEF Deliver, maps
<1>23. ASSUME NEW t \in Task, NEW a \in Agent, Wait(t, a) PROVE TInv'
  <2>1. QueuesType'
    BY <1>23 DEF Wait, CallOK, Sending, Delivering, QueuesType
  <2> QED
    BY <1>23, <2>1, Unchanged DEF Wait, maps, calls
<1>24. ASSUME NEW t \in Task, NEW a \in Agent, Skip(t, a) PROVE TInv'
  <2>1. QueuesType'
    BY <1>24 DEF Skip, LeaveLine, CallOK, Sending, Delivering, QueuesType
  <2>2. CallsType'
    BY <1>24 DEF Skip, CallsType, maps, calls
  <2> QED
    BY <1>24, <2>1, <2>2, Unchanged DEF Skip, maps
<1>25. ASSUME NEW t \in Task, ServeNotify(t) PROVE TInv'
  <2>1. CallsType'
    BY <1>25 DEF ServeNotify, GoesTo, MembersWith, CallsType, maps, calls,
       Phase, Call, Delivering
  <2>2. CallOK'
    BY <1>25 DEF ServeNotify, GoesTo, MembersWith, CallOK, maps, calls,
       CallsType, Sending, Delivering
  <2> QED
    BY <1>25, <2>1, <2>2, Unchanged DEF ServeNotify, maps
<1>26. ASSUME NEW t \in Task, Return(t) PROVE TInv'
  <2>1. CallsType'
    <3>1. CASE call[t].kind = "request"
      BY <1>26, <3>1 DEF Return, GoesTo, CallsType, maps, calls, Phase, Call
    <3>2. CASE ~(call[t].kind = "request")
      BY <1>26, <3>2, EndsType DEF Return, CallsType, maps
    <3> QED
      BY <3>1, <3>2
  <2>2. CallOK'
    <3>1. CASE call[t].kind = "request"
      BY <1>26, <3>1 DEF Return, GoesTo, CallOK, maps, calls, CallsType,
         Sending, Delivering
    <3>2. CASE ~(call[t].kind = "request")
      BY <1>26, <3>2, EndsType DEF Return
    <3> QED
      BY <3>1, <3>2
  <2> QED
    BY <1>26, <2>1, <2>2, Unchanged DEF Return, maps
<1>27. ASSUME NEW t \in Task, Listen(t) PROVE TInv'
  <2>1. CallsType'
    BY <1>27 DEF Listen, GoesTo, CallsType, maps, calls, Phase, Call
  <2>2. CallOK'
    BY <1>27 DEF Listen, GoesTo, CallOK, maps, calls, CallsType, Sending,
       Delivering
  <2> QED
    BY <1>27, <2>1, <2>2, Unchanged DEF Listen, maps
<1>28. ASSUME NEW t \in Task, ReadFeed(t) PROVE TInv'
  <2>1. CallsType'
    <3>1. CASE Unread(t) > FeedCap \/ feed[pos[t] + 1].corr = call[t].msg.id
      BY <1>28, <3>1, EndsType DEF ReadFeed, CallsType, maps
    <3>2. CASE ~(Unread(t) > FeedCap \/ feed[pos[t] + 1].corr = call[t].msg.id)
      BY SMTT(30), <1>28, <3>2 DEF ReadFeed, GoesTo, CallsType, maps, calls, Phase, Call
    <3> QED
      BY <3>1, <3>2
  <2>2. CallOK'
    <3>1. CASE Unread(t) > FeedCap \/ feed[pos[t] + 1].corr = call[t].msg.id
      BY <1>28, <3>1, EndsType DEF ReadFeed
    <3>2. CASE ~(Unread(t) > FeedCap \/ feed[pos[t] + 1].corr = call[t].msg.id)
      BY <1>28, <3>2 DEF ReadFeed, GoesTo, CallOK, maps, calls, CallsType,
         Sending, Delivering
    <3> QED
      BY <3>1, <3>2
  <2> QED
    BY <1>28, <2>1, <2>2, Unchanged DEF ReadFeed, maps
<1>29. ASSUME NEW t \in Task, Timeout(t) PROVE TInv'
  <2>1. CallsType'
    BY <1>29, EndsType DEF Timeout, CallsType, maps
  <2>2. CallOK'
    BY <1>29, EndsType DEF Timeout
  <2> QED
    BY <1>29, <2>1, <2>2, Unchanged DEF Timeout, maps
<1>30. CASE UNCHANGED vars
  BY <1>30, Unchanged DEF vars, calls
<1> QED
  BY AskedType, <1>1, <1>2, <1>3, <1>4, <1>5, <1>6, <1>7, <1>8, <1>9, <1>10,
     <1>11, <1>12, <1>13, <1>14, <1>15, <1>16, <1>17, <1>18, <1>19, <1>20,
     <1>21, <1>22, <1>23, <1>24, <1>25, <1>26, <1>27, <1>28, <1>29, <1>30 DEF
     Next, Lifecycle, Subscription, Administration, Membership, NewCall,
     Progress

(* So does a send to a channel, whatever the message.                      *)
LEMMA SendTyped ==
  ASSUME TInv, NEW t \in Task, NEW c \in ChannelName, NEW to \in Agent \cup {NoAgent},
         NEW corr \in 0..MaxMsgs, SendToChannel(t, c, to, corr)
  PROVE  TInv'
<1> USE ConstantsAssumption DEF TInv, TypeOK
<1>1. CallsType'
  BY DEF SendToChannel, Begin, CallsType, maps, Phase, Call, AllKinds, Message
<1>2. CallOK'
  BY DEF SendToChannel, Begin, CallOK, maps, CallsType, AllKinds, Message, Sending, Delivering,
         Phase
<1> QED
  BY <1>1, <1>2, Unchanged DEF SendToChannel, Begin, maps

(* A new bus is well typed.                                                *)
LEMMA InitTyped == Init => TInv
<1> SUFFICES ASSUME Init PROVE TInv
  OBVIOUS
<1> USE ConstantsAssumption DEF Init
<1>1. SubscribersType
  BY DEF SubscribersType
<1>5. QueuesType
  BY DEF QueuesType
<1>2. ChannelsType /\ LogsType
  BY DEF ChannelsType, LogsType
<1>3. CallsType
  BY DEF CallsType, Phase, Call, NoCall
<1>4. CallOK
  BY DEF CallOK, NoCall, Sending, Delivering
<1> QED
  BY <1>1, <1>2, <1>3, <1>4, <1>5 DEF TInv, TypeOK

(* All variables keep their types; no queue outgrows its slots and no      *)
(* history its limit, whatever the calls do (bus.rs:76, 110).              *)
THEOREM TypeCorrect == Spec => []TypeOK
<1>1. TInv => TypeOK
  BY DEF TInv
<1> QED
  BY <1>1, InitTyped, TypeStep, PTL DEF Spec

-----------------------------------------------------------------------------
(* Whoever waits for a slot waits on a subscription that is in the map.    *)
WaitersSubscribed == \A a \in Agent : waiting[a] # <<>> => a \in subscribers

(* No step takes a subscriber away from under a waiting send.              *)
LEMMA WaitersStep ==
  TypeOK /\ WaitersSubscribed /\ [Next]_vars => WaitersSubscribed'
<1> SUFFICES ASSUME TypeOK, WaitersSubscribed, [Next]_vars,
                    NEW b \in Agent, waiting'[b] # <<>>
             PROVE  b \in subscribers'
  BY DEF WaitersSubscribed
<1>1. waiting \in [Agent -> Seq(Task)] /\ (waiting[b] # <<>> => b \in subscribers)
  BY DEF TypeOK, QueuesType, WaitersSubscribed
<1>2. CASE UNCHANGED <<waiting, subscribers>>
  BY <1>1, <1>2
<1>3. ASSUME NEW s \in Shards, ClearShard(s) PROVE b \in subscribers'
  BY <1>1, <1>3 DEF ClearShard, ShardFree
<1>4. ASSUME NEW a \in Agent, Subscribe(a) \/ Unsubscribe(a) PROVE b \in subscribers'
  BY <1>1, <1>4 DEF Subscribe, Unsubscribe, ShardFree
<1>5. ASSUME NEW t \in Task, NEW a \in Agent, Deliver(t, a) \/ Skip(t, a)
      PROVE  b \in subscribers'
  BY <1>1, <1>5 DEF Deliver, Skip, LeaveLine, maps
<1>6. ASSUME NEW t \in Task, NEW a \in Agent, Wait(t, a) PROVE b \in subscribers'
  BY <1>1, <1>6 DEF Wait, maps
<1> QED
  BY <1>2, <1>3, <1>4, <1>5, <1>6
     DEF Next, Lifecycle, Subscription, Administration, Membership, NewCall, Progress, vars,
         maps, Start, Shutdown, Receive, DropReceiver, CreateCheck, CreateInsert,
         CreateHistory, DeleteChannel, DeleteHistory, JoinChannel, LeaveChannel, Publish,
         SendDm, Request, SendToChannel, Begin, Record, RecordChannel, Announce,
         ServeNotify, Return, Listen, ReadFeed, Timeout

(* What a step does to the queue of an agent that sends wait for.          *)
LEMMA LineStep ==
  ASSUME TypeOK, WaitersSubscribed, [Next]_vars, NEW a \in Agent, waiting[a] # <<>>
  PROVE  /\ queue'[a] # queue[a]
              => Receive(a) \/ DropReceiver(a) \/ Deliver(Head(waiting[a]), a)
         /\ rx'[a] = "open" => rx[a] = "open"
         /\ waiting'[a] = <<>> \/ Head(waiting'[a]) # Head(waiting[a])
              => Deliver(Head(waiting[a]), a) \/ rx[a] = "dropped"
<1> DEFINE Goal == /\ queue'[a] # queue[a]
                        => Receive(a) \/ DropReceiver(a) \/ Deliver(Head(waiting[a]), a)
                   /\ rx'[a] = "open" => rx[a] = "open"
                   /\ waiting'[a] = <<>> \/ Head(waiting'[a]) # Head(waiting[a])
                        => Deliver(Head(waiting[a]), a) \/ rx[a] = "dropped"
<1>1. /\ waiting \in [Agent -> Seq(Task)]
      /\ queue \in [Agent -> Seq(Message)]
      /\ rx \in [Agent -> {"open", "dropped"}]
      /\ a \in subscribers
  BY DEF TypeOK, QueuesType, SubscribersType, WaitersSubscribed
<1>2. CASE UNCHANGED <<waiting, queue, rx>>
  BY <1>1, <1>2
<1>3. ASSUME NEW b \in Agent, Subscribe(b) \/ Receive(b) \/ DropReceiver(b)
      PROVE  Goal
  <2>1. CASE a # b
    BY <1>1, <1>3, <2>1 DEF Subscribe, Receive, DropReceiver, maps
  <2>2. CASE a = b
    <3>1. ~Subscribe(a)
      BY DEF Subscribe, ShardFree
    <3> QED
      BY <1>1, <1>3, <2>2, <3>1 DEF Receive, DropReceiver, maps
  <2> QED
    BY <2>1, <2>2
<1>4. ASSUME NEW t \in Task, NEW b \in Agent, Deliver(t, b)
      PROVE  Goal
  <2>1. CASE a # b
    BY <1>1, <1>4, <2>1 DEF Deliver, LeaveLine, maps
  <2>2. CASE a = b
    <3>1. t = Head(waiting[a])
      BY <1>4, <2>2 DEF Deliver, Turn
    <3>2. Deliver(Head(waiting[a]), a) /\ rx' = rx
      BY <1>4, <2>2, <3>1 DEF Deliver, maps
    <3> QED
      BY <3>2
  <2> QED
    BY <2>1, <2>2
<1>5. ASSUME NEW t \in Task, NEW b \in Agent, Skip(t, b)
      PROVE  Goal
  <2>1. a = b => rx[a] = "dropped"
    BY <1>1, <1>5 DEF Skip
  <2>2. queue' = queue /\ rx' = rx /\ (a # b => waiting'[a] = waiting[a])
    BY <1>1, <1>5 DEF Skip, LeaveLine, maps
  <2> QED
    BY <2>1, <2>2
<1>6. ASSUME NEW t \in Task, NEW b \in Agent, Wait(t, b)
      PROVE  Goal
  <2>1. waiting'[a] = waiting[a] \/ waiting'[a] = Append(waiting[a], t)
    BY <1>1, <1>6 DEF Wait
  <2>2. ASSUME NEW w \in Seq(Task), w # <<>>
        PROVE  Append(w, t) # <<>> /\ Head(Append(w, t)) = Head(w)
    <3>1. Len(w) \in Nat \ {0} /\ Len(Append(w, t)) = Len(w) + 1
      BY <2>2
    <3>2. Append(w, t)[1] = w[1]
      BY <3>1
    <3> QED
      BY <3>1, <3>2
  <2>3. waiting'[a] # <<>> /\ Head(waiting'[a]) = Head(waiting[a])
    BY <1>1, <2>1, <2>2
  <2> QED
    BY <1>6, <2>3 DEF Wait, maps
<1> HIDE DEF Goal
<1>7. Goal
  BY ZenonT(40), <1>2, <1>3, <1>4, <1>5, <1>6
     DEF Goal, Next, Lifecycle, Subscription, Administration, Membership, NewCall, Progress,
         vars, maps, Start, Shutdown, ClearShard, Unsubscribe, CreateCheck, CreateInsert,
         CreateHistory, DeleteChannel, DeleteHistory, JoinChannel, LeaveChannel, Publish,
         SendDm, Request, SendToChannel, Begin, Record, RecordChannel, Announce,
         ServeNotify, Return, Listen, ReadFeed, Timeout
<1> QED
  BY <1>7 DEF Goal

(* A send that waited puts its message into the queue it waited for, which *)
(* nobody replaced or removed, unless the agent gave it up (bus.rs:62, 77, *)
(* 84 against 120, 127, 163, 303, 315).                                    *)
THEOREM WaitersCorrect == Spec => WaitersKeepTheirQueue
<1>1. Init => TInv /\ WaitersSubscribed
  <2>1. Init => WaitersSubscribed
    BY DEF Init, WaitersSubscribed
  <2> QED
    BY <2>1, InitTyped
<1>2. TInv /\ WaitersSubscribed /\ [Next]_vars => TInv' /\ WaitersSubscribed'
  BY TypeStep, WaitersStep DEF TInv
<1>3. TInv /\ WaitersSubscribed /\ [Next]_vars
      => [\A a \in Agent : waiting[a] # <<>> =>
            LET first == Head(waiting[a]) IN
            /\ queue'[a] # queue[a] => Receive(a) \/ DropReceiver(a) \/ Deliver(first, a)
            /\ rx'[a] = "open" => rx[a] = "open"
            /\ waiting'[a] = <<>> \/ Head(waiting'[a]) # first
                 => Deliver(first, a) \/ rx[a] = "dropped"]_vars
  BY LineStep DEF TInv
<1> QED
  BY <1>1, <1>2, <1>3, PTL DEF Spec, WaitersKeepTheirQueue

-----------------------------------------------------------------------------
(* A channel a send holds a guard of is in the map.                        *)
PinsOK == \A t \in Task, c \in ChannelName : Pins(t, c) => c \in channels

(* Every step keeps pinned channels in the map.                            *)
LEMMA PinsStep == TInv /\ PinsOK /\ [Next]_vars => PinsOK'
<1> SUFFICES ASSUME TInv, PinsOK, [Next]_vars,
                    NEW u \in Task, NEW d \in ChannelName, Pins(u, d)'
             PROVE  d \in channels'
  BY DEF PinsOK
<1> USE DEF Pins
<1>1. /\ phase \in [Task -> Phase]
      /\ call \in [Task -> Call]
      /\ Pins(u, d) => d \in channels
      /\ CallOK
  BY DEF TInv, TypeOK, CallsType, PinsOK
<1>2. ASSUME NEW t \in Task, NEW c \in ChannelName, CreateCheck(t, c) \/ DeleteChannel(t, c)
      PROVE  d \in channels'
  BY <1>1, <1>2 DEF CreateCheck, DeleteChannel, ChannelFree, NoCall
<1>3. ASSUME NEW t \in Task, CreateInsert(t) \/ CreateHistory(t) \/ DeleteHistory(t)
      PROVE  d \in channels'
  BY <1>1, <1>3 DEF CreateInsert, CreateHistory, DeleteHistory, GoesTo, Ends, NoCall
<1>4. ASSUME NEW t \in Task, NEW kind, NEW to, NEW c, NEW corr, Begin(t, kind, to, c, corr)
      PROVE  d \in channels'
  BY <1>1, <1>4 DEF Begin
<1>5. ASSUME NEW t \in Task, RecordChannel(t)
      PROVE  d \in channels'
  BY <1>1, <1>5 DEF RecordChannel, GoesTo, Ends, NoCall
<1>6. ASSUME NEW t \in Task, Record(t) \/ Announce(t) \/ ServeNotify(t)
      PROVE  d \in channels'
  BY <1>1, <1>6 DEF Record, Announce, ServeNotify, GoesTo
<1>7. ASSUME NEW t \in Task, Return(t) \/ Listen(t) \/ ReadFeed(t) \/ Timeout(t)
      PROVE  d \in channels'
  BY <1>1, <1>7 DEF Return, Listen, ReadFeed, Timeout, GoesTo, Ends, NoCall
<1>8. CASE UNCHANGED <<channels, phase, call>>
  BY <1>1, <1>8
<1>9. CASE Lifecycle \/ UNCHANGED vars
  BY <1>9, <1>8 DEF Lifecycle, vars, calls, Start, Shutdown, ClearShard
<1>10. CASE \E a \in Agent : Subscription(a)
  BY <1>10, <1>8
     DEF Subscription, calls, Subscribe, Unsubscribe, Receive, DropReceiver
<1>11. CASE \E t \in Admins : Administration(t)
  BY <1>11, <1>2, <1>3, ConstantsAssumption DEF Administration
<1>12. CASE \E a \in Agent, c \in ChannelName : Membership(a, c)
  BY <1>12, <1>8 DEF Membership, calls, JoinChannel, LeaveChannel
<1>13. CASE \E t \in Task : NewCall(t) \/ Progress(t)
  BY <1>13, <1>4, <1>5, <1>6, <1>7, <1>8
     DEF NewCall, Publish, SendDm, Request, SendToChannel, Progress, Deliver, Wait, Skip, calls
<1> QED
  BY <1>9, <1>10, <1>11, <1>12, <1>13 DEF Next

(* No step deletes a pinned channel or puts a fresh one in its place.      *)
LEMMA PinnedChannelStaysStep ==
  ASSUME TInv, PinsOK, [Next]_vars, NEW t \in Task, NEW c \in ChannelName, Pins(t, c)
  PROVE  /\ c \in channels'
         /\ \A u \in Task : ~(/\ phase[u] = "insert"
                              /\ phase'[u] = "insert_history"
                              /\ call[u].chan = c)
<1>1. c \in channels /\ phase \in [Task -> Phase]
  BY DEF PinsOK, TInv, TypeOK, CallsType
<1>2. ASSUME NEW u \in Task, CreateInsert(u)
      PROVE  /\ call[u].chan # c
             /\ c \in channels'
             /\ \A w \in Task : phase'[w] = "insert_history" /\ phase[w] = "insert" => w = u
  BY <1>1, <1>2 DEF CreateInsert, ChannelFree, GoesTo
<1>3. ASSUME NEW u \in Task, NEW d \in ChannelName, CreateCheck(u, d) \/ DeleteChannel(u, d)
      PROVE  /\ c \in channels'
             /\ \A w \in Task : ~(phase'[w] = "insert_history" /\ phase[w] = "insert")
  BY <1>1, <1>3 DEF CreateCheck, DeleteChannel, ChannelFree
<1>4. ASSUME NEW u \in Task,
             \/ CreateHistory(u) \/ DeleteHistory(u)
             \/ Record(u) \/ RecordChannel(u) \/ Announce(u) \/ ServeNotify(u)
             \/ Return(u) \/ Listen(u) \/ ReadFeed(u) \/ Timeout(u)
      PROVE  /\ c \in channels'
             /\ \A w \in Task : ~(phase'[w] = "insert_history" /\ phase[w] = "insert")
  BY <1>1, <1>4
     DEF CreateHistory, DeleteHistory, Record, RecordChannel, Announce, Route, ServeNotify,
         Return, Listen, ReadFeed, Timeout, GoesTo, Ends
<1>5. ASSUME NEW u \in Task, NEW kind, NEW to, NEW d, NEW corr, Begin(u, kind, to, d, corr)
      PROVE  /\ c \in channels'
             /\ \A w \in Task : ~(phase'[w] = "insert_history" /\ phase[w] = "insert")
  BY <1>1, <1>5 DEF Begin
<1>6. CASE UNCHANGED <<channels, phase>>
  BY <1>1, <1>6
<1>7. CASE Lifecycle \/ UNCHANGED vars
  BY <1>7, <1>6 DEF Lifecycle, vars, calls, Start, Shutdown, ClearShard
<1>8. CASE \E a \in Agent : Subscription(a)
  BY <1>8, <1>6
     DEF Subscription, calls, Subscribe, Unsubscribe, Receive, DropReceiver
<1>9. CASE \E u \in Admins : Administration(u)
  BY <1>9, <1>2, <1>3, <1>4, ConstantsAssumption DEF Administration
<1>10. CASE \E a \in Agent, d \in ChannelName : Membership(a, d)
  BY <1>10, <1>6 DEF Membership, calls, JoinChannel, LeaveChannel
<1>11. CASE \E u \in Task : NewCall(u) \/ Progress(u)
  BY <1>11, <1>5, <1>4, <1>6
     DEF NewCall, Publish, SendDm, Request, SendToChannel, Progress, Deliver, Wait, Skip, calls
<1> QED
  BY <1>7, <1>8, <1>9, <1>10, <1>11 DEF Next

(* A channel is neither deleted nor replaced under a send that runs on it  *)
(* (bus.rs:218, 227, 283).                                                 *)
THEOREM PinnedCorrect == Spec => PinnedChannelStays
<1>1. Init => TInv /\ PinsOK
  <2>1. Init => PinsOK
    BY DEF Init, PinsOK, Pins
  <2> QED
    BY <2>1, InitTyped
<1>2. TInv /\ PinsOK /\ [Next]_vars => TInv' /\ PinsOK'
  BY TypeStep, PinsStep
<1>3. TInv /\ PinsOK /\ [Next]_vars
      => [\A t \in Task, c \in ChannelName :
            Pins(t, c) => /\ c \in channels'
                          /\ \A u \in Task : ~(/\ phase[u] = "insert"
                                              /\ phase'[u] = "insert_history"
                                              /\ call[u].chan = c)]_vars
  BY PinnedChannelStaysStep
<1> QED
  BY <1>1, <1>2, <1>3, PTL DEF Spec, PinnedChannelStays

-----------------------------------------------------------------------------
(* A queue that did not grow was handed nothing.                           *)
LEMMA NoGets ==
  ASSUME TInv, NEW t \in Task, InCall(t), NEW a \in Agent,
         Len(queue'[a]) <= Len(queue[a])
  PROVE  ~Gets(t, a)
<1>1. queue[a] \in Seq(Message) /\ call[t].msg \in Message /\ queue \in [Agent -> Seq(Message)]
  BY DEF TInv, TypeOK, QueuesType, CallOK, InCall, Sending, Delivering
<1>2. Len(Append(queue[a], call[t].msg)) = Len(queue[a]) + 1
  BY <1>1
<1>3. Gets(t, a) => queue'[a] = Append(queue[a], call[t].msg)
  BY <1>1 DEF Gets
<1>4. Len(queue[a]) \in Nat
  BY <1>1
<1> QED
  BY <1>2, <1>3, <1>4

(* A delivery hands one message to one agent: that of its own call.        *)
LEMMA GetsOnDeliver ==
  ASSUME TInv, NEW t \in Task, InCall(t), NEW a \in Agent,
         NEW u \in Task, NEW b \in Agent, Deliver(u, b)
  PROVE  Gets(t, a) <=> t = u /\ a = b
<1>1. /\ queue \in [Agent -> Seq(Message)]
      /\ call[t].msg \in Message
      /\ call[t].msg.task = t
      /\ call[u].msg \in Message
      /\ call[u].msg.task = u
      /\ queue' = [queue EXCEPT ![b] = Append(@, call[u].msg)]
  BY DEF TInv, TypeOK, QueuesType, CallOK, InCall, Sending, Delivering, Deliver
<1>2. CASE a # b
  BY <1>1, <1>2, NoGets
<1>3. CASE a = b /\ t = u
  BY <1>1, <1>3 DEF Gets
<1>4. CASE a = b /\ t # u
  <2>1. call[t].msg # call[u].msg
    BY <1>1, <1>4
  <2>2. Append(queue[a], call[t].msg) # Append(queue[a], call[u].msg)
    BY <1>1, <2>1
  <2> QED
    BY <1>1, <1>4, <2>2 DEF Gets
<1> QED
  BY <1>2, <1>3, <1>4

(* The steps of a channel send.                                            *)
OwnStep(t) ==
  \/ RecordChannel(t)
  \/ Announce(t)
  \/ \E a \in Agent : Deliver(t, a) \/ Skip(t, a)
  \/ ServeNotify(t)
  \/ Return(t)

(* What the other steps leave alone.                                       *)
Untouched(t) ==
  /\ phase'[t] = phase[t]
  /\ call'[t] = call[t]
  /\ todo'[t] = todo[t]
  /\ \A a \in Agent : ~Gets(t, a)

(* Nobody but the sending task advances its send or hands out its message. *)
LEMMA StepOfCall ==
  ASSUME TInv, [Next]_vars, NEW t \in Task, InCall(t)
  PROVE  OwnStep(t) \/ Untouched(t)
<1>1. /\ phase \in [Task -> Phase]
      /\ call \in [Task -> Call]
      /\ todo \in [Task -> SUBSET Agent]
      /\ queue \in [Agent -> Seq(Message)]
      /\ \A a \in Agent : Len(queue[a]) \in Nat
  BY DEF TInv, TypeOK, CallsType, QueuesType
<1>2. queue' = queue => \A a \in Agent : ~Gets(t, a)
  BY <1>1, NoGets
<1>3. CASE Lifecycle \/ UNCHANGED vars
  BY <1>2, <1>3 DEF Untouched, Lifecycle, vars, calls, Start, Shutdown, ClearShard
<1>4. CASE \E a \in Agent : Subscription(a)
  <2>1. UNCHANGED calls
    BY <1>4 DEF Subscription, Subscribe, Unsubscribe, Receive, DropReceiver
  <2>2. ASSUME NEW a \in Agent PROVE Len(queue'[a]) <= Len(queue[a])
    BY <1>1, <1>4 DEF Subscription, Subscribe, Unsubscribe, Receive, DropReceiver
  <2> QED
    BY <2>1, <2>2, NoGets DEF Untouched, calls
<1>5. CASE \E u \in Admins : Administration(u)
  BY <1>1, <1>2, <1>5, ConstantsAssumption
     DEF Untouched, InCall, Administration, CreateCheck, CreateInsert, CreateHistory,
         DeleteChannel, DeleteHistory, Ends, GoesTo
<1>6. CASE \E a \in Agent, c \in ChannelName : Membership(a, c)
  BY <1>2, <1>6 DEF Untouched, Membership, calls, JoinChannel, LeaveChannel
<1>7. ASSUME NEW u \in Task, NEW kind, NEW to, NEW c, NEW corr, Begin(u, kind, to, c, corr)
      PROVE  Untouched(t)
  BY <1>1, <1>2, <1>7 DEF Untouched, InCall, Begin
<1>8. ASSUME NEW u \in Task, u # t,
             \/ Record(u) \/ RecordChannel(u) \/ Announce(u) \/ ServeNotify(u) \/ Return(u)
             \/ Listen(u) \/ ReadFeed(u) \/ Timeout(u)
      PROVE  Untouched(t)
  BY <1>1, <1>2, <1>8
     DEF Untouched, Record, RecordChannel, Announce, ServeNotify, Return, Listen, ReadFeed,
         Timeout, Ends, GoesTo
<1>9. ASSUME NEW u \in Task, u # t, NEW b \in Agent, Deliver(u, b)
      PROVE  Untouched(t)
  BY <1>1, <1>9, GetsOnDeliver DEF Untouched, Deliver
<1>10. ASSUME NEW u \in Task, NEW b \in Agent, Wait(u, b)
       PROVE  Untouched(t)
  BY <1>2, <1>10 DEF Untouched, Wait, calls
<1>11. ASSUME NEW u \in Task, u # t, NEW b \in Agent, Skip(u, b)
       PROVE  Untouched(t)
  BY <1>1, <1>2, <1>11 DEF Untouched, Skip
<1>12. ~(Record(t) \/ Listen(t) \/ ReadFeed(t) \/ Timeout(t))
  BY DEF InCall, Record, Listen, ReadFeed, Timeout
<1>13. CASE \E u \in Task : NewCall(u) \/ Progress(u)
  BY <1>7, <1>8, <1>9, <1>10, <1>11, <1>12, <1>13
     DEF OwnStep, NewCall, Publish, SendDm, Request, SendToChannel, Progress
<1> QED
  BY <1>3, <1>4, <1>5, <1>6, <1>13 DEF Next

(* A channel send starts at its beginning.                                 *)
LEMMA NewCallRecords ==
  ASSUME TInv, [Next]_vars, NEW t \in Task, ~InCall(t), InCall(t)'
  PROVE  phase'[t] = "record"
<1>1. /\ phase \in [Task -> Phase]
      /\ call \in [Task -> Call]
      /\ CallOK
  BY DEF TInv, TypeOK, CallsType
<1>3. CASE Lifecycle \/ UNCHANGED vars
  BY <1>3 DEF InCall, Lifecycle, vars, calls, Start, Shutdown, ClearShard
<1>4. CASE \E a \in Agent : Subscription(a)
  BY <1>4 DEF InCall, Subscription, calls, Subscribe, Unsubscribe, Receive, DropReceiver
<1>5. CASE \E u \in Admins : Administration(u)
  BY <1>1, <1>5, ConstantsAssumption
     DEF InCall, Administration, CreateCheck, CreateInsert, CreateHistory,
         DeleteChannel, DeleteHistory, Ends, GoesTo, NoCall
<1>6. CASE \E a \in Agent, c \in ChannelName : Membership(a, c)
  BY <1>6 DEF InCall, Membership, calls, JoinChannel, LeaveChannel
<1>7. ASSUME NEW u \in Task, NEW kind, NEW to, NEW c, NEW corr, Begin(u, kind, to, c, corr)
      PROVE  phase'[t] = "record"
  BY <1>1, <1>7 DEF InCall, Begin
<1>8. ASSUME NEW u \in Task, Progress(u)
      PROVE  phase'[t] = "record"
  <2>1. CASE call'[u] = call[u] /\ call' = [call EXCEPT ![u] = call[u]]
    BY <1>1, <1>8, <2>1
       DEF InCall, Progress, Record, RecordChannel, Announce, Route, Deliver, Wait, Skip,
           ServeNotify, Return, Listen, ReadFeed, Timeout, Ends, GoesTo, NoCall, calls
  <2>2. CASE Ends(u)
    BY <1>1, <2>2 DEF InCall, Ends, NoCall
  <2> QED
    BY <1>1, <1>8, <2>1, <2>2
       DEF InCall, Progress, Record, RecordChannel, Announce, Deliver, Wait, Skip,
           ServeNotify, Return, Listen, ReadFeed, Timeout, GoesTo, calls
<1>13. CASE \E u \in Task : NewCall(u) \/ Progress(u)
  BY <1>7, <1>8, <1>13 DEF NewCall, Publish, SendDm, Request, SendToChannel
<1> QED
  BY <1>3, <1>4, <1>5, <1>6, <1>13 DEF Next

-----------------------------------------------------------------------------
(* An agent is still to be served, was served once, or is passed over.     *)
Awaits(t, a) == a \in todo[t] /\ got[t][a] = 0
Served(t, a) == a \notin todo[t] /\ got[t][a] = 1
Spared(t, a) == a \notin todo[t] /\ got[t][a] = 0

(* How far the send is with an agent, given how it stood to the channel.   *)
GotOK(t, a) ==
  /\ phase[t] \in {"record", "announce"} => got[t][a] = 0
  /\ phase[t] = "full" =>
       /\ a = Sender[t] \/ held[t][a] \in {"Notify", "Deaf"} => Spared(t, a)
       /\ a # Sender[t] /\ held[t][a] = "Full" => Awaits(t, a) \/ Served(t, a)
  /\ phase[t] = "notify" =>
       /\ a = Sender[t] \/ held[t][a] = "Deaf" => Spared(t, a)
       /\ a # Sender[t] /\ held[t][a] = "Full" => Served(t, a)
       /\ a # Sender[t] /\ held[t][a] = "Notify" => Awaits(t, a) \/ Served(t, a)

(* What held remembers is how the agent stands now.                        *)
HeldOK(t, a) == held[t][a] # "Mixed" => held[t][a] = Level(t, a)

(* Both hold of every send under way.                                      *)
DInv == \A t \in Task, a \in Agent : InCall(t) => HeldOK(t, a) /\ GotOK(t, a)

(* What the history variables record in a step within a call.              *)
LEMMA WatchCall ==
  ASSUME Watch, NEW t \in Task, NEW a \in Agent, InCall(t)'
  PROVE  /\ HeldOK(t, a)'
         /\ ~InCall(t) => got'[t][a] = 0
         /\ InCall(t) => /\ held'[t][a] \in {held[t][a], "Mixed"}
                         /\ Gets(t, a) => got'[t][a] = got[t][a] + 1
                         /\ ~Gets(t, a) => got'[t][a] = got[t][a]
<1>1. held'[t][a] = IF ~InCall(t) \/ held[t][a] = Level(t, a)'
                    THEN Level(t, a)' ELSE "Mixed"
  BY DEF Watch
<1>2. got'[t][a] = IF InCall(t)
                   THEN IF Gets(t, a) THEN got[t][a] + 1 ELSE got[t][a]
                   ELSE 0
  BY DEF Watch
<1>3. HeldOK(t, a)' <=> (held'[t][a] # "Mixed" => held'[t][a] = Level(t, a)')
  BY DEF HeldOK
<1> QED
  BY <1>1, <1>2, <1>3

(* Every step keeps the account of who was handed what.                    *)
LEMMA DeliveryStep == TInv /\ DInv /\ [HNext]_hvars => DInv'
<1> SUFFICES ASSUME TInv, DInv, [HNext]_hvars
             PROVE  DInv'
  OBVIOUS
<1>1. CASE UNCHANGED hvars
  BY <1>1 DEF DInv, hvars, vars, InCall, HeldOK, GotOK, Level, Awaits, Served, Spared
<1>2. CASE HNext
  <2> SUFFICES ASSUME NEW t \in Task, NEW a \in Agent, InCall(t)'
               PROVE  HeldOK(t, a)' /\ GotOK(t, a)'
    BY DEF DInv
  <2>1. Watch /\ [Next]_vars
    BY <1>2 DEF HNext
  <2>2. CASE ~InCall(t)
    BY <2>1, <2>2, WatchCall, NewCallRecords DEF GotOK
  <2>3. CASE InCall(t)
    <3>1. /\ HeldOK(t, a)'
          /\ held'[t][a] \in {held[t][a], "Mixed"}
          /\ Gets(t, a) => got'[t][a] = got[t][a] + 1
          /\ ~Gets(t, a) => got'[t][a] = got[t][a]
      BY <2>1, <2>3, WatchCall
    <3>2. HeldOK(t, a) /\ GotOK(t, a)
      BY <2>3 DEF DInv
    <3>3. /\ phase \in [Task -> Phase]
          /\ call \in [Task -> Call]
          /\ todo \in [Task -> SUBSET Agent]
          /\ call[t].kind = "channel"
          /\ queue' = queue => ~Gets(t, a)
      BY <2>3, NoGets DEF TInv, TypeOK, CallsType, QueuesType, InCall
    <3> USE DEF GotOK, Awaits, Served, Spared
    <3>4. CASE Untouched(t)
      BY <3>1, <3>2, <3>4 DEF Untouched
    <3>5. CASE RecordChannel(t)
      <4>1. phase'[t] # "full" /\ phase'[t] # "notify" /\ ~Gets(t, a) /\ phase[t] = "record"
        BY <3>3, <3>5 DEF RecordChannel, GoesTo, Ends
      <4> QED
        BY <4>1, <3>1, <3>2
    <3>6. CASE Announce(t)
      <4>1. /\ phase[t] = "announce" /\ phase'[t] = "full" /\ ~Gets(t, a)
            /\ todo'[t] = MembersWith(call[t].chan, "Full") \ {Sender[t]}
        BY <3>3, <3>6 DEF Announce, GoesTo, Route
      <4>2. held[t][a] = "Full" => a \in MembersWith(call[t].chan, "Full")
        BY <3>2 DEF HeldOK, Level, MembersWith
      <4>3. held[t][a] \in {"Notify", "Deaf"} => a \notin MembersWith(call[t].chan, "Full")
        BY <3>2 DEF HeldOK, Level, MembersWith
      <4> QED
        BY <4>1, <4>2, <4>3, <3>1, <3>2
    <3>7. ASSUME NEW b \in Agent, Deliver(t, b) PROVE GotOK(t, a)'
      <4>1. phase' = phase /\ todo'[t] = todo[t] \ {b} /\ b \in todo[t]
        BY <3>3, <3>7 DEF Deliver
      <4>2. Gets(t, a) <=> a = b
        BY <2>3, <3>7, GetsOnDeliver
      <4>3. CASE a # b
        <5>1. got'[t][a] = got[t][a] /\ (a \in todo'[t] <=> a \in todo[t])
          BY <4>1, <4>2, <4>3, <3>1
        <5> QED
          BY <4>1, <5>1, <3>1, <3>2
      <4>4. CASE a = b
        <5>1. got'[t][a] = got[t][a] + 1 /\ a \notin todo'[t] /\ a \in todo[t]
          BY <4>1, <4>2, <4>4, <3>1
        <5>2. phase[t] \in {"full", "notify"} => ~Spared(t, a) /\ ~Served(t, a)
          BY <5>1
        <5>3. Awaits(t, a) => Served(t, a)'
          BY <5>1
        <5>4. phase[t] \notin {"record", "announce"}
          BY <3>7 DEF Deliver, Delivering
        <5> QED
          BY <4>1, <5>2, <5>3, <5>4, <3>1, <3>2
      <4> QED
        BY <4>3, <4>4
    <3>8. ASSUME NEW b \in Agent, Skip(t, b) PROVE GotOK(t, a)'
      <4>1. phase' = phase /\ todo'[t] = todo[t] \ {b} /\ b \in todo[t] /\ ~Gets(t, a)
        BY <3>3, <3>8 DEF Skip
      <4>2. a = b => held[t][a] \notin {"Full", "Notify"}
        BY <3>2, <3>8 DEF Skip, HeldOK, Level
      <4> QED
        BY <4>1, <4>2, <3>1, <3>2
    <3>9. CASE ServeNotify(t)
      <4>1. /\ phase[t] = "full" /\ phase'[t] = "notify" /\ todo[t] = {} /\ ~Gets(t, a)
            /\ todo'[t] = MembersWith(call[t].chan, "Notify") \ {Sender[t]}
        BY <3>3, <3>9 DEF ServeNotify, GoesTo
      <4>2. held[t][a] = "Notify" => a \in MembersWith(call[t].chan, "Notify")
        BY <3>2 DEF HeldOK, Level, MembersWith
      <4>3. held[t][a] \in {"Full", "Deaf"} => a \notin MembersWith(call[t].chan, "Notify")
        BY <3>2 DEF HeldOK, Level, MembersWith
      <4> QED
        BY <4>1, <4>2, <4>3, <3>1, <3>2
    <3>10. ~Return(t)
      BY <3>3 DEF Return, Ends, InCall, NoCall
    <3> QED
      BY <2>1, <2>3, <3>1, <3>4, <3>5, <3>6, <3>7, <3>8, <3>9, <3>10, StepOfCall DEF OwnStep
  <2> QED
    BY <2>2, <2>3
<1> QED
  BY <1>1, <1>2

(* The account is right in every state of every behaviour.                 *)
LEMMA DeliveryInvariant == HSpec => [](TInv /\ DInv)
<1>1. HInit => TInv /\ DInv
  BY InitTyped DEF HInit, Init, DInv, InCall
<1>2. [HNext]_hvars => [Next]_vars
  BY DEF HNext, hvars
<1>3. TInv /\ DInv /\ [HNext]_hvars => TInv' /\ DInv'
  BY <1>2, TypeStep, DeliveryStep
<1> QED
  BY <1>1, <1>3, PTL DEF HSpec

(* A send_to_channel that returns has handed its message exactly once to   *)
(* every agent that stayed a Full or Notify member with a live subscription *)
(* throughout (bus.rs:301-323).                                            *)
THEOREM SteadyMembersCorrect == HSpec => []SteadyMembersServedOnce
<1>1. TInv /\ DInv => SteadyMembersServedOnce
  <2> SUFFICES ASSUME TInv, DInv, NEW t \in Task, phase[t] = "notify", todo[t] = {},
                      NEW a \in Agent \ {Sender[t]}, held[t][a] \in {"Full", "Notify"}
               PROVE  got[t][a] = 1
    BY DEF SteadyMembersServedOnce
  <2>1. InCall(t)
    BY DEF TInv, CallOK, InCall
  <2> QED
    BY <2>1 DEF DInv, GotOK, Awaits, Served
<1> QED
  BY <1>1, DeliveryInvariant, PTL

(* A send_to_channel never hands its message to its sender, nor to an agent *)
(* that stayed muted or outside the channel (bus.rs:302, 314, 325).        *)
THEOREM StrangersCorrect == HSpec => []StrangersHearNothing
<1>1. DInv => StrangersHearNothing
  BY DEF DInv, StrangersHearNothing, InCall, GotOK, Spared
<1> QED
  BY <1>1, DeliveryInvariant, PTL

-----------------------------------------------------------------------------
(* A call of create_channel has inserted the channel, not its history yet. *)
Midway(c) == \E t \in Task : phase[t] = "insert_history" /\ call[t].chan = c

(* How the two maps stand to each other unless a deletion of the channel   *)
(* overlaps a creation.                                                    *)
HistoryOK(c) ==
  /\ ~(Creates(c) /\ Deletes(c))
  /\ Deletes(c) => c \notin channels
  /\ Midway(c) => c \in channels
  /\ ~Deletes(c) /\ ~Midway(c) => (c \in hasHistory <=> c \in channels)

(* So they stand for every channel that never raced.                       *)
HistOK == \A c \in ChannelName \ raced : HistoryOK(c)

(* The tasks that create or delete channels.                               *)
Administering == {"insert", "insert_history", "delete_history"}

(* A step that neither creates nor deletes leaves all of them alone.       *)
AdministrationRests ==
  /\ UNCHANGED <<channels, hasHistory>>
  /\ \A t \in Task : phase[t] \in Administering \/ phase'[t] \in Administering
       => phase'[t] = phase[t] /\ call'[t] = call[t]

LEMMA OthersRest ==
  ASSUME TInv, [Next]_vars, ~\E t \in Admins : Administration(t)
  PROVE  AdministrationRests
<1> USE DEF AdministrationRests, Administering
<1>1. /\ phase \in [Task -> Phase]
      /\ call \in [Task -> Call]
  BY DEF TInv, TypeOK, CallsType
<1>2. CASE UNCHANGED <<channels, hasHistory, phase, call>>
  BY <1>1, <1>2
<1>3. ASSUME NEW t \in Task, NEW kind, NEW to, NEW c, NEW corr, Begin(t, kind, to, c, corr)
      PROVE  AdministrationRests
  BY <1>1, <1>3 DEF Begin
<1>4. ASSUME NEW t \in Task,
             \/ Record(t) \/ RecordChannel(t) \/ ServeNotify(t)
             \/ Return(t) \/ Listen(t) \/ ReadFeed(t) \/ Timeout(t)
      PROVE  AdministrationRests
  BY <1>1, <1>4
     DEF Record, RecordChannel, ServeNotify, Return, Listen, ReadFeed, Timeout, GoesTo, Ends
<1>5. ASSUME NEW t \in Task, Announce(t) PROVE AdministrationRests
  <2>1. phase[t] = "announce" /\ Route(t)[1] \notin Administering
    BY <1>5 DEF Announce, Route
  <2> QED
    BY <1>1, <1>5, <2>1 DEF Announce, GoesTo
<1>6. CASE Lifecycle \/ UNCHANGED vars
  BY <1>6, <1>2 DEF Lifecycle, vars, calls, Start, Shutdown, ClearShard
<1>7. CASE \E a \in Agent : Subscription(a)
  BY <1>7, <1>2 DEF Subscription, calls, Subscribe, Unsubscribe, Receive, DropReceiver
<1>8. CASE \E a \in Agent, c \in ChannelName : Membership(a, c)
  BY <1>8, <1>2 DEF Membership, calls, JoinChannel, LeaveChannel
<1>9. CASE \E t \in Task : NewCall(t) \/ Progress(t)
  BY <1>9, <1>2, <1>3, <1>4, <1>5
     DEF NewCall, Publish, SendDm, Request, SendToChannel, Progress, Deliver, Wait, Skip, calls
<1> QED
  BY <1>6, <1>7, <1>8, <1>9 DEF Next

(* Every step keeps the account of a channel that has not raced.           *)
LEMMA HistStep ==
  ASSUME TInv, [Next]_vars, NEW c \in ChannelName, HistoryOK(c),
         ~(Creates(c)' /\ Deletes(c)')
  PROVE  HistoryOK(c)'
<1> USE DEF HistoryOK, Creates, Deletes, Midway
<1>1. /\ phase \in [Task -> Phase]
      /\ call \in [Task -> Call]
  BY DEF TInv, TypeOK, CallsType
<1>2. CASE AdministrationRests
  <2>1. /\ Creates(c)' <=> Creates(c)
        /\ Deletes(c)' <=> Deletes(c)
        /\ Midway(c)' <=> Midway(c)
    BY <1>2 DEF AdministrationRests, Administering
  <2> QED
    BY <1>2, <2>1 DEF AdministrationRests
<1>3. ASSUME NEW u \in Task, NEW d \in ChannelName, CreateCheck(u, d) PROVE HistoryOK(c)'
  <2>1. /\ phase[u] = "idle" /\ UNCHANGED <<channels, hasHistory>>
        /\ phase' = [phase EXCEPT ![u] = "insert"]
        /\ call'[u].chan = d
        /\ \A t \in Task \ {u} : phase'[t] = phase[t] /\ call'[t] = call[t]
    BY <1>1, <1>3 DEF CreateCheck, NoCall
  <2>2. (Deletes(c)' <=> Deletes(c)) /\ (Midway(c)' <=> Midway(c))
    BY <1>1, <2>1
  <2> QED
    BY <2>1, <2>2
<1>4. ASSUME NEW u \in Task, NEW d \in ChannelName, DeleteChannel(u, d) PROVE HistoryOK(c)'
  <2>1. /\ phase[u] = "idle" /\ d \in channels
        /\ channels' = channels \ {d} /\ hasHistory' = hasHistory
        /\ phase' = [phase EXCEPT ![u] = "delete_history"]
        /\ call'[u].chan = d
        /\ \A t \in Task \ {u} : phase'[t] = phase[t] /\ call'[t] = call[t]
    BY <1>1, <1>4 DEF DeleteChannel, NoCall
  <2>2. Midway(c)' <=> Midway(c)
    BY <1>1, <2>1
  <2>3. Deletes(c)' <=> Deletes(c) \/ c = d
    BY <1>1, <2>1
  <2>4. Midway(c)' => Creates(c)'
    OBVIOUS
  <2> QED
    BY <2>1, <2>2, <2>3, <2>4
<1>5. ASSUME NEW u \in Task, CreateInsert(u) PROVE HistoryOK(c)'
  <2>1. /\ phase[u] = "insert" /\ hasHistory' = hasHistory
        /\ channels' = channels \cup {call[u].chan}
        /\ phase' = [phase EXCEPT ![u] = "insert_history"]
        /\ call' = call
    BY <1>5 DEF CreateInsert, GoesTo
  <2>2. Deletes(c)' <=> Deletes(c)
    BY <1>1, <2>1
  <2>3. Midway(c)' <=> Midway(c) \/ call[u].chan = c
    BY <1>1, <2>1
  <2>4. Creates(c) <=> Creates(c)'
    BY <1>1, <2>1
  <2>5. call[u].chan = c => Creates(c)
    BY <2>1
  <2> QED
    BY <2>1, <2>2, <2>3, <2>4, <2>5
<1>6. ASSUME NEW u \in Task, CreateHistory(u) PROVE HistoryOK(c)'
  <2>1. /\ phase[u] = "insert_history" /\ channels' = channels
        /\ hasHistory' = hasHistory \cup {call[u].chan}
        /\ phase' = [phase EXCEPT ![u] = "idle"]
        /\ \A t \in Task \ {u} : phase'[t] = phase[t] /\ call'[t] = call[t]
    BY <1>1, <1>6 DEF CreateHistory, Ends
  <2>2. Deletes(c)' <=> Deletes(c)
    BY <1>1, <2>1
  <2>3. /\ Midway(c)' => Midway(c)
        /\ call[u].chan # c => (Midway(c)' <=> Midway(c))
        /\ call[u].chan = c => Midway(c)
    BY <1>1, <2>1
  <2> QED
    BY <2>1, <2>2, <2>3
<1>7. ASSUME NEW u \in Task, DeleteHistory(u) PROVE HistoryOK(c)'
  <2>1. /\ phase[u] = "delete_history" /\ channels' = channels
        /\ hasHistory' = hasHistory \ {call[u].chan}
        /\ phase' = [phase EXCEPT ![u] = "idle"]
        /\ \A t \in Task \ {u} : phase'[t] = phase[t] /\ call'[t] = call[t]
    BY <1>1, <1>7 DEF DeleteHistory, Ends
  <2>2. Midway(c)' <=> Midway(c)
    BY <1>1, <2>1
  <2>3. /\ Deletes(c)' => Deletes(c)
        /\ call[u].chan # c => (Deletes(c)' <=> Deletes(c))
        /\ call[u].chan = c => Deletes(c)
    BY <1>1, <2>1
  <2>4. Midway(c) => Creates(c)
    OBVIOUS
  <2> QED
    BY <2>1, <2>2, <2>3, <2>4
<1>8. CASE \E t \in Admins : Administration(t)
  BY <1>8, <1>3, <1>4, <1>5, <1>6, <1>7, ConstantsAssumption DEF Administration
<1> QED
  BY <1>2, <1>8, OthersRest

(* Except for channels that were created and deleted at the same time,     *)
(* exactly the channels have a history, whoever creates and deletes them   *)
(* (bus.rs:212-220, 227-230).                                              *)
THEOREM HistoryCorrect == HSpec => []HistoryMatchesChannels
<1>1. HInit => TInv /\ HistOK
  BY InitTyped DEF HInit, Init, HistOK, HistoryOK, Creates, Deletes, Midway
<1>2. TInv /\ HistOK /\ [HNext]_hvars => TInv' /\ HistOK'
  <2> SUFFICES ASSUME TInv, HistOK, [HNext]_hvars PROVE TInv' /\ HistOK'
    OBVIOUS
  <2>1. [Next]_vars
    BY DEF HNext, hvars
  <2>2. CASE UNCHANGED hvars
    <3>1. \A c \in ChannelName : HistoryOK(c)' <=> HistoryOK(c)
      BY <2>2 DEF hvars, vars, HistoryOK, Creates, Deletes, Midway
    <3> QED
      BY <2>1, <2>2, <3>1, TypeStep DEF hvars, HistOK
  <2>3. CASE Watch
    <3>1. ASSUME NEW c \in ChannelName \ raced' PROVE HistoryOK(c)'
      <4>1. c \in ChannelName \ raced /\ ~(Creates(c)' /\ Deletes(c)')
        BY <2>3, <3>1 DEF Watch
      <4>2. HistoryOK(c)
        BY <4>1 DEF HistOK
      <4> QED
        BY <2>1, <4>1, <4>2, HistStep
    <3> QED
      BY <2>1, <3>1, TypeStep DEF HistOK
  <2> QED
    BY <2>2, <2>3 DEF HNext
<1>3. HistOK => HistoryMatchesChannels
  BY DEF HistOK, HistoryOK, HistoryMatchesChannels, Creates, Midway
<1> QED
  BY <1>1, <1>2, <1>3, PTL DEF HSpec

-----------------------------------------------------------------------------
(* Monitors have heard of the message.                                     *)
Announced(m) == \E j \in 1..Len(feed) : feed[j] = m

(* A call hands out a message only after it announced it.                  *)
AnnouncedBefore == \A t \in Task : phase[t] \in Delivering => Announced(call[t].msg)

(* Only Announce writes the feed, and it keeps what is there.              *)
LEMMA FeedGrows ==
  ASSUME TInv, [Next]_vars
  PROVE  /\ feed' = feed \/ \E t \in Task : Announce(t)
         /\ \A m \in Message : Announced(m) => Announced(m)'
<1>1. feed' = feed \/ \E t \in Task : Announce(t)
  BY SMTT(30) DEF Next, Lifecycle, Subscription, Administration, Membership, NewCall, Progress, vars,
         Start, Shutdown, ClearShard, Subscribe, Unsubscribe, Receive, DropReceiver,
         CreateCheck, CreateInsert, CreateHistory, DeleteChannel, DeleteHistory,
         JoinChannel, LeaveChannel, Publish, SendDm, Request, SendToChannel, Begin, Record,
         RecordChannel, Deliver, Wait, Skip, ServeNotify, Return, Listen, ReadFeed, Timeout
<1>2. CASE feed' = feed
  BY <1>1, <1>2 DEF Announced
<1>3. ASSUME NEW t \in Task, Announce(t), NEW m \in Message, Announced(m)
      PROVE  Announced(m)'
  <2>1. /\ feed \in Seq(Message)
        /\ call[t].msg \in Message
        /\ feed' = Append(feed, call[t].msg)
    BY <1>3 DEF TInv, TypeOK, LogsType, CallOK, Announce, Sending
  <2>2. PICK j \in 1..Len(feed) : feed[j] = m
    BY <1>3 DEF Announced
  <2>3. j \in 1..Len(feed') /\ feed'[j] = m
    BY <2>1, <2>2
  <2> QED
    BY <2>3 DEF Announced
<1> QED
  BY <1>1, <1>2, <1>3

(* Every step keeps AnnouncedBefore.                                       *)
LEMMA AnnouncedStep ==
  ASSUME TInv, AnnouncedBefore, [Next]_vars
  PROVE  AnnouncedBefore'
<1> SUFFICES ASSUME NEW u \in Task, phase'[u] \in Delivering
             PROVE  Announced(call[u].msg)'
  BY DEF AnnouncedBefore
<1>1. /\ phase \in [Task -> Phase]
      /\ call \in [Task -> Call]
  BY DEF TInv, TypeOK, CallsType
<1>2. CASE phase[u] \in Delivering /\ call'[u] = call[u]
  <2>1. call[u].msg \in Message /\ Announced(call[u].msg)
    BY <1>2 DEF TInv, CallOK, Sending, AnnouncedBefore
  <2>2. Announced(call[u].msg)' <=> \E j \in 1..Len(feed') : feed'[j] = call'[u].msg
    BY DEF Announced
  <2>3. \E j \in 1..Len(feed') : feed'[j] = call[u].msg
    BY <2>1, FeedGrows DEF Announced
  <2> QED
    BY <1>2, <2>2, <2>3
<1>3. CASE Announce(u)
  <2>1. /\ feed \in Seq(Message)
        /\ call[u].msg \in Message
        /\ feed' = Append(feed, call[u].msg)
        /\ call'[u] = call[u]
    BY <1>3 DEF TInv, TypeOK, LogsType, CallOK, Announce, GoesTo, Sending
  <2>2. Len(feed') \in 1..Len(feed') /\ feed'[Len(feed')] = call'[u].msg
    BY <2>1
  <2> QED
    BY <2>2 DEF Announced
<1> USE DEF Delivering
<1>4. ASSUME NEW t \in Task, t # u, Announce(t)
      PROVE  phase[u] \in Delivering /\ call'[u] = call[u]
  BY <1>1, <1>4 DEF Announce, GoesTo
<1>5. ASSUME NEW t \in Task, NEW kind, NEW to, NEW c, NEW corr, Begin(t, kind, to, c, corr)
      PROVE  phase[u] \in Delivering /\ call'[u] = call[u]
  BY <1>1, <1>5 DEF Begin
<1>6. ASSUME NEW t \in Task,
             \/ Record(t) \/ RecordChannel(t) \/ ServeNotify(t)
             \/ Return(t) \/ Listen(t) \/ ReadFeed(t) \/ Timeout(t)
             \/ CreateInsert(t) \/ CreateHistory(t) \/ DeleteHistory(t)
      PROVE  phase[u] \in Delivering /\ call'[u] = call[u]
  BY <1>1, <1>6
     DEF Record, RecordChannel, ServeNotify, Return, Listen, ReadFeed, Timeout, CreateInsert,
         CreateHistory, DeleteHistory, GoesTo, Ends
<1>7. ASSUME NEW t \in Task, NEW c \in ChannelName, CreateCheck(t, c) \/ DeleteChannel(t, c)
      PROVE  phase[u] \in Delivering /\ call'[u] = call[u]
  BY <1>1, <1>7 DEF CreateCheck, DeleteChannel
<1>8. CASE UNCHANGED <<phase, call>>
  BY <1>8, <1>2
<1>9. CASE Lifecycle \/ UNCHANGED vars
  BY <1>9, <1>8 DEF Lifecycle, vars, calls, Start, Shutdown, ClearShard
<1>10. CASE \E a \in Agent : Subscription(a)
  BY <1>10, <1>8
     DEF Subscription, calls, Subscribe, Unsubscribe, Receive, DropReceiver
<1>11. CASE \E t \in Admins : Administration(t)
  BY <1>11, <1>2, <1>6, <1>7, ConstantsAssumption DEF Administration
<1>12. CASE \E a \in Agent, c \in ChannelName : Membership(a, c)
  BY <1>12, <1>8 DEF Membership, calls, JoinChannel, LeaveChannel
<1>13. CASE \E t \in Task : NewCall(t) \/ Progress(t)
  BY <1>13, <1>2, <1>3, <1>4, <1>5, <1>6, <1>8
     DEF NewCall, Publish, SendDm, Request, SendToChannel, Progress, Deliver, Wait, Skip, calls
<1> QED
  BY <1>9, <1>10, <1>11, <1>12, <1>13 DEF Next

(* Every message that enters a queue is on the feed.                       *)
LEMMA QueuedStep ==
  ASSUME TInv, AnnouncedBefore, QueuedWasAnnounced, [Next]_vars
  PROVE  QueuedWasAnnounced'
<1> SUFFICES ASSUME NEW a \in Agent, NEW i \in 1..Len(queue'[a])
             PROVE  \E j \in 1..Len(feed') : feed'[j] = queue'[a][i]
  BY DEF QueuedWasAnnounced
<1>1. /\ queue \in [Agent -> Seq(Message)]
      /\ \A k \in 1..Len(queue[a]) : queue[a][k] \in Message /\ Announced(queue[a][k])
  <2>1. queue \in [Agent -> Seq(Message)]
    BY DEF TInv, TypeOK, QueuesType
  <2>2. \A k \in 1..Len(queue[a]) : queue[a][k] \in Message
    BY <2>1
  <2>3. \A k \in 1..Len(queue[a]) : Announced(queue[a][k])
    BY DEF QueuedWasAnnounced, Announced
  <2> QED
    BY <2>1, <2>2, <2>3
<1>2. \A k \in 1..Len(queue[a]) : \E j \in 1..Len(feed') : feed'[j] = queue[a][k]
  BY <1>1, FeedGrows DEF Announced
<1>3. CASE queue' = queue
  BY <1>2, <1>3
<1>4. ASSUME NEW b \in Agent, Subscribe(b) \/ Receive(b) \/ DropReceiver(b)
      PROVE  \E k \in 1..Len(queue[a]) : queue'[a][i] = queue[a][k]
  <2>1. CASE queue'[a] = queue[a]
    BY <2>1
  <2>2. CASE queue'[a] = <<>>
    BY <2>2
  <2>3. CASE queue[a] # <<>> /\ queue'[a] = Tail(queue[a])
    <3>1. i + 1 \in 1..Len(queue[a]) /\ queue'[a][i] = queue[a][i + 1]
      BY <1>1, <2>3
    <3> QED
      BY <3>1
  <2> QED
    BY <1>1, <1>4, <2>1, <2>2, <2>3 DEF Subscribe, Receive, DropReceiver
<1>5. ASSUME NEW t \in Task, NEW b \in Agent, Deliver(t, b)
      PROVE  \E j \in 1..Len(feed') : feed'[j] = queue'[a][i]
  <2>1. /\ call[t].msg \in Message
        /\ Announced(call[t].msg)
        /\ feed' = feed
        /\ queue' = [queue EXCEPT ![b] = Append(@, call[t].msg)]
    BY <1>5 DEF Deliver, AnnouncedBefore, TInv, CallOK, Sending
  <2>2. \/ i \in 1..Len(queue[a]) /\ queue'[a][i] = queue[a][i]
        \/ queue'[a][i] = call[t].msg
    BY <1>1, <2>1
  <2> QED
    BY <1>2, <2>1, <2>2 DEF Announced
<1>6. \/ queue' = queue
      \/ \E b \in Agent : Subscription(b)
      \/ \E t \in Task, b \in Agent : Deliver(t, b)
  BY DEF Next, Lifecycle, Administration, Membership, NewCall, Progress, vars, maps,
         Start, Shutdown, ClearShard, CreateCheck, CreateInsert, CreateHistory,
         DeleteChannel, DeleteHistory, JoinChannel, LeaveChannel, Publish, SendDm, Request,
         SendToChannel, Begin, Record, RecordChannel, Announce, Wait, Skip, ServeNotify,
         Return, Listen, ReadFeed, Timeout
<1>7. CASE \E b \in Agent : Subscription(b)
  BY <1>2, <1>3, <1>4, <1>7 DEF Subscription, Unsubscribe
<1> QED
  BY <1>3, <1>5, <1>6, <1>7

(* Monitors hear of every message before an agent can receive it           *)
(* (bus.rs:116, 160, 298).                                                 *)
THEOREM AnnouncedCorrect == Spec => []QueuedWasAnnounced
<1>1. Init => TInv /\ AnnouncedBefore /\ QueuedWasAnnounced
  <2>1. ASSUME Init PROVE AnnouncedBefore /\ QueuedWasAnnounced
    BY <2>1 DEF Init, AnnouncedBefore, QueuedWasAnnounced, Delivering
  <2> QED
    BY <2>1, InitTyped
<1>2. TInv /\ AnnouncedBefore /\ QueuedWasAnnounced /\ [Next]_vars
        => TInv' /\ AnnouncedBefore' /\ QueuedWasAnnounced'
  BY TypeStep, AnnouncedStep, QueuedStep
<1> QED
  BY <1>1, <1>2, PTL DEF Spec

===========================================================================
