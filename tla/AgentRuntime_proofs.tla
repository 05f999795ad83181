------------------------- MODULE AgentRuntime_proofs -------------------------
(***************************************************************************)
(* Theorems about the agents on the bus, for any agents, tasks, channels,  *)
(* prompts and answers.  They rest on the typing of the bus and on an      *)
(* invariant that follows a message by its number:                         *)
(*                                                                         *)
(*   Numbered    messages have the numbers of sends, and no two the same   *)
(*   Answers     what answers a number comes from the number's addressee   *)
(*   Working     a handler works on an announced prompt that is its own    *)
(*   Once        a prompt is still to come, queued, worked on or done with *)
(*   Heard       a chunk that was sent is on the feed or under way to it   *)
(***************************************************************************)
EXTENDS AgentRuntime, MessageBus_proofs, FiniteSetTheorems

(* The bus as the runtime finds it: any subscribers, channels and members, *)
(* and no call so far.                                                     *)
BusUp ==
  /\ TypeOK
  /\ phase = [t \in Task |-> "idle"]
  /\ call = [t \in Task |-> NoCall]
  /\ queue = [a \in Agent |-> <<>>]
  /\ feed = <<>>
  /\ sent = 0

RSpec == RInit(BusUp) /\ [][RNext]_rvars

(* Steps of the bus that begin no call.                                    *)
Passive ==
  \/ \E t \in Task : Progress(t)
  \/ \E a \in Agent : Receive(a)
  \/ \E s \in Shards : ClearShard(s)
  \/ Shutdown
  \/ UNCHANGED vars

(* The message is on the feed or in a call.                                *)
Carried(m) == Announced(m) \/ \E t \in Task : phase[t] \in Sending /\ call[t].msg = m

Numbered ==
  /\ \A m \in Message : Carried(m) => m.id \in 1..sent /\ m.corr \in 0..sent
  /\ \A m, n \in Message : Carried(m) /\ Carried(n) /\ m.id = n.id => m = n
  /\ \A i \in Prompts : i \in 1..sent

Answers ==
  /\ \A m, n \in Message :
       Carried(m) /\ Carried(n) /\ m.corr = n.id => n.to \in Loaded /\ m.task = Handler[n.to]
  /\ \A m \in Message : Carried(m) /\ m.to \in Loaded => m.id \in Prompts

Working ==
  \A a \in Loaded : prompt[a] # NoMessage => Announced(prompt[a]) /\ prompt[a].to = a

-----------------------------------------------------------------------------
(* The end of a handler keeps the types of the bus.                        *)
LEMMA StopTyped ==
  ASSUME TInv, NEW a \in Loaded, HandlerStops(a)
  PROVE  TInv'
<1> USE DEF TInv, TypeOK
<1>1. SubscribersType'
  BY RuntimeAssumption DEF HandlerStops, SubscribersType
<1> QED
  BY <1>1, Unchanged DEF HandlerStops, calls

(* Passive steps are steps of the bus.                                     *)
LEMMA PassiveIsNext == Passive => [Next]_vars
BY DEF Passive, Next, Lifecycle, Subscription

(* A passive step may announce what a call carries, and adds nothing.      *)
LEMMA PassiveCarries ==
  ASSUME TInv, Passive
  PROVE  /\ sent' = sent
         /\ \A m \in Message : Announced(m) => Announced(m)'
         /\ \A m \in Message : Carried(m)' => Carried(m)
<1>1. /\ phase \in [Task -> Phase]
      /\ call \in [Task -> Call]
      /\ feed \in Seq(Message)
  BY DEF TInv, TypeOK, CallsType, LogsType
<1>2. sent' = sent
  BY DEF Passive, Progress, vars, calls, Receive, ClearShard, Shutdown, Record, RecordChannel,
         Announce, Deliver, Wait, Skip, ServeNotify, Return, Listen, ReadFeed, Timeout
<1>3. \A m \in Message : Announced(m) => Announced(m)'
  BY FeedGrows, PassiveIsNext
<1>4. ASSUME NEW t \in Task, phase'[t] \in Sending
      PROVE  phase[t] \in Sending /\ call'[t].msg = call[t].msg
  <2> USE DEF Sending, Delivering
  <2>1. ASSUME NEW u \in Task, Record(u) \/ RecordChannel(u) \/ ServeNotify(u) \/ Return(u)
                               \/ Listen(u) \/ ReadFeed(u) \/ Timeout(u) \/ Announce(u)
        PROVE  phase[t] \in Sending /\ call'[t].msg = call[t].msg
    BY <1>1, <1>4, <2>1
       DEF Record, RecordChannel, ServeNotify, Return, Listen, ReadFeed, Timeout, Announce,
           GoesTo, Ends
  <2>2. CASE UNCHANGED <<phase, call>>
    BY <1>4, <2>2
  <2> QED
    BY <2>1, <2>2 DEF Passive, Progress, vars, calls, Receive, ClearShard, Shutdown, Deliver,
                      Wait, Skip
<1>5. ASSUME NEW m \in Message, Announced(m)'
      PROVE  Carried(m)
  <2>1. CASE feed' = feed
    BY <1>5, <2>1 DEF Announced, Carried
  <2>2. ASSUME NEW t \in Task, Announce(t)
        PROVE  Carried(m)
    <3>1. /\ phase[t] \in Sending
          /\ call[t].msg \in Message
          /\ feed' = Append(feed, call[t].msg)
      BY <2>2 DEF Announce, Sending, TInv, CallOK
    <3>2. PICK j \in 1..Len(feed') : feed'[j] = m
      BY <1>5 DEF Announced
    <3>3. CASE j \in 1..Len(feed)
      BY <1>1, <3>1, <3>2, <3>3 DEF Carried, Announced
    <3>4. CASE j \notin 1..Len(feed)
      <4>1. m = call[t].msg
        BY <1>1, <3>1, <3>2, <3>4
      <4> QED
        BY <3>1, <4>1 DEF Carried
    <3> QED
      BY <3>3, <3>4
  <2> QED
    BY <2>1, <2>2, FeedGrows, PassiveIsNext
<1> QED
  BY <1>2, <1>3, <1>4, <1>5 DEF Carried

(* A send adds one message, of the next number.                            *)
LEMMA SendCarries ==
  ASSUME TInv, NEW t \in Task, NEW c \in ChannelName, NEW to \in Agent \cup {NoAgent},
         NEW corr \in 0..MaxMsgs, SendToChannel(t, c, to, corr)
  PROVE  /\ sent' = sent + 1
         /\ \A m \in Message : Announced(m)' <=> Announced(m)
         /\ \A m \in Message :
              Carried(m)' => Carried(m) \/ m = [id |-> sent + 1, task |-> t, to |-> to, corr |-> corr]
<1>1. /\ phase \in [Task -> Phase]
      /\ call \in [Task -> Call]
  BY DEF TInv, TypeOK, CallsType
<1>2. sent' = sent + 1 /\ feed' = feed
  BY DEF SendToChannel, Begin
<1>3. \A m \in Message : Announced(m)' <=> Announced(m)
  BY <1>2 DEF Announced
<1>4. call' = [call EXCEPT ![t] = [kind |-> "channel", chan |-> c,
                 msg |-> [id |-> sent + 1, task |-> t, to |-> to, corr |-> corr]]]
      /\ phase' = [phase EXCEPT ![t] = "record"]
  BY DEF SendToChannel, Begin
<1>5. \A u \in Task : u # t => phase'[u] = phase[u] /\ call'[u] = call[u]
  BY <1>1, <1>4
<1>6. call'[t].msg = [id |-> sent + 1, task |-> t, to |-> to, corr |-> corr]
  BY <1>1, <1>4
<1> QED
  BY <1>2, <1>3, <1>5, <1>6 DEF Carried
-----------------------------------------------------------------------------
BusInv == TInv /\ AnnouncedBefore /\ QueuedWasAnnounced
LogInv == Numbered /\ Answers

(* What is announced and queued stays in order through every step.         *)
LEMMA BusPassive ==
  ASSUME BusInv, Passive
  PROVE  BusInv'
BY PassiveIsNext, TypeStep, AnnouncedStep, QueuedStep DEF BusInv

LEMMA BusSend ==
  ASSUME BusInv, NEW t \in Task, NEW c \in ChannelName, NEW to \in Agent \cup {NoAgent},
         NEW corr \in 0..MaxMsgs, SendToChannel(t, c, to, corr)
  PROVE  BusInv'
<1>1. phase \in [Task -> Phase] /\ call \in [Task -> Call]
  BY DEF BusInv, TInv, TypeOK, CallsType
<1>2. TInv'
  BY SendTyped DEF BusInv
<1>3. feed' = feed /\ queue' = queue
  BY DEF SendToChannel, Begin
<1>4. QueuedWasAnnounced'
  BY <1>3 DEF BusInv, QueuedWasAnnounced
<1>5. \A u \in Task : phase'[u] \in Delivering => phase[u] \in Delivering /\ call'[u] = call[u]
  BY <1>1 DEF SendToChannel, Begin, Delivering
<1>6. AnnouncedBefore'
  BY <1>3, <1>5 DEF BusInv, AnnouncedBefore, Announced
<1> QED
  BY <1>2, <1>4, <1>6 DEF BusInv

LEMMA BusStop ==
  ASSUME BusInv, NEW a \in Loaded, HandlerStops(a)
  PROVE  BusInv'
<1>1. TInv'
  BY StopTyped DEF BusInv
<1> QED
  BY <1>1 DEF BusInv, HandlerStops, calls, AnnouncedBefore, QueuedWasAnnounced, Announced

(* The messages keep their numbers and answers come from the addressee ... *)
LEMMA LogPassive ==
  ASSUME BusInv, LogInv, Passive, asked' = asked
  PROVE  LogInv'
<1>1. TInv /\ Prompts' = Prompts
  BY DEF BusInv, Prompts
<1> QED
  BY <1>1, PassiveCarries DEF LogInv, Numbered, Answers

LEMMA LogStop ==
  ASSUME LogInv, NEW a \in Loaded, HandlerStops(a)
  PROVE  LogInv'
BY DEF HandlerStops, calls, LogInv, Numbered, Answers, Carried, Announced, Prompts

(* ... if a new message answers none, or one that is for its own agent.    *)
LEMMA LogSend ==
  ASSUME BusInv, LogInv, NEW t \in Task, NEW c \in ChannelName, NEW to \in Agent \cup {NoAgent},
         NEW corr \in 0..MaxMsgs, SendToChannel(t, c, to, corr),
         \/ corr = 0
         \/ \E a \in Loaded, n \in Message :
              t = Handler[a] /\ Carried(n) /\ n.id = corr /\ n.to = a,
         Prompts \subseteq Prompts', Prompts' \subseteq Prompts \cup {sent + 1},
         to \in Loaded => sent + 1 \in Prompts'
  PROVE  LogInv'
<1> DEFINE m0 == [id |-> sent + 1, task |-> t, to |-> to, corr |-> corr]
<1>1. sent \in Nat /\ sent' = sent + 1 /\ sent < MaxMsgs /\ MaxMsgs \in Nat
  BY ConstantsAssumption DEF BusInv, TInv, TypeOK, CallsType, SendToChannel, Begin
<1>2. \A m \in Message : Carried(m)' => Carried(m) \/ m = m0
  BY SendCarries DEF BusInv
<1>3. m0.id = sent + 1 /\ m0.task = t /\ m0.to = to /\ m0.corr = corr
  OBVIOUS
<1>4. corr \in 0..sent
  BY <1>1 DEF LogInv, Numbered
<1>5. /\ \A m \in Message : Carried(m) => m.id \in 1..sent /\ m.corr \in 0..sent
      /\ \A m, n \in Message : Carried(m) /\ Carried(n) /\ m.id = n.id => m = n
      /\ \A i \in Prompts : i \in 1..sent
  BY DEF LogInv, Numbered
<1> HIDE DEF m0
<1>6. Numbered'
  <2>1. \A m \in Message : Carried(m)' => m.id \in 1..sent' /\ m.corr \in 0..sent'
    BY <1>1, <1>2, <1>3, <1>4, <1>5
  <2>2. \A m, n \in Message : Carried(m)' /\ Carried(n)' /\ m.id = n.id => m = n
    BY <1>1, <1>2, <1>3, <1>5
  <2>3. \A i \in Prompts' : i \in 1..sent'
    BY <1>1, <1>5
  <2> QED
    BY <2>1, <2>2, <2>3 DEF Numbered
<1>7. Answers'
  <2>1. ASSUME NEW m \in Message, NEW n \in Message, Carried(m)', Carried(n)', m.corr = n.id
        PROVE  n.to \in Loaded /\ m.task = Handler[n.to]
    <3>1. Carried(n) /\ n.id \in 1..sent
      <4>1. n # m0
        BY <1>1, <1>2, <1>3, <1>4, <1>5, <2>1
      <4> QED
        BY <4>1, <1>2, <1>5, <2>1
    <3>2. CASE Carried(m)
      BY <2>1, <3>1, <3>2 DEF LogInv, Answers
    <3>3. CASE m = m0
      <4>1. corr = n.id /\ corr # 0
        BY <1>3, <2>1, <3>1, <3>3
      <4>2. PICK a \in Loaded, k \in Message : t = Handler[a] /\ Carried(k) /\ k.id = corr /\ k.to = a
        BY <4>1
      <4>3. k = n
        BY <1>5, <3>1, <4>1, <4>2
      <4> QED
        BY <1>3, <3>3, <4>2, <4>3
    <3> QED
      BY <1>2, <2>1, <3>2, <3>3
  <2>2. ASSUME NEW m \in Message, Carried(m)', m.to \in Loaded
        PROVE  m.id \in Prompts'
    BY <1>2, <1>3, <2>2 DEF LogInv, Answers
  <2> QED
    BY <2>1, <2>2 DEF Answers
<1> QED
  BY <1>6, <1>7 DEF LogInv

-----------------------------------------------------------------------------
(* The handlers' own variables, and all of the invariant but Once.         *)
HandlersType ==
  /\ handler \in [Loaded -> {"receiving", "starting", "streaming", "failing", "stopped"}]
  /\ prompt \in [Loaded -> Message \cup {NoMessage}]
  /\ \A a \in Loaded : prompt[a] = NoMessage <=> handler[a] \in {"receiving", "stopped"}
  /\ chunks \in [Loaded -> 0..MaxChunks]
  /\ activity \in [Loaded -> Activity]
  /\ tokens \in [Loaded -> Nat]
  /\ spent \in [Loaded -> Nat]

PromptsType == asked \in Seq(1..MaxMsgs) /\ closed \subseteq Prompts

RInv == BusInv /\ LogInv /\ HandlersType /\ PromptsType /\ Working

(* What a step does to the bus.                                            *)
BusKept ==
  /\ BusInv' /\ LogInv'
  /\ \A m \in Message : Announced(m) => Announced(m)'

Works(a) == handler[a] \in {"starting", "streaming", "failing"}

(* A handler at work has a prompt of its own, sent by the user.            *)
LEMMA WorksOnPrompt ==
  ASSUME RInv, NEW a \in Loaded, Works(a)
  PROVE  /\ prompt[a] \in Message /\ Announced(prompt[a]) /\ prompt[a].to = a
         /\ Carried(prompt[a]) /\ prompt[a].id \in Prompts
         /\ prompt[a].id \in 1..sent /\ prompt[a].id \in 0..MaxMsgs
<1>1. prompt[a] \in Message
  BY DEF RInv, HandlersType, Works
<1>2. Announced(prompt[a]) /\ prompt[a].to = a
  BY <1>1, ConstantsAssumption DEF RInv, Working
<1>3. Carried(prompt[a])
  BY <1>2 DEF Carried
<1>4. prompt[a].id \in 1..sent /\ prompt[a].id \in Prompts
  BY <1>1, <1>2, <1>3 DEF RInv, LogInv, Numbered, Answers
<1>5. prompt[a].id \in 0..MaxMsgs
  BY <1>1 DEF Message
<1> QED
  BY <1>1, <1>2, <1>3, <1>4, <1>5

(* An answer is a send of the handler's task ...                           *)
LEMMA ReplyKeeps ==
  ASSUME RInv, NEW a \in Loaded, Works(a), Reply(a), UNCHANGED asked
  PROVE  BusKept
<1> DEFINE t == Handler[a]
           i == prompt[a].id
<1>1. prompt[a] \in Message /\ Carried(prompt[a]) /\ prompt[a].to = a /\ i \in 0..MaxMsgs
  BY WorksOnPrompt
<1>2. t \in Task /\ Home[a] \in ChannelName /\ NoAgent \notin Loaded
  BY RuntimeAssumption, ConstantsAssumption
<1>3. SendToChannel(t, Home[a], NoAgent, i)
  BY DEF Reply
<1>4. Prompts' = Prompts
  BY DEF Prompts
<1>5. \E b \in Loaded, n \in Message : t = Handler[b] /\ Carried(n) /\ n.id = i /\ n.to = b
  BY <1>1
<1> HIDE DEF t, i
<1>6. BusInv'
  BY <1>1, <1>2, <1>3, BusSend DEF RInv
<1>7. LogInv'
  BY <1>1, <1>2, <1>3, <1>4, <1>5, LogSend DEF RInv
<1>8. \A m \in Message : Announced(m) => Announced(m)'
  BY <1>3 DEF SendToChannel, Begin, Announced
<1> QED
  BY <1>6, <1>7, <1>8 DEF BusKept

(* ... and without one the bus takes a passive step.                       *)
LEMMA PassiveKeeps ==
  ASSUME RInv, Passive, UNCHANGED asked
  PROVE  BusKept
BY BusPassive, LogPassive, PassiveCarries DEF RInv, BusInv, BusKept

LEMMA ReceiveKeeps ==
  ASSUME RInv, NEW a \in Agent, Receive(a), UNCHANGED asked
  PROVE  BusKept
BY PassiveKeeps DEF Passive

(* A prompt is put on the list of the prompts as it is sent.               *)
LEMMA AskKeeps ==
  ASSUME RInv, NEW t \in UserTasks, NEW a \in Loaded, NEW c \in ChannelName, Ask(t, a, c)
  PROVE  BusKept /\ PromptsType'
<1>1. t \in Task /\ a \in Agent \cup {NoAgent} /\ 0 \in 0..MaxMsgs
  BY RuntimeAssumption, ConstantsAssumption
<1>2. SendToChannel(t, c, a, 0) /\ asked' = Append(asked, sent + 1) /\ closed' = closed
  BY DEF Ask, handlers
<1>3. sent + 1 \in 1..MaxMsgs
  BY <1>2, ConstantsAssumption DEF RInv, BusInv, TInv, TypeOK, CallsType, SendToChannel, Begin
<1>4. asked \in Seq(1..MaxMsgs) /\ closed \subseteq Prompts
  BY DEF RInv, PromptsType
<1>5. /\ asked' \in Seq(1..MaxMsgs)
      /\ Len(asked') = Len(asked) + 1 /\ Len(asked) \in Nat
      /\ \A k \in 1..Len(asked) : asked'[k] = asked[k]
      /\ asked'[Len(asked) + 1] = sent + 1
  BY <1>2, <1>3, <1>4
<1>6. Prompts' = Prompts \cup {sent + 1}
  BY <1>5 DEF Prompts
<1>7. BusInv'
  BY <1>1, <1>2, BusSend DEF RInv
<1>8. LogInv'
  BY <1>1, <1>2, <1>6, LogSend DEF RInv
<1>9. \A m \in Message : Announced(m) => Announced(m)'
  BY <1>2 DEF SendToChannel, Begin, Announced
<1> QED
  BY <1>2, <1>4, <1>5, <1>6, <1>7, <1>8, <1>9 DEF BusKept, PromptsType
-----------------------------------------------------------------------------
(* What a handler works on stays announced.                                *)
LEMMA WorkingKept ==
  ASSUME RInv, BusKept, \A b \in Loaded : prompt'[b] = prompt[b] \/ prompt'[b] = NoMessage
  PROVE  Working'
<1>1. \A b \in Loaded : prompt[b] # NoMessage => prompt[b] \in Message
  BY DEF RInv, HandlersType
<1> QED
  BY <1>1 DEF RInv, Working, BusKept

(* A handler closes only prompts of the user.                              *)
LEMMA DoneCloses ==
  ASSUME RInv, NEW a \in Loaded, Works(a), Done(a), UNCHANGED asked
  PROVE  /\ PromptsType'
         /\ \A b \in Loaded : prompt'[b] = prompt[b] \/ prompt'[b] = NoMessage
<1>1. prompt[a].id \in Prompts
  BY WorksOnPrompt
<1>2. PromptsType'
  BY <1>1 DEF Done, PromptsType, RInv, Prompts
<1> QED
  BY <1>2 DEF Done, RInv, HandlersType

(* A handler that is done receives again, with no prompt.                  *)
LEMMA DoneTyped ==
  ASSUME RInv, NEW a \in Loaded, Works(a), Done(a), UNCHANGED chunks,
         activity' \in [Loaded -> Activity], tokens' \in [Loaded -> Nat], spent' \in [Loaded -> Nat]
  PROVE  HandlersType'
BY DEF RInv, HandlersType, Done

LEMMA IdleTyped ==
  ASSUME RInv, NEW a \in Loaded, Works(a), BecomesIdle(a), UNCHANGED chunks
  PROVE  HandlersType'
<1>1. activity' \in [Loaded -> Activity]
  BY DEF RInv, HandlersType, BecomesIdle, Activity
<1>2. PICK n \in Usage :
        /\ tokens' = [tokens EXCEPT ![a] = IF activity[a] = "Idle" THEN @ + n ELSE n]
        /\ spent' = [spent EXCEPT ![a] = @ + n]
  BY DEF BecomesIdle
<1>3. n \in Nat /\ tokens \in [Loaded -> Nat] /\ spent \in [Loaded -> Nat]
  BY RuntimeAssumption DEF RInv, HandlersType
<1>4. tokens' \in [Loaded -> Nat] /\ spent' \in [Loaded -> Nat]
  BY <1>2, <1>3
<1> QED
  BY <1>1, <1>4, DoneTyped DEF BecomesIdle
-----------------------------------------------------------------------------
(* Every handler step keeps all of it.                                     *)
LEMMA HandlerKeeps ==
  ASSUME RInv, NEW a \in Loaded, HandlerStep(a)
  PROVE  RInv'
<1>1. a \in Agent /\ phase \in [Task -> Phase] /\ queue \in [Agent -> Seq(Message)]
  BY RuntimeAssumption DEF RInv, BusInv, TInv, TypeOK, CallsType, QueuesType
<1>2. HandlersType /\ PromptsType
  BY DEF RInv
<1>3. asked' = asked => Prompts' = Prompts
  BY DEF Prompts
<1>5. CASE Take(a)
  <2> DEFINE m == Head(queue[a])
  <2>1. asked' = asked /\ closed' = closed /\ Receive(a)
    BY <1>5 DEF Take
  <2>2. BusKept
    BY <1>1, <2>1, ReceiveKeeps
  <2>3. m \in Message /\ Announced(m)
    <3>1. queue[a] \in Seq(Message) /\ queue[a] # <<>> /\ m = queue[a][1] /\ 1 \in 1..Len(queue[a])
      BY <1>1, <2>1 DEF Receive
    <3> QED
      BY <1>1, <3>1 DEF RInv, BusInv, QueuedWasAnnounced, Announced
  <2>4. m # NoMessage
    BY <2>3, ConstantsAssumption
  <2>5. PromptsType'
    BY <1>2, <1>3, <2>1 DEF PromptsType
  <2>6. CASE m.to = a
    <3>0. /\ handler' = [handler EXCEPT ![a] = "starting"]
          /\ prompt' = [prompt EXCEPT ![a] = m]
          /\ chunks' = [chunks EXCEPT ![a] = 0]
          /\ activity' = [activity EXCEPT ![a] = "Thinking"]
          /\ tokens' = [tokens EXCEPT ![a] = 0]
          /\ spent' = spent
      BY <1>5, <2>6 DEF Take
    <3> HIDE DEF m
    <3>1. HandlersType'
      BY <1>2, <2>3, <2>4, <3>0, RuntimeAssumption DEF HandlersType, Activity
    <3>2. \A b \in Loaded : b # a => prompt'[b] = prompt[b]
      BY <1>2, <3>0 DEF HandlersType
    <3>3. prompt'[a] = m
      BY <1>2, <3>0 DEF HandlersType
    <3>4. \A b \in Loaded : prompt[b] # NoMessage => prompt[b] \in Message
      BY <1>2 DEF HandlersType
    <3>5. Working'
      BY <2>2, <2>3, <2>6, <3>2, <3>3, <3>4 DEF RInv, Working, BusKept
    <3> QED
      BY <2>2, <2>5, <3>1, <3>5 DEF RInv, BusKept
  <2>7. CASE m.to # a
    <3>1. UNCHANGED <<handler, prompt, chunks, activity, tokens, spent>>
      BY <1>5, <2>7 DEF Take
    <3>2. HandlersType' /\ Working'
      BY <1>2, <2>2, <3>1, WorkingKept DEF HandlersType
    <3> QED
      BY <2>2, <2>5, <3>2 DEF RInv, BusKept
  <2> QED
    BY <2>6, <2>7
<1>6. CASE StreamStarts(a)
  <2>1. asked' = asked /\ closed' = closed /\ UNCHANGED vars /\ prompt' = prompt
    BY <1>6 DEF StreamStarts, busVars
  <2>2. BusKept
    BY <2>1, PassiveKeeps DEF Passive
  <2>3. HandlersType' /\ Working'
    BY <1>2, <1>6, <2>1, <2>2, WorkingKept DEF StreamStarts, HandlersType
  <2> QED
    BY <1>2, <1>3, <2>1, <2>2, <2>3 DEF RInv, BusKept, PromptsType
<1>7. CASE Chunk(a)
  <2>1. asked' = asked /\ closed' = closed /\ Reply(a) /\ prompt' = prompt
    BY <1>7 DEF Chunk
  <2>2. Works(a)
    BY <1>7 DEF Chunk, Ready, Works
  <2>3. BusKept
    BY <2>1, <2>2, ReplyKeeps
  <2>4. chunks' \in [Loaded -> 0..MaxChunks]
    <3>1. chunks \in [Loaded -> 0..MaxChunks] /\ MaxChunks \in Nat
      BY <1>2, RuntimeAssumption DEF HandlersType
    <3>2. chunks[a] < MaxChunks /\ chunks' = [chunks EXCEPT ![a] = @ + 1]
      BY <1>7 DEF Chunk
    <3> QED
      BY <3>1, <3>2
  <2>5. HandlersType' /\ Working'
    BY <1>2, <1>7, <2>1, <2>3, <2>4, WorkingKept DEF Chunk, HandlersType
  <2> QED
    BY <1>2, <1>3, <2>1, <2>3, <2>5 DEF RInv, BusKept, PromptsType
<1>8. CASE StreamEnds(a) \/ ChunkRefused(a)
  <2>1. asked' = asked /\ chunks' = chunks /\ BecomesIdle(a) /\ UNCHANGED vars /\ Works(a)
    BY <1>8 DEF StreamEnds, ChunkRefused, Ready, Works, busVars
  <2>2. BusKept
    BY <2>1, PassiveKeeps DEF Passive
  <2>3. Done(a)
    BY <2>1 DEF BecomesIdle
  <2>4. HandlersType' /\ PromptsType' /\ Working'
    BY <2>1, <2>2, <2>3, IdleTyped, DoneCloses, WorkingKept
  <2> QED
    BY <2>2, <2>4 DEF RInv, BusKept
<1>9. CASE Apologise(a)
  <2>1. asked' = asked /\ closed' = closed /\ prompt' = prompt /\ Works(a)
    BY <1>9 DEF Apologise, Ready, Works
  <2>2. Reply(a) \/ UNCHANGED vars
    BY <1>9 DEF Apologise, busVars
  <2>3. BusKept
    BY <2>1, <2>2, ReplyKeeps, PassiveKeeps DEF Passive
  <2>4. HandlersType' /\ Working'
    BY <1>2, <1>9, <2>1, <2>3, WorkingKept DEF Apologise, HandlersType, Works
  <2> QED
    BY <1>2, <1>3, <2>1, <2>3, <2>4 DEF RInv, BusKept, PromptsType
<1>10. CASE ShowError(a)
  <2>1. asked' = asked /\ Done(a) /\ UNCHANGED vars /\ Works(a)
        /\ UNCHANGED <<chunks, tokens, spent>> /\ activity' = [activity EXCEPT ![a] = "Errored"]
    BY <1>10 DEF ShowError, Works, busVars
  <2>2. BusKept
    BY <2>1, PassiveKeeps DEF Passive
  <2>3. HandlersType'
    BY <1>2, <2>1, DoneTyped DEF HandlersType, Activity
  <2>4. PromptsType' /\ Working'
    BY <2>1, <2>2, DoneCloses, WorkingKept
  <2> QED
    BY <2>2, <2>3, <2>4 DEF RInv, BusKept
<1>11. CASE HandlerStops(a)
  <2>1. asked' = asked /\ closed' = closed /\ prompt' = prompt /\ feed' = feed
    BY <1>11 DEF HandlerStops
  <2>2. BusKept
    BY <1>11, <2>1, BusStop, LogStop DEF RInv, BusKept, Announced
  <2>3. HandlersType' /\ Working'
    BY <1>2, <1>11, <2>1, <2>2, WorkingKept DEF HandlerStops, HandlersType
  <2> QED
    BY <1>2, <1>3, <2>1, <2>2, <2>3 DEF RInv, BusKept, PromptsType
<1> QED
  BY <1>5, <1>6, <1>7, <1>8, <1>9, <1>10, <1>11 DEF HandlerStep

(* So do the steps of everybody else.                                      *)
LEMMA RuntimeKeeps ==
  ASSUME RInv, [RNext]_rvars
  PROVE  RInv'
<1>1. ASSUME NEW t \in UserTasks, NEW a \in Loaded, NEW c \in ChannelName, Ask(t, a, c)
      PROVE  RInv'
  <2>1. BusKept /\ PromptsType'
    BY <1>1, AskKeeps
  <2>2. UNCHANGED handlers
    BY <1>1 DEF Ask
  <2>3. Working'
    BY <2>1, <2>2, WorkingKept DEF handlers
  <2>4. HandlersType'
    BY <2>2 DEF handlers, RInv, HandlersType
  <2> QED
    BY <2>1, <2>3, <2>4 DEF RInv, BusKept
<1>2. ASSUME Passive, UNCHANGED handlers, UNCHANGED asked
      PROVE  RInv'
  <2>1. BusKept
    BY <1>2, PassiveKeeps
  <2>2. Working'
    BY <1>2, <2>1, WorkingKept DEF handlers
  <2>3. HandlersType' /\ PromptsType'
    BY <1>2 DEF handlers, RInv, HandlersType, PromptsType, Prompts
  <2> QED
    BY <2>1, <2>2, <2>3 DEF RInv, BusKept
<1>3. BusStep \/ Quit \/ UNCHANGED vars => Passive
  BY DEF BusStep, Quit, Passive
<1>4. UNCHANGED rvars => UNCHANGED vars /\ UNCHANGED handlers /\ UNCHANGED asked
  BY DEF rvars, busVars
<1>5. CASE RNext
  BY <1>1, <1>2, <1>3, <1>5, HandlerKeeps DEF RNext, RuntimeStep
<1>6. CASE UNCHANGED rvars
  BY <1>2, <1>3, <1>4, <1>6
<1> QED
  BY <1>5, <1>6

(* The agents start with nothing to do.                                    *)
LEMMA RuntimeStarts ==
  ASSUME RInit(BusUp)
  PROVE  RInv
<1>1. /\ TypeOK /\ feed = <<>> /\ sent = 0 /\ asked = <<>> /\ closed = {}
      /\ \A t \in Task : phase[t] = "idle" /\ call[t] = NoCall
      /\ \A a \in Agent : queue[a] = <<>>
  BY DEF RInit, BusUp
<1>2. TInv
  BY <1>1 DEF TInv, CallOK, Sending, Delivering, NoCall
<1>3. \A m \in Message : ~Announced(m) /\ ~Carried(m)
  BY <1>1 DEF Announced, Carried, Sending, Delivering
<1>4. AnnouncedBefore /\ QueuedWasAnnounced
  BY <1>1 DEF AnnouncedBefore, QueuedWasAnnounced, Delivering
<1>5. Prompts = {}
  BY <1>1 DEF Prompts
<1>6. LogInv
  BY <1>3, <1>5 DEF LogInv, Numbered, Answers
<1>7. HandlersType /\ Working
  BY RuntimeAssumption DEF RInit, HandlersType, Working, Activity
<1>8. PromptsType
  BY <1>1, <1>5 DEF PromptsType
<1> QED
  BY <1>2, <1>4, <1>6, <1>7, <1>8 DEF RInv, BusInv

(* Hence all of it holds whatever happens.                                 *)
THEOREM RuntimeInvariant == RSpec => []RInv
<1>1. RInit(BusUp) => RInv
  BY RuntimeStarts
<1>2. RInv /\ [RNext]_rvars => RInv'
  BY RuntimeKeeps
<1> QED
  BY <1>1, <1>2, PTL DEF RSpec

(* The variables of the handlers keep their types, a handler holds a prompt *)
(* exactly while it works on one, and closes only prompts of the user      *)
(* (runtime.rs:237-440).                                                   *)
THEOREM RuntimeTypeCorrect == RSpec => []RuntimeTypeOK
<1>1. RInv => RuntimeTypeOK
  BY DEF RInv, BusInv, TInv, HandlersType, PromptsType, RuntimeTypeOK
<1> QED
  BY <1>1, RuntimeInvariant, PTL

(* Only the agent a prompt is addressed to answers it, however the sends   *)
(* of the agents of a channel interleave (runtime.rs:253-259).             *)
THEOREM AddresseeCorrect == RSpec => []OnlyAddresseeAnswers
<1>1. ASSUME RInv, NEW j \in 1..Len(feed), NEW k \in 1..Len(feed), feed[j].corr = feed[k].id
      PROVE  feed[k].to \in Loaded /\ feed[j].task = Handler[feed[k].to]
  <2>1. feed[j] \in Message /\ feed[k] \in Message
    BY <1>1 DEF RInv, BusInv, TInv, TypeOK, LogsType
  <2>2. Carried(feed[j]) /\ Carried(feed[k])
    BY DEF Carried, Announced
  <2> QED
    BY <1>1, <2>1, <2>2 DEF RInv, LogInv, Answers
<1>2. RInv => OnlyAddresseeAnswers
  BY <1>1 DEF OnlyAddresseeAnswers
<1> QED
  BY <1>2, RuntimeInvariant, PTL

-----------------------------------------------------------------------------
(* The agents and the user only send to channels, and a send serves the    *)
(* members of one visibility after the other.                              *)
OnlyChannels ==
  \A t \in Task :
    /\ phase[t] \in {"idle", "record", "announce", "full", "notify"}
    /\ phase[t] # "idle" => call[t].kind = "channel"
    /\ phase[t] = "full" => todo[t] \subseteq MembersWith(call[t].chan, "Full")
    /\ phase[t] = "notify" => todo[t] \subseteq MembersWith(call[t].chan, "Notify")

(* The send of t may yet reach the queue of a.                             *)
Coming(t, a) ==
  \/ phase[t] \in {"record", "announce"}
  \/ phase[t] = "full" /\ (a \in todo[t] \/ members[call[t].chan][a] = "Notify")
  \/ phase[t] = "notify" /\ a \in todo[t]

Due(m, a) == \E t \in Task : Coming(t, a) /\ call[t].msg = m
Queued(m, a) == \E k \in 1..Len(queue[a]) : queue[a][k] = m

(* A message for a is in one place: due, queued, worked on or done with.   *)
OnceDue(a) ==
  \A m \in Message : Due(m, a) /\ m.to = a => ~Queued(m, a) /\ prompt[a] # m /\ m.id \notin closed
OnceQueued(a) ==
  \A m \in Message : Queued(m, a) /\ m.to = a => prompt[a] # m /\ m.id \notin closed
OnceHeld(a) == prompt[a] # NoMessage => prompt[a].id \notin closed
OnceInLine(a) ==
  \A k, l \in 1..Len(queue[a]) : queue[a][k] = queue[a][l] /\ queue[a][k].to = a => k = l

OnceAt(a) == OnceDue(a) /\ OnceQueued(a) /\ OnceHeld(a) /\ OnceInLine(a)

Once == OnlyChannels /\ \A a \in Loaded : OnceAt(a)

-----------------------------------------------------------------------------
(* Two carried messages of one number are one message, and the messages in *)
(* a queue and under way are carried.                                      *)
LEMMA OneOfANumber ==
  ASSUME RInv, NEW m \in Message, NEW n \in Message, Carried(m), Carried(n), m.id = n.id
  PROVE  m = n
BY DEF RInv, LogInv, Numbered

LEMMA QueuedIsCarried ==
  ASSUME RInv, NEW a \in Agent, NEW k \in 1..Len(queue[a])
  PROVE  queue[a][k] \in Message /\ Carried(queue[a][k]) /\ Queued(queue[a][k], a)
<1>1. queue[a] \in Seq(Message)
  BY DEF RInv, BusInv, TInv, TypeOK, QueuesType
<1> QED
  BY <1>1 DEF RInv, BusInv, QueuedWasAnnounced, Announced, Carried, Queued

LEMMA ComingIsCarried ==
  ASSUME RInv, NEW t \in Task, NEW a \in Agent, Coming(t, a)
  PROVE  /\ call[t].msg \in Message /\ Carried(call[t].msg) /\ call[t].msg.task = t
         /\ Due(call[t].msg, a)
BY DEF RInv, BusInv, TInv, CallOK, Coming, Sending, Delivering, Carried, Due

(* What a task is about to deliver is due no more times than once.         *)
LEMMA OneSendOfAMessage ==
  ASSUME RInv, NEW t \in Task, NEW u \in Task, NEW a \in Agent, Coming(t, a), Coming(u, a),
         call[t].msg = call[u].msg
  PROVE  t = u
BY ComingIsCarried

(* A message that is queued or worked on has a sent number.                *)
LEMMA CarriedIsSent ==
  ASSUME RInv, NEW m \in Message, Carried(m)
  PROVE  m.id \in 1..sent /\ m.id # sent + 1
<1>1. sent \in Nat /\ m.id \in 1..sent
  BY DEF RInv, LogInv, Numbered, BusInv, TInv, TypeOK, CallsType
<1> QED
  BY <1>1

(* While nothing new is due and no message moves, all stays in one place.  *)
LEMMA StillOnceAt ==
  ASSUME NEW a \in Loaded, OnceAt(a), prompt'[a] = prompt[a], closed' = closed,
         queue'[a] = queue[a], \A m \in Message : Due(m, a)' => Due(m, a)
  PROVE  OnceAt(a)'
<1>1. OnceDue(a) /\ OnceQueued(a) /\ OnceHeld(a) /\ OnceInLine(a)
  BY DEF OnceAt
<1>2. \A m \in Message : Queued(m, a)' <=> Queued(m, a)
  BY DEF Queued
<1>3. OnceDue(a)'
  BY <1>1, <1>2 DEF OnceDue
<1>4. OnceQueued(a)'
  BY <1>1, <1>2 DEF OnceQueued
<1>5. OnceHeld(a)'
  BY <1>1 DEF OnceHeld
<1>6. OnceInLine(a)'
  BY <1>1 DEF OnceInLine
<1> QED
  BY <1>3, <1>4, <1>5, <1>6 DEF OnceAt

LEMMA StillOnce ==
  ASSUME Once, OnlyChannels', UNCHANGED <<prompt, closed>>,
         \A a \in Loaded : queue'[a] = queue[a],
         \A a \in Loaded, m \in Message : Due(m, a)' => Due(m, a)
  PROVE  Once'
BY StillOnceAt DEF Once

(* What a step of a call leaves to be delivered, it had to deliver before. *)
LEMMA ProgressDue ==
  ASSUME RInv, OnlyChannels, NEW t \in Task, Progress(t)
  PROVE  /\ OnlyChannels'
         /\ \A u \in Task, a \in Agent : Coming(u, a)' => Coming(u, a) /\ call'[u] = call[u]
<1> DEFINE Goal == /\ OnlyChannels'
                   /\ \A u \in Task, a \in Agent : Coming(u, a)' => Coming(u, a) /\ call'[u] = call[u]
<1>1. /\ phase \in [Task -> Phase] /\ call \in [Task -> Call] /\ todo \in [Task -> SUBSET Agent]
      /\ members \in [ChannelName -> [Agent -> Visibility \cup {"Out"}]]
  BY DEF RInv, BusInv, TInv, TypeOK, CallsType, ChannelsType
<1>2. ~Record(t) /\ ~Listen(t) /\ ~ReadFeed(t) /\ ~Timeout(t)
  BY DEF OnlyChannels, Record, Listen, ReadFeed, Timeout
<1>3. ASSUME UNCHANGED <<phase, call, todo, members>> PROVE Goal
  BY <1>3 DEF OnlyChannels, Coming, MembersWith
<1>4. ASSUME phase'[t] = "idle", \A u \in Task \ {t} : phase'[u] = phase[u] /\ call'[u] = call[u],
             UNCHANGED <<todo, members>>
      PROVE  Goal
  BY <1>1, <1>4 DEF OnlyChannels, Coming, MembersWith
<1>5. CASE RecordChannel(t)
  <2>1. CASE GoesTo(t, "announce")
    BY <1>1, <1>5, <2>1 DEF RecordChannel, GoesTo, OnlyChannels, Coming, MembersWith
  <2>2. CASE Ends(t)
    <3>1. phase'[t] = "idle" /\ \A u \in Task \ {t} : phase'[u] = phase[u] /\ call'[u] = call[u]
      BY <1>1, <2>2 DEF Ends
    <3>2. UNCHANGED <<todo, members>>
      BY <1>5 DEF RecordChannel
    <3> QED
      BY <1>4, <3>1, <3>2
  <2> QED
    BY <1>5, <2>1, <2>2 DEF RecordChannel
<1>6. CASE Announce(t)
  <2>1. phase[t] = "announce" /\ Route(t) = <<"full", MembersWith(call[t].chan, "Full") \ {Sender[t]}>>
    BY <1>6 DEF Announce, Route, OnlyChannels
  <2>2. /\ call' = call /\ members' = members
        /\ phase' = [phase EXCEPT ![t] = "full"]
        /\ todo' = [todo EXCEPT ![t] = MembersWith(call[t].chan, "Full") \ {Sender[t]}]
    BY <1>6, <2>1 DEF Announce, GoesTo
  <2> QED
    BY <1>1, <2>1, <2>2 DEF OnlyChannels, Coming, MembersWith
<1>7. ASSUME NEW a \in Agent, Deliver(t, a) \/ Wait(t, a) \/ Skip(t, a)
      PROVE  Goal
  <2>1. UNCHANGED <<phase, call, members>> /\ (todo' = todo \/ todo' = [todo EXCEPT ![t] = @ \ {a}])
    BY <1>7 DEF Deliver, Wait, Skip, calls
  <2>2. \A u \in Task : todo'[u] \subseteq todo[u]
    BY <1>1, <2>1
  <2> QED
    BY <2>1, <2>2 DEF OnlyChannels, Coming, MembersWith
<1>8. CASE ServeNotify(t)
  <2>1. /\ call' = call /\ members' = members /\ phase[t] = "full"
        /\ phase' = [phase EXCEPT ![t] = "notify"]
        /\ todo' = [todo EXCEPT ![t] = MembersWith(call[t].chan, "Notify") \ {Sender[t]}]
    BY <1>8 DEF ServeNotify, GoesTo
  <2> QED
    BY <1>1, <2>1 DEF OnlyChannels, Coming, MembersWith
<1>9. CASE Return(t)
  <2>1. Ends(t) /\ UNCHANGED <<todo, members>>
    BY <1>9 DEF Return, OnlyChannels
  <2>2. phase'[t] = "idle" /\ \A u \in Task \ {t} : phase'[u] = phase[u] /\ call'[u] = call[u]
    BY <1>1, <2>1 DEF Ends
  <2> QED
    BY <1>4, <2>1, <2>2
<1> QED
  BY <1>2, <1>5, <1>6, <1>7, <1>8, <1>9 DEF Progress

(* So the messages that are due are the same or fewer.                     *)
LEMMA ProgressOnce ==
  ASSUME RInv, Once, NEW t \in Task, Progress(t), UNCHANGED <<prompt, closed>>,
         ~ \E a \in Loaded : Deliver(t, a)
  PROVE  Once'
<1>1. Loaded \subseteq Agent /\ queue \in [Agent -> Seq(Message)]
  BY RuntimeAssumption DEF RInv, BusInv, TInv, TypeOK, QueuesType
<1>2. /\ OnlyChannels'
      /\ \A u \in Task, a \in Agent : Coming(u, a)' => Coming(u, a) /\ call'[u] = call[u]
  BY ProgressDue DEF Once
<1>3. \A a \in Loaded, m \in Message : Due(m, a)' => Due(m, a)
  BY <1>1, <1>2 DEF Due
<1>4. \A a \in Loaded : queue'[a] = queue[a]
  <2>1. queue' = queue \/ \E b \in Agent \ Loaded : Deliver(t, b)
    BY DEF Progress, Record, RecordChannel, Announce, Wait, Skip, ServeNotify, Return, Listen,
           ReadFeed, Timeout
  <2> QED
    BY <1>1, <2>1 DEF Deliver
<1> QED
  BY <1>2, <1>3, <1>4, StillOnce

(* A message that is delivered was due, and is due no more.                *)
LEMMA DeliverOnce ==
  ASSUME RInv, Once, NEW t \in Task, NEW b \in Loaded, Deliver(t, b), UNCHANGED <<prompt, closed>>
  PROVE  Once'
<1>1. /\ Loaded \subseteq Agent /\ b \in Agent
      /\ queue \in [Agent -> Seq(Message)] /\ todo \in [Task -> SUBSET Agent]
  BY RuntimeAssumption DEF RInv, BusInv, TInv, TypeOK, QueuesType, CallsType
<1>2. /\ OnlyChannels'
      /\ \A u \in Task, a \in Agent : Coming(u, a)' => Coming(u, a) /\ call'[u] = call[u]
  <2>1. Progress(t)
    BY <1>1 DEF Progress
  <2> QED
    BY <2>1, ProgressDue DEF Once
<1>3. Coming(t, b) /\ ~Coming(t, b)'
  <2>1. phase[t] \in {"full", "notify"} /\ b \in todo[t]
    BY DEF Deliver, Delivering, Once, OnlyChannels
  <2>2. /\ todo' = [todo EXCEPT ![t] = @ \ {b}]
        /\ phase' = phase /\ call' = call /\ members' = members
    BY DEF Deliver
  <2>3. b \notin todo'[t]
    BY <1>1, <2>2
  <2>4. phase[t] = "full" => members[call[t].chan][b] = "Full"
    BY <2>1 DEF Once, OnlyChannels, MembersWith
  <2> QED
    BY <2>1, <2>2, <2>3, <2>4 DEF Coming
<1>4. PICK m0 \in Message : m0 = call[t].msg /\ Due(m0, b)
  BY <1>1, <1>3, ComingIsCarried
<1>5. ~Due(m0, b)'
  <2>1. ASSUME NEW u \in Task, Coming(u, b)', call'[u].msg = m0
        PROVE  FALSE
    <3>1. Coming(u, b) /\ call[u].msg = m0
      BY <1>1, <1>2, <2>1
    <3>2. u = t
      BY <1>1, <1>3, <1>4, <3>1, OneSendOfAMessage
    <3> QED
      BY <1>3, <2>1, <3>2
  <2> QED
    BY <2>1 DEF Due
<1>6. \A a \in Loaded, m \in Message : Due(m, a)' => Due(m, a)
  BY <1>1, <1>2 DEF Due
<1>7. /\ queue'[b] = Append(queue[b], m0)
      /\ \A a \in Loaded : a # b => queue'[a] = queue[a]
  BY <1>1, <1>4 DEF Deliver
<1>8. /\ Len(queue'[b]) = Len(queue[b]) + 1 /\ Len(queue[b]) \in Nat
      /\ \A k \in 1..Len(queue[b]) : queue'[b][k] = queue[b][k]
      /\ queue'[b][Len(queue[b]) + 1] = m0
  BY <1>1, <1>4, <1>7
<1>9. \A m \in Message : Queued(m, b)' => Queued(m, b) \/ m = m0
  BY <1>8 DEF Queued
<1>10. OnceDue(b) /\ OnceQueued(b) /\ OnceHeld(b) /\ OnceInLine(b)
  BY DEF Once, OnceAt
<1>11. OnceDue(b)'
  BY <1>5, <1>6, <1>9, <1>10 DEF OnceDue
<1>12. OnceQueued(b)'
  BY <1>4, <1>9, <1>10 DEF OnceDue, OnceQueued
<1>13. OnceHeld(b)'
  BY <1>10 DEF OnceHeld
<1>14. OnceInLine(b)'
  <2>1. \A k \in 1..Len(queue[b]) : queue[b][k] = m0 => m0.to # b
    BY <1>4, <1>10 DEF OnceDue, Queued
  <2>2. \A k \in 1..Len(queue'[b]) : k \in 1..Len(queue[b]) \/ k = Len(queue[b]) + 1
    BY <1>8
  <2>3. ASSUME NEW k \in 1..Len(queue'[b]), NEW l \in 1..Len(queue'[b]),
               queue'[b][k] = queue'[b][l], queue'[b][k].to = b
        PROVE  k = l
    <3>1. CASE k \in 1..Len(queue[b]) /\ l \in 1..Len(queue[b])
      BY <1>8, <1>10, <2>3, <3>1 DEF OnceInLine
    <3>2. CASE k \in 1..Len(queue[b]) /\ l = Len(queue[b]) + 1
      BY <1>8, <2>1, <2>3, <3>2
    <3>3. CASE l \in 1..Len(queue[b]) /\ k = Len(queue[b]) + 1
      BY <1>8, <2>1, <2>3, <3>3
    <3> QED
      BY <2>2, <3>1, <3>2, <3>3
  <2> QED
    BY <2>3 DEF OnceInLine
<1>15. \A a \in Loaded : a # b => OnceAt(a)'
  BY <1>6, <1>7, StillOnceAt DEF Once
<1> QED
  BY <1>2, <1>11, <1>12, <1>13, <1>14, <1>15 DEF Once, OnceAt

(* A message that is taken off a queue is not in it any more.              *)
LEMMA TakeOnce ==
  ASSUME RInv, Once, NEW a \in Loaded, Take(a)
  PROVE  Once'
<1> DEFINE m0 == Head(queue[a])
<1>1. /\ Loaded \subseteq Agent /\ a \in Agent
      /\ queue \in [Agent -> Seq(Message)]
      /\ prompt \in [Loaded -> Message \cup {NoMessage}]
  BY RuntimeAssumption DEF RInv, BusInv, TInv, TypeOK, QueuesType, HandlersType
<1>2. Receive(a) /\ closed' = closed
  BY DEF Take
<1>3. UNCHANGED <<phase, call, todo, members>>
  BY <1>2 DEF Receive, calls
<1>4. OnlyChannels'
  BY <1>3 DEF Once, OnlyChannels, MembersWith
<1>5. \A b \in Loaded, m \in Message : Due(m, b)' <=> Due(m, b)
  BY <1>3 DEF Due, Coming
<1>6. /\ queue'[a] = Tail(queue[a]) /\ queue[a] # <<>>
      /\ \A b \in Loaded : b # a => queue'[b] = queue[b]
  BY <1>1, <1>2 DEF Receive
<1>7. /\ Len(queue[a]) \in Nat \ {0} /\ Len(queue'[a]) = Len(queue[a]) - 1
      /\ \A k \in 1..Len(queue'[a]) : k + 1 \in 1..Len(queue[a]) /\ k + 1 # 1
                                      /\ queue'[a][k] = queue[a][k + 1]
      /\ 1 \in 1..Len(queue[a]) /\ m0 = queue[a][1]
  BY <1>1, <1>6
<1>8. m0 \in Message /\ Queued(m0, a)
  BY <1>1, <1>7, QueuedIsCarried
<1>9. /\ \A b \in Loaded : b # a => prompt'[b] = prompt[b]
      /\ prompt'[a] = prompt[a] \/ (prompt'[a] = m0 /\ m0.to = a)
  BY <1>1 DEF Take
<1> HIDE DEF m0
<1>10. OnceDue(a) /\ OnceQueued(a) /\ OnceHeld(a) /\ OnceInLine(a)
  BY DEF Once, OnceAt
<1>11. \A m \in Message : Queued(m, a)' => Queued(m, a) /\ (m.to = a => m # m0)
  BY <1>7, <1>10 DEF Queued, OnceInLine
<1>12. OnceDue(a)'
  BY <1>2, <1>5, <1>8, <1>9, <1>10, <1>11 DEF OnceDue
<1>13. OnceQueued(a)'
  BY <1>2, <1>9, <1>10, <1>11 DEF OnceQueued
<1>14. OnceHeld(a)'
  BY <1>2, <1>8, <1>9, <1>10 DEF OnceQueued, OnceHeld
<1>15. OnceInLine(a)'
  <2>1. \A k, l \in 1..Len(queue'[a]) : k + 1 = l + 1 => k = l
    OBVIOUS
  <2> QED
    BY <1>7, <1>10, <2>1 DEF OnceInLine
<1>16. \A b \in Loaded : b # a => OnceAt(b)'
  BY <1>2, <1>5, <1>6, <1>9, StillOnceAt DEF Once
<1> QED
  BY <1>4, <1>12, <1>13, <1>14, <1>15, <1>16 DEF Once, OnceAt

(* A prompt that is done with is nowhere else.                             *)
LEMMA DoneOnce ==
  ASSUME RInv, Once, NEW a \in Loaded, Works(a), Done(a), UNCHANGED vars
  PROVE  Once'
<1> DEFINE i == prompt[a].id
<1>1. /\ prompt[a] \in Message /\ prompt[a] # NoMessage /\ prompt[a].to = a /\ Carried(prompt[a])
      /\ Loaded \subseteq Agent
  BY WorksOnPrompt, RuntimeAssumption, ConstantsAssumption
<1>2. /\ UNCHANGED <<phase, call, todo, members, queue>> /\ OnlyChannels'
  BY DEF vars, Once, OnlyChannels, MembersWith
<1>3. \A b \in Loaded, m \in Message : (Due(m, b)' <=> Due(m, b)) /\ (Queued(m, b)' <=> Queued(m, b))
  BY <1>2 DEF Due, Coming, Queued
<1>4. ASSUME NEW m \in Message, Carried(m), m.id = i
      PROVE  m = prompt[a] /\ m.to = a
  BY <1>1, <1>4, OneOfANumber
<1>5. /\ closed' = closed \cup {prompt[a].id}
      /\ prompt'[a] = NoMessage
      /\ \A b \in Loaded : b # a => prompt'[b] = prompt[b]
  BY DEF Done, RInv, HandlersType
<1> SUFFICES ASSUME NEW b \in Loaded
             PROVE  OnceAt(b)'
  BY <1>2 DEF Once
<1>6. OnceDue(b) /\ OnceQueued(b) /\ OnceHeld(b) /\ OnceInLine(b)
  BY DEF Once, OnceAt
<1>7. OnceDue(b)'
  <2>1. ASSUME NEW m \in Message, Due(m, b), m.to = b
        PROVE  m.id # i
    <3>1. Carried(m)
      BY <1>1, <2>1, ComingIsCarried DEF Due
    <3>2. prompt[b] # m
      BY <1>6, <2>1 DEF OnceDue
    <3> QED
      BY <1>4, <2>1, <3>1, <3>2
  <2> QED
    BY <1>3, <1>5, <1>6, <2>1, ConstantsAssumption DEF OnceDue
<1>8. OnceQueued(b)'
  <2>1. ASSUME NEW m \in Message, Queued(m, b), m.to = b
        PROVE  m.id # i
    <3>1. Carried(m)
      BY <1>1, <2>1, QueuedIsCarried DEF Queued
    <3>2. prompt[b] # m
      BY <1>6, <2>1 DEF OnceQueued
    <3> QED
      BY <1>4, <2>1, <3>1, <3>2
  <2> QED
    BY <1>3, <1>5, <1>6, <2>1, ConstantsAssumption DEF OnceQueued
<1>9. OnceHeld(b)'
  <2>1. ASSUME b # a, prompt[b] # NoMessage
        PROVE  prompt[b].id # i
    <3>1. prompt[b] \in Message /\ prompt[b].to = b /\ Carried(prompt[b])
      BY <2>1 DEF RInv, HandlersType, Working, Carried
    <3> QED
      BY <1>4, <2>1, <3>1
  <2> QED
    BY <1>5, <1>6, <2>1 DEF OnceHeld
<1>10. OnceInLine(b)'
  BY <1>2, <1>6 DEF OnceInLine
<1> QED
  BY <1>7, <1>8, <1>9, <1>10 DEF OnceAt

(* A new message is nowhere yet.                                           *)
LEMMA SendOnce ==
  ASSUME RInv, Once, NEW t \in Task, NEW c \in ChannelName, NEW to \in Agent \cup {NoAgent},
         NEW corr \in 0..MaxMsgs, SendToChannel(t, c, to, corr), UNCHANGED <<prompt, closed>>
  PROVE  Once'
<1>1. PICK m0 : m0 = [id |-> sent + 1, task |-> t, to |-> to, corr |-> corr]
  OBVIOUS
<1>2. phase \in [Task -> Phase] /\ call \in [Task -> Call] /\ Loaded \subseteq Agent
  BY RuntimeAssumption DEF RInv, BusInv, TInv, TypeOK, CallsType
<1>3. /\ phase' = [phase EXCEPT ![t] = "record"]
      /\ call' = [call EXCEPT ![t] = [kind |-> "channel", chan |-> c, msg |-> m0]]
      /\ UNCHANGED <<queue, todo, members>>
  BY <1>1 DEF SendToChannel, Begin
<1>4. /\ phase'[t] = "record" /\ call'[t].kind = "channel" /\ call'[t].msg = m0
      /\ \A u \in Task : u # t => phase'[u] = phase[u] /\ call'[u] = call[u]
  BY <1>2, <1>3
<1>5. OnlyChannels'
  BY <1>3, <1>4 DEF Once, OnlyChannels, MembersWith
<1>6. \A a \in Loaded, m \in Message : Due(m, a)' => Due(m, a) \/ m = m0
  BY <1>3, <1>4 DEF Due, Coming
<1>7. m0.id = sent + 1
  BY <1>1
<1>8. sent \in Nat
  BY DEF RInv, BusInv, TInv, TypeOK, CallsType
<1>9. \A i \in closed : i # sent + 1
  BY <1>8 DEF RInv, PromptsType, LogInv, Numbered
<1> SUFFICES ASSUME NEW a \in Loaded
             PROVE  OnceAt(a)'
  BY <1>5 DEF Once
<1>10. OnceDue(a) /\ OnceQueued(a) /\ OnceHeld(a) /\ OnceInLine(a)
  BY DEF Once, OnceAt
<1>11. \A m \in Message : Queued(m, a)' <=> Queued(m, a)
  BY <1>3 DEF Queued
<1>12. \A m \in Message : Queued(m, a) => m # m0
  BY <1>2, <1>7, QueuedIsCarried, CarriedIsSent DEF Queued
<1>13. \A m \in Message : prompt[a] = m => m # m0
  BY <1>7, CarriedIsSent, ConstantsAssumption DEF RInv, Working, Carried
<1>14. OnceDue(a)'
  BY <1>6, <1>7, <1>9, <1>10, <1>11, <1>12, <1>13 DEF OnceDue
<1>15. OnceQueued(a)' /\ OnceHeld(a)'
  BY <1>10, <1>11 DEF OnceQueued, OnceHeld
<1>16. OnceInLine(a)'
  BY <1>3, <1>10 DEF OnceInLine
<1> QED
  BY <1>14, <1>15, <1>16 DEF OnceAt

(* Steps that leave calls and queues alone.                                *)
LEMMA QuietOnce ==
  ASSUME Once, UNCHANGED <<phase, call, todo, members, prompt, closed>>,
         \A a \in Loaded : queue'[a] = queue[a]
  PROVE  Once'
<1>1. OnlyChannels'
  BY DEF Once, OnlyChannels, MembersWith
<1>2. \A a \in Loaded, m \in Message : Due(m, a)' => Due(m, a)
  BY DEF Due, Coming
<1> QED
  BY <1>1, <1>2, StillOnce

(* No step of anybody puts a message in a second place.                    *)
LEMMA OnceKept ==
  ASSUME RInv, Once, [RNext]_rvars
  PROVE  Once'
<1>1. Loaded \subseteq Agent /\ queue \in [Agent -> Seq(Message)]
  BY RuntimeAssumption DEF RInv, BusInv, TInv, TypeOK, QueuesType
<1>2. ASSUME NEW t \in UserTasks, NEW a \in Loaded, NEW c \in ChannelName, Ask(t, a, c)
      PROVE  Once'
  <2>1. t \in Task /\ a \in Agent \cup {NoAgent} /\ 0 \in 0..MaxMsgs
    BY <1>1, RuntimeAssumption, ConstantsAssumption
  <2>2. SendToChannel(t, c, a, 0) /\ UNCHANGED <<prompt, closed>>
    BY <1>2 DEF Ask, handlers
  <2> QED
    BY <2>1, <2>2, SendOnce
<1>3. ASSUME NEW a \in Loaded, Works(a), Reply(a), UNCHANGED <<prompt, closed>>
      PROVE  Once'
  <2>1. PICK i \in 0..MaxMsgs : i = prompt[a].id
    BY <1>3, WorksOnPrompt
  <2>2. Handler[a] \in Task /\ Home[a] \in ChannelName
    BY RuntimeAssumption
  <2>3. SendToChannel(Handler[a], Home[a], NoAgent, i)
    BY <1>3, <2>1 DEF Reply
  <2> QED
    BY <1>3, <2>2, <2>3, SendOnce
<1>4. ASSUME NEW a \in Loaded, HandlerStep(a)
      PROVE  Once'
  <2>1. CASE Take(a)
    BY <2>1, TakeOnce
  <2>2. CASE StreamStarts(a)
    BY <2>2, QuietOnce DEF StreamStarts, busVars, vars
  <2>3. CASE Chunk(a)
    BY <1>3, <2>3 DEF Chunk, Ready, Works
  <2>4. CASE StreamEnds(a) \/ ChunkRefused(a)
    BY <2>4, DoneOnce DEF StreamEnds, ChunkRefused, BecomesIdle, Ready, Works, busVars
  <2>5. CASE Apologise(a)
    <3>1. Works(a) /\ UNCHANGED <<prompt, closed>>
      BY <2>5 DEF Apologise, Ready, Works
    <3>2. Reply(a) \/ UNCHANGED vars
      BY <2>5 DEF Apologise, busVars
    <3> QED
      BY <1>3, <3>1, <3>2, QuietOnce DEF vars
  <2>6. CASE ShowError(a)
    BY <2>6, DoneOnce DEF ShowError, Works, busVars
  <2>7. CASE HandlerStops(a)
    BY <2>7, QuietOnce DEF HandlerStops, calls
  <2> QED
    BY <1>4, <2>1, <2>2, <2>3, <2>4, <2>5, <2>6, <2>7 DEF HandlerStep
<1>5. ASSUME NEW t \in Task, Progress(t), UNCHANGED <<prompt, closed>>
      PROVE  Once'
  BY <1>5, ProgressOnce, DeliverOnce
<1>6. ASSUME BusStep, UNCHANGED handlers
      PROVE  Once'
  <2>1. UNCHANGED <<prompt, closed>>
    BY <1>6 DEF handlers
  <2>2. ASSUME NEW b \in Agent \ Loaded, Receive(b)
        PROVE  Once'
    <3>1. \A a \in Loaded : queue'[a] = queue[a]
      BY <1>1, <2>2 DEF Receive
    <3> QED
      BY <2>1, <2>2, <3>1, QuietOnce DEF Receive, calls
  <2>3. ASSUME NEW s \in Shards, ClearShard(s)
        PROVE  Once'
    BY <2>1, <2>3, QuietOnce DEF ClearShard, calls
  <2> QED
    BY <1>5, <1>6, <2>1, <2>2, <2>3 DEF BusStep
<1>7. CASE RNext
  <2>1. CASE Quit /\ UNCHANGED <<handlers, asked>>
    BY <2>1, QuietOnce DEF Quit, Shutdown, calls, handlers
  <2> QED
    BY <1>2, <1>4, <1>6, <1>7, <2>1 DEF RNext, RuntimeStep
<1>8. CASE UNCHANGED rvars
  BY <1>8, QuietOnce DEF rvars, busVars, vars, handlers
<1> QED
  BY <1>7, <1>8

(* Before the first prompt there is nothing anywhere.                      *)
LEMMA OnceStarts ==
  ASSUME RInit(BusUp)
  PROVE  Once
<1>1. /\ \A t \in Task : phase[t] = "idle"
      /\ \A a \in Agent : queue[a] = <<>>
      /\ \A a \in Loaded : prompt[a] = NoMessage /\ a \in Agent
      /\ closed = {}
  BY RuntimeAssumption DEF RInit, BusUp
<1>2. OnlyChannels
  BY <1>1 DEF OnlyChannels
<1>3. \A a \in Loaded, m \in Message : ~Due(m, a) /\ ~Queued(m, a)
  BY <1>1 DEF Due, Coming, Queued
<1>4. \A a \in Loaded : OnceInLine(a)
  BY <1>1 DEF OnceInLine
<1>5. \A a \in Loaded : OnceDue(a) /\ OnceQueued(a) /\ OnceHeld(a)
  BY <1>1, <1>3 DEF OnceDue, OnceQueued, OnceHeld
<1> QED
  BY <1>2, <1>4, <1>5 DEF Once, OnceAt

(* A set without two members has one at most.                              *)
LEMMA AtMostOne ==
  ASSUME NEW S, \A x, y \in S : x = y
  PROVE  Cardinality(S) \in 0..1 /\ (S = {} => Cardinality(S) = 0)
<1>1. CASE S = {}
  BY <1>1, FS_EmptySet
<1>2. CASE S # {}
  <2>1. PICK x : x \in S
    BY <1>2
  <2>2. S = {x}
    BY <2>1
  <2> QED
    BY <1>2, <2>2, FS_Singleton
<1> QED
  BY <1>1, <1>2

(* The three places a prompt is looked for in.                             *)
LEMMA OnePlace ==
  ASSUME RInv, Once
  PROVE  PromptsTakenOnce
<1> SUFFICES ASSUME NEW i \in Prompts
             PROVE  Cardinality({a \in Loaded : prompt[a] # NoMessage /\ prompt[a].id = i}) +
                    Cardinality({p \in Loaded \X (1..QueueCap) :
                                   /\ p[2] <= Len(queue[p[1]])
                                   /\ queue[p[1]][p[2]].id = i /\ queue[p[1]][p[2]].to = p[1]}) +
                    Cardinality({i} \cap closed) <= 1
  BY DEF PromptsTakenOnce
<1> DEFINE P == {a \in Loaded : prompt[a] # NoMessage /\ prompt[a].id = i}
           Q == {p \in Loaded \X (1..QueueCap) :
                   /\ p[2] <= Len(queue[p[1]])
                   /\ queue[p[1]][p[2]].id = i /\ queue[p[1]][p[2]].to = p[1]}
           C == {i} \cap closed
<1>1. \A a \in Loaded : OnceQueued(a) /\ OnceHeld(a) /\ OnceInLine(a)
  BY DEF Once, OnceAt
<1>2. ASSUME NEW a \in P
      PROVE  /\ a \in Loaded /\ prompt[a] \in Message /\ Carried(prompt[a])
             /\ prompt[a].id = i /\ prompt[a].to = a /\ i \notin closed
  BY <1>1 DEF RInv, HandlersType, Working, Carried, OnceHeld
<1>3. ASSUME NEW p \in Q
      PROVE  LET m == queue[p[1]][p[2]]
             IN  /\ p[1] \in Loaded /\ p[2] \in 1..Len(queue[p[1]]) /\ p = <<p[1], p[2]>>
                 /\ m \in Message /\ Carried(m) /\ m.id = i /\ m.to = p[1]
                 /\ i \notin closed /\ prompt[p[1]] # m
  <2>1. /\ p[1] \in Loaded /\ p[2] \in 1..QueueCap /\ p = <<p[1], p[2]>>
        /\ p[2] <= Len(queue[p[1]])
        /\ queue[p[1]][p[2]].id = i /\ queue[p[1]][p[2]].to = p[1]
    OBVIOUS
  <2>2. p[1] \in Agent /\ queue \in [Agent -> Seq(Message)] /\ QueueCap \in Nat
    BY <2>1, RuntimeAssumption, ConstantsAssumption DEF RInv, BusInv, TInv, TypeOK, QueuesType
  <2>3. p[2] \in 1..Len(queue[p[1]])
    BY <2>1, <2>2
  <2>4. PICK m : m = queue[p[1]][p[2]]
    OBVIOUS
  <2>5. m \in Message /\ Carried(m) /\ Queued(m, p[1])
    BY <2>2, <2>3, <2>4, QueuedIsCarried
  <2>6. prompt[p[1]] # m /\ m.id \notin closed
    BY <1>1, <2>1, <2>4, <2>5 DEF OnceQueued
  <2> QED
    BY <2>1, <2>3, <2>4, <2>5, <2>6
<1>4. \A x, y \in P : x = y
  <2>1. ASSUME NEW x \in P, NEW y \in P
        PROVE  x = y
    <3>1. prompt[x] = prompt[y]
      BY <1>2, OneOfANumber
    <3> QED
      BY <1>2, <3>1
  <2> QED
    BY <2>1
<1>5. \A x, y \in Q : x = y
  <2>1. ASSUME NEW x \in Q, NEW y \in Q
        PROVE  x = y
    <3>1. queue[x[1]][x[2]] = queue[y[1]][y[2]]
      BY <1>3, OneOfANumber
    <3>2. x[1] = y[1]
      BY <1>3, <3>1
    <3>3. x[2] = y[2]
      BY <1>1, <1>3, <3>1, <3>2 DEF OnceInLine
    <3> QED
      BY <1>3, <3>2, <3>3
  <2> QED
    BY <2>1
<1>6. \A x, y \in C : x = y
  OBVIOUS
<1>7. P = {} \/ Q = {}
  <2>1. ASSUME NEW a \in P, NEW p \in Q
        PROVE  FALSE
    <3>1. prompt[a] = queue[p[1]][p[2]]
      BY <1>2, <1>3, OneOfANumber
    <3>2. a = p[1]
      BY <1>2, <1>3, <3>1
    <3> QED
      BY <1>3, <3>1, <3>2
  <2> QED
    BY <2>1
<1>8. C # {} => P = {} /\ Q = {}
  BY <1>2, <1>3
<1> HIDE DEF P, Q, C
<1>9. Cardinality(P) \in 0..1 /\ Cardinality(Q) \in 0..1 /\ Cardinality(C) \in 0..1
  BY <1>4, <1>5, <1>6, AtMostOne
<1>10. /\ P = {} => Cardinality(P) = 0
       /\ Q = {} => Cardinality(Q) = 0
       /\ C = {} => Cardinality(C) = 0
  BY <1>4, <1>5, <1>6, AtMostOne
<1>11. Cardinality(P) + Cardinality(Q) + Cardinality(C) <= 1
  BY <1>7, <1>8, <1>9, <1>10
<1> QED
  BY <1>11 DEF P, Q, C

(* No prompt is worked on twice or by two agents: it is in one queue once, *)
(* or answered, or done with, however its send and the answers of the      *)
(* other agents of the channel interleave (runtime.rs:237-273).            *)
THEOREM PromptsCorrect == RSpec => []PromptsTakenOnce
<1>1. RInit(BusUp) => RInv /\ Once
  BY RuntimeStarts, OnceStarts
<1>2. RInv /\ Once /\ [RNext]_rvars => RInv' /\ Once'
  BY RuntimeKeeps, OnceKept
<1>3. RInv /\ Once => PromptsTakenOnce
  BY OnePlace
<1> QED
  BY <1>1, <1>2, <1>3, PTL DEF RSpec
-----------------------------------------------------------------------------
(* What the last chunk of an answer leaves behind.  No step of the runtime *)
(* deletes a channel, so the home channels stay if they are there before   *)
(* the first prompt: the loader creates those an agent joins               *)
(* (runtime.rs:181-183), and the terminal then "general" (main.rs:368).    *)
HomesUp == BusUp /\ \A a \in Loaded : Home[a] \in channels

HeardSpec == RInit(HomesUp) /\ [][RNext]_rvars

(* The handler's chunk is not on the feed yet, and on its way there.       *)
Underway(a) ==
  /\ phase[Handler[a]] \in {"record", "announce"}
  /\ call[Handler[a]].kind = "channel"
  /\ call[Handler[a]].chan = Home[a]
  /\ call[Handler[a]].msg.corr = prompt[a].id

(* An agent that has sent a chunk has answered, or will.                   *)
HeardAt(a) ==
  handler[a] \in {"starting", "streaming"} /\ chunks[a] > 0
    => Answered(prompt[a].id) \/ Underway(a)

Heard == \A a \in Loaded : Home[a] \in channels /\ HeardAt(a)

(* Each agent has a task of its own.                                       *)
LEMMA HandlersApart ==
  ASSUME NEW a \in Loaded, NEW b \in Loaded, Handler[a] = Handler[b]
  PROVE  a = b
BY RuntimeAssumption

(* What has been answered stays so while the feed grows ...                *)
LEMMA StaysAnswered ==
  ASSUME RInv, [Next]_vars, NEW i, Answered(i)
  PROVE  Answered(i)'
<1>1. TInv
  BY DEF RInv, BusInv
<1>2. PICK m \in Message : Announced(m) /\ m.corr = i
  <2>1. PICK j \in 1..Len(feed) : feed[j].corr = i
    BY DEF Answered
  <2>2. feed[j] \in Message /\ Announced(feed[j])
    BY <1>1, <2>1 DEF TInv, TypeOK, LogsType, Announced
  <2> QED
    BY <2>1, <2>2
<1>3. Announced(m)'
  BY <1>1, <1>2, FeedGrows
<1> QED
  BY <1>2, <1>3 DEF Announced, Answered

(* ... and a step of the bus brings a chunk that is under way to the feed. *)
LEMMA PassiveHeard ==
  ASSUME RInv, Passive, NEW a \in Loaded, Home[a] \in channels, HeardAt(a),
         handler'[a] = handler[a], chunks'[a] = chunks[a], prompt'[a] = prompt[a]
  PROVE  HeardAt(a)'
<1> DEFINE t == Handler[a]
           i == prompt[a].id
<1>1. t \in Task /\ phase \in [Task -> Phase] /\ call \in [Task -> Call] /\ feed \in Seq(Message)
      /\ CallOK
  BY RuntimeAssumption DEF RInv, BusInv, TInv, TypeOK, CallsType, LogsType
<1>2. SUFFICES ASSUME handler[a] \in {"starting", "streaming"}, chunks[a] > 0
               PROVE  Answered(i)' \/ Underway(a)'
  BY DEF HeardAt
<1>3. CASE Answered(i)
  BY <1>3, StaysAnswered, PassiveIsNext
<1>4. CASE Underway(a)
  <2>1. /\ phase[t] \in {"record", "announce"} /\ call[t].kind = "channel"
        /\ call[t].chan = Home[a] /\ call[t].msg.corr = i
    BY <1>4 DEF Underway
  <2>2. CASE phase'[t] = phase[t] /\ call'[t] = call[t]
    BY <2>1, <2>2 DEF Underway
  <2>3. CASE RecordChannel(t)
    <3>1. GoesTo(t, "announce")
      BY <2>1, <2>3 DEF RecordChannel
    <3> QED
      BY <1>1, <2>1, <3>1 DEF GoesTo, Underway
  <2>4. CASE Announce(t)
    <3>1. feed' = Append(feed, call[t].msg) /\ call[t].msg \in Message
      BY <1>1, <2>4 DEF Announce, CallOK, Sending
    <3>2. Len(feed) + 1 \in 1..Len(feed') /\ feed'[Len(feed) + 1] = call[t].msg
      BY <1>1, <3>1
    <3> QED
      BY <2>1, <3>2 DEF Answered
  <2>5. ASSUME NEW s \in Task, Progress(s)
        PROVE  \/ RecordChannel(t)
               \/ Announce(t)
               \/ phase'[t] = phase[t] /\ call'[t] = call[t]
    <3>1. CASE s = t
      BY <2>1, <2>5, <3>1
         DEF Progress, Record, Deliver, Wait, Skip, ServeNotify, Return, Listen, ReadFeed,
             Timeout, Delivering
    <3>2. CASE s # t
      BY <1>1, <2>5, <3>2
         DEF Progress, Record, RecordChannel, Announce, Deliver, Wait, Skip, ServeNotify,
             Return, Listen, ReadFeed, Timeout, GoesTo, Ends, calls
    <3> QED
      BY <3>1, <3>2
  <2> QED
    BY <2>2, <2>3, <2>4, <2>5 DEF Passive, Receive, ClearShard, Shutdown, vars, calls
<1> QED
  BY <1>2, <1>3, <1>4 DEF HeardAt

(* A send of another task leaves it where it is.                           *)
LEMMA SendHeard ==
  ASSUME RInv, NEW a \in Loaded, HeardAt(a), NEW t \in Task, t # Handler[a],
         NEW c \in ChannelName, NEW to, NEW i, SendToChannel(t, c, to, i),
         handler'[a] = handler[a], chunks'[a] = chunks[a], prompt'[a] = prompt[a]
  PROVE  HeardAt(a)'
<1>1. Handler[a] \in Task /\ phase \in [Task -> Phase] /\ call \in [Task -> Call]
  BY RuntimeAssumption DEF RInv, BusInv, TInv, TypeOK, CallsType
<1>2. feed' = feed /\ phase'[Handler[a]] = phase[Handler[a]] /\ call'[Handler[a]] = call[Handler[a]]
  BY <1>1 DEF SendToChannel, Begin
<1> QED
  BY <1>2 DEF HeardAt, Answered, Underway

(* Every step keeps it ...                                                 *)
LEMMA HeardKept ==
  ASSUME RInv, Heard, [RNext]_rvars
  PROVE  Heard'
<1>1. channels' = channels
  BY ZenonT(40) DEF RNext, RuntimeStep, BusStep, Quit, HandlerStep, Ask, Take, StreamStarts, Chunk,
         StreamEnds, ChunkRefused, Apologise, ShowError, HandlerStops, Reply, SendToChannel,
         Begin, Progress, Record, RecordChannel, Announce, Deliver, Wait, Skip, ServeNotify,
         Return, Listen, ReadFeed, Timeout, Receive, ClearShard, Shutdown, rvars, busVars, vars
<1>2. HandlersType
  BY DEF RInv
<1>3. SUFFICES ASSUME NEW a \in Loaded
               PROVE  HeardAt(a)'
  BY <1>1, <1>3 DEF Heard
<1>4. HeardAt(a) /\ Home[a] \in channels
  BY DEF Heard
<1>5. ASSUME Passive, UNCHANGED <<handler, chunks, prompt>>
      PROVE  HeardAt(a)'
  BY <1>4, <1>5, PassiveHeard
<1>6. ASSUME NEW t \in UserTasks, NEW b \in Loaded, NEW c \in ChannelName, Ask(t, b, c)
      PROVE  HeardAt(a)'
  <2>1. t \in Task /\ t # Handler[a]
    BY RuntimeAssumption
  <2> QED
    BY <1>4, <1>6, <2>1, SendHeard DEF Ask, handlers
<1>7. ASSUME NEW b \in Loaded, HandlerStep(b), b # a
      PROVE  HeardAt(a)'
  <2>1. handler'[a] = handler[a] /\ chunks'[a] = chunks[a] /\ prompt'[a] = prompt[a]
    BY <1>2, <1>7
       DEF HandlersType, HandlerStep, Take, StreamStarts, Chunk, StreamEnds, ChunkRefused,
           Apologise, ShowError, HandlerStops, BecomesIdle, Done
  <2>2. Handler[b] \in Task /\ Handler[b] # Handler[a] /\ Home[b] \in ChannelName /\ b \in Agent
    BY <1>7, HandlersApart, RuntimeAssumption
  <2>3. CASE Reply(b)
    BY <1>4, <2>1, <2>2, <2>3, SendHeard DEF Reply
  <2>4. CASE Passive
    BY <1>4, <2>1, <2>4, PassiveHeard
  <2>5. CASE HandlerStops(b)
    BY <1>4, <2>1, <2>5 DEF HandlerStops, calls, HeardAt, Answered, Underway
  <2> QED
    BY <1>7, <2>2, <2>3, <2>4, <2>5
       DEF HandlerStep, Take, StreamStarts, Chunk, StreamEnds, ChunkRefused, Apologise,
           ShowError, busVars, Passive
<1>8. ASSUME HandlerStep(a)
      PROVE  HeardAt(a)'
  <2>1. CASE Take(a)
    <3>1. CASE Head(queue[a]).to = a
      <4>1. chunks'[a] = 0
        BY <1>2, <2>1, <3>1 DEF Take, HandlersType
      <4> QED
        BY <4>1 DEF HeardAt
    <3>2. CASE Head(queue[a]).to # a
      <4>1. UNCHANGED <<handler, chunks, prompt>> /\ Receive(a) /\ a \in Agent
        BY <2>1, <3>2, RuntimeAssumption DEF Take
      <4> QED
        BY <1>5, <4>1 DEF Passive
    <3> QED
      BY <3>1, <3>2
  <2>2. CASE StreamStarts(a)
    <3>1. UNCHANGED <<vars, prompt, chunks>> /\ handler[a] = "starting"
      BY <2>2 DEF StreamStarts, busVars
    <3>2. HeardAt(a) => (chunks[a] > 0 => Answered(prompt[a].id) \/ Underway(a))
      BY <3>1 DEF HeardAt
    <3> QED
      BY <1>4, <3>1, <3>2 DEF HeardAt, Answered, Underway, vars, calls
  <2>3. CASE Chunk(a)
    <3>1. /\ phase' = [phase EXCEPT ![Handler[a]] = "record"]
          /\ call' = [call EXCEPT ![Handler[a]] =
                        [kind |-> "channel", chan |-> Home[a],
                         msg |-> [id |-> sent + 1, task |-> Handler[a], to |-> NoAgent,
                                  corr |-> prompt[a].id]]]
          /\ prompt' = prompt
      BY <2>3 DEF Chunk, Reply, SendToChannel, Begin
    <3>2. Handler[a] \in Task /\ phase \in [Task -> Phase] /\ call \in [Task -> Call]
      BY RuntimeAssumption DEF RInv, BusInv, TInv, TypeOK, CallsType
    <3>3. Underway(a)'
      BY <3>1, <3>2 DEF Underway
    <3> QED
      BY <3>3 DEF HeardAt
  <2>4. CASE StreamEnds(a) \/ ChunkRefused(a) \/ Apologise(a) \/ ShowError(a) \/ HandlerStops(a)
    <3>1. handler'[a] \notin {"starting", "streaming"}
      BY <1>2, <2>4
         DEF HandlersType, StreamEnds, ChunkRefused, Apologise, ShowError, HandlerStops,
             BecomesIdle, Done
    <3> QED
      BY <3>1 DEF HeardAt
  <2> QED
    BY <1>8, <2>1, <2>2, <2>3, <2>4 DEF HandlerStep
<1>9. BusStep \/ Quit \/ UNCHANGED vars => Passive
  BY DEF BusStep, Quit, Passive
<1> QED
  BY <1>5, <1>6, <1>7, <1>8, <1>9 DEF RNext, RuntimeStep, rvars, busVars, handlers

(* ... and none turns an agent Idle that has not been heard.               *)
LEMMA IdleHeard ==
  ASSUME RInv, Heard, [RNext]_rvars, NEW a \in Loaded, activity[a] = "Thinking",
         activity'[a] = "Idle", running
  PROVE  Answered(prompt[a].id)
<1>1. activity \in [Loaded -> Activity]
  BY DEF RInv, HandlersType
<1>2. StreamEnds(a) \/ ChunkRefused(a)
  <2>1. PICK b \in Loaded : HandlerStep(b)
    BY DEF RNext, RuntimeStep, rvars, handlers, Ask
  <2>2. b = a
    BY <1>1, <2>1
       DEF HandlerStep, Take, StreamStarts, Chunk, StreamEnds, ChunkRefused, Apologise,
           ShowError, HandlerStops, BecomesIdle
  <2> QED
    BY <1>1, <2>1, <2>2
       DEF HandlerStep, Take, StreamStarts, Chunk, Apologise, ShowError, HandlerStops
<1>3. ~ChunkRefused(a)
  BY DEF Heard, ChunkRefused, Refuses
<1>4. handler[a] = "streaming" /\ phase[Handler[a]] = "idle" /\ chunks[a] > 0
  BY <1>2, <1>3 DEF StreamEnds, Ready
<1> QED
  BY <1>4 DEF Heard, HeardAt, Underway

(* An agent that turns Idle has published an answer to its prompt, unless  *)
(* the bus was stopped: the handler comes back from a chunk's send when it *)
(* is on the feed, whatever the other tasks do (runtime.rs:370-417).       *)
THEOREM IdleCorrect == HeardSpec => IdleMeansAnswered
<1>1. RInit(HomesUp) => RInv /\ Heard
  <2>1. RInit(HomesUp) => RInit(BusUp) /\ \A a \in Loaded : Home[a] \in channels /\ chunks[a] = 0
    BY DEF RInit, HomesUp
  <2> QED
    BY <2>1, RuntimeStarts DEF Heard, HeardAt
<1>2. RInv /\ Heard /\ [RNext]_rvars => RInv' /\ Heard'
  BY RuntimeKeeps, HeardKept
<1>3. RInv /\ Heard /\ [RNext]_rvars
        => [\A a \in Loaded :
              activity[a] = "Thinking" /\ activity'[a] = "Idle" /\ running
                => Answered(prompt[a].id)]_rvars
  BY IdleHeard
<1> QED
  BY <1>1, <1>2, <1>3, PTL DEF HeardSpec, IdleMeansAnswered

=============================================================================
