----------------------- MODULE MemoryPipeline_proofs -----------------------
(***************************************************************************)
(* Theorems about the way from claims to evidence, for any users, texts,   *)
(* limits, faults and crashes.  The invariant follows a verdict from the   *)
(* rule that gave it to the row it is written to:                          *)
(*                                                                         *)
(*   Numbers      what is queued or in a call was sent                     *)
(*   RowsOK       rows are made from claims that were sent                 *)
(*   VerdictsOK   a verdict of the rule fits the claim it is about         *)
(*   AtWork       what verifier and writer have in hand is theirs to do    *)
(*                                                                         *)
(* and, for the refinement of the evidence table's lifecycle, a claim to   *)
(* the one row it becomes:                                                 *)
(*                                                                         *)
(*   LinesOK      calls are sends to Full members, each with its message   *)
(*   Apart        a message is on its way to the writer or queued, once    *)
(*   Fresh        until it is stored it has no row                         *)
(***************************************************************************)
EXTENDS MemoryPipeline, MessageBus_proofs, FiniteSetTheorems, FunctionTheorems

Numbers ==
  /\ \A a \in Agent : \A i \in 1..Len(queue[a]) : queue[a][i].id \in 1..sent
  /\ \A t \in Task : phase[t] \in Sending => call[t].msg.id \in 1..sent

RowsOK ==
  \A r \in 1..MaxMsgs : row[r] # "none" => r \in 1..sent /\ payload[r].kind \in Claims

Fits(p) ==
  p.by = "rule" =>
    /\ p.kind = "verify" => p.of \in 1..sent /\ payload[p.of].kind = "pass"
    /\ p.kind = "reject" => p.of \in 1..sent /\ payload[p.of].kind = "fail"

VerdictsOK == \A i \in 1..sent : Fits(payload[i])

AtWork ==
  /\ \A r \in work : payload[r].kind \in {"pass", "fail"}
  /\ writer = "failing" => payload[job].kind = "reject"
  /\ main = "boot" => writer = "none"

MInv ==
  /\ TInv
  /\ MemoryTypeOK
  /\ Numbers
  /\ RowsOK
  /\ VerdictsOK
  /\ AtWork
  /\ VerdictsFit

-----------------------------------------------------------------------------
(* The oldest rows are no more than were asked for: the number of older    *)
(* rows tells them apart.                                                  *)
LEMMA OldestLimited ==
  ASSUME NEW limit \in Nat
  PROVE  /\ IsFiniteSet(Oldest(limit))
         /\ Cardinality(Oldest(limit)) <= limit
<1> DEFINE Older(r) == {q \in Pending : q < r}
           rank == [r \in Oldest(limit) |-> Cardinality(Older(r))]
<1>0. MaxMsgs \in Nat
  BY ConstantsAssumption
<1>1. Pending \subseteq 1..MaxMsgs /\ IsFiniteSet(Pending)
  <2>1. Pending \in SUBSET (1..MaxMsgs)
    BY DEF Pending
  <2>2. IsFiniteSet(1..MaxMsgs)
    BY <1>0, FS_Interval
  <2> QED
    BY <2>1, <2>2, FS_Subset
<1>8. \A r \in Pending : r \in Nat
  BY <1>0, <1>1
<1>2. \A r \in Pending : IsFiniteSet(Older(r)) /\ Cardinality(Older(r)) \in Nat
  BY <1>1, FS_Subset, FS_CardinalityType
<1>3. Oldest(limit) \subseteq Pending
      /\ \A r \in Oldest(limit) : Cardinality(Older(r)) < limit
  BY DEF Oldest
<1>4. ASSUME NEW r \in Oldest(limit), NEW s \in Oldest(limit), r < s
      PROVE  rank[r] # rank[s]
  <2>1. r \in Older(s) /\ r \notin Older(r) /\ Older(r) \subseteq Older(s)
    BY <1>3, <1>8, <1>4
  <2>2. Cardinality(Older(r)) # Cardinality(Older(s))
    BY <1>2, <1>3, <2>1, FS_Subset
  <2> QED
    BY <2>2
<1>5. rank \in [Oldest(limit) -> 0..(limit - 1)]
  BY <1>2, <1>3
<1>6. rank \in Injection(Oldest(limit), 0..(limit - 1))
  <2>1. \A r, s \in Oldest(limit) : r < s \/ s < r \/ r = s
    BY <1>3, <1>8
  <2> HIDE DEF rank
  <2>2. \A r, s \in Oldest(limit) : rank[r] = rank[s] => r = s
    BY <1>4, <2>1
  <2> QED
    BY <1>5, <2>2, Fun_IsInj
<1>7. IsFiniteSet(0..(limit - 1)) /\ Cardinality(0..(limit - 1)) = limit
  BY FS_Interval
<1> HIDE DEF rank
<1> QED
  BY <1>6, <1>7, FS_Injection

-----------------------------------------------------------------------------
(* The pipeline begins well typed.                                         *)
LEMMA PipelineStarts == PInit => MInv
<1> SUFFICES ASSUME PInit
             PROVE  MInv
  OBVIOUS
<1> USE ConstantsAssumption, PipelineAssumption
<1>1. TInv
  BY InitTyped DEF PInit
<1>2. MemoryTypeOK
  BY FS_EmptySet DEF PInit, Init, MemoryTypeOK
<1>3. Numbers
  BY DEF PInit, Init, Numbers, Sending, Delivering
<1>4. RowsOK /\ VerdictsFit
  BY DEF PInit, RowsOK, VerdictsFit
<1>5. VerdictsOK /\ AtWork
  BY DEF PInit, Init, VerdictsOK, AtWork
<1> QED
  BY <1>1, <1>2, <1>3, <1>4, <1>5 DEF MInv
-----------------------------------------------------------------------------
(* Steps of the bus that begin no send.                                    *)
Calm ==
  \/ Start
  \/ Shutdown
  \/ \E a \in Agent : Subscribe(a) \/ Receive(a) \/ JoinChannel(a, General, "Full")
  \/ CreateCheck(Main, General)
  \/ CreateInsert(Main)
  \/ CreateHistory(Main)
  \/ \E s \in Shards : ClearShard(s)
  \/ \E t \in Task : Progress(t)
  \/ UNCHANGED vars

(* They keep the types, and hand around what was sent.                     *)
LEMMA CalmTyped ==
  ASSUME TInv, Calm
  PROVE  TInv' /\ sent' = sent
<1>1. [Next]_vars
  BY PipelineAssumption
     DEF Calm, Next, Lifecycle, Subscription, Administration, Membership, Visibility
<1>2. sent' = sent
  BY DEF Calm, vars, calls, Start, Shutdown, Subscribe, Receive, JoinChannel, CreateCheck,
         CreateInsert, CreateHistory, ClearShard, Progress, Record, RecordChannel, Announce,
         Deliver, Wait, Skip, ServeNotify, Return, Listen, ReadFeed, Timeout
<1> QED
  BY <1>1, <1>2, TypeStep

LEMMA CalmNumbers ==
  ASSUME TInv, Numbers, Calm
  PROVE  Numbers'
<1>1. /\ phase \in [Task -> Phase]
      /\ call \in [Task -> Call]
      /\ queue \in [Agent -> Seq(Message)]
  BY DEF TInv, TypeOK, CallsType, QueuesType
<1>2. sent' = sent
  BY CalmTyped
<1>3. ASSUME NEW t \in Task, phase'[t] \in Sending
      PROVE  phase[t] \in Sending /\ call'[t] = call[t]
  <2> USE <1>1, <1>3 DEF Sending, Delivering
  <2>1. ASSUME NEW u \in Task, Record(u) \/ RecordChannel(u) \/ ServeNotify(u) \/ Return(u)
                               \/ Listen(u) \/ ReadFeed(u) \/ Timeout(u) \/ Announce(u)
        PROVE  phase[t] \in Sending /\ call'[t] = call[t]
    BY <2>1 DEF Record, RecordChannel, ServeNotify, Return, Listen, ReadFeed, Timeout, Announce,
                GoesTo, Ends
  <2>2. CASE CreateCheck(Main, General) \/ CreateInsert(Main) \/ CreateHistory(Main)
    BY <2>2, PipelineAssumption DEF CreateCheck, CreateInsert, CreateHistory, GoesTo, Ends
  <2>3. CASE UNCHANGED <<phase, call>>
    BY <2>3
  <2> QED
    BY <2>1, <2>2, <2>3
       DEF Calm, Progress, vars, calls, Start, Shutdown, Subscribe, Receive, JoinChannel,
           ClearShard, Deliver, Wait, Skip
<1>4. ASSUME NEW a \in Agent, NEW i \in 1..Len(queue'[a])
      PROVE  queue'[a][i].id \in 1..sent
  <2>1. CASE queue' = queue
    BY <1>4, <2>1 DEF Numbers
  <2>2. ASSUME NEW b \in Agent, Subscribe(b)
        PROVE  queue'[a][i].id \in 1..sent
    BY <1>1, <1>4, <2>2 DEF Subscribe, Numbers
  <2>3. ASSUME NEW b \in Agent, Receive(b)
        PROVE  queue'[a][i].id \in 1..sent
    <3>1. CASE a = b
      <4>1. queue[a] \in Seq(Message) /\ queue[a] # <<>> /\ queue'[a] = Tail(queue[a])
        BY <1>1, <2>3, <3>1 DEF Receive
      <4>2. i + 1 \in 1..Len(queue[a]) /\ queue'[a][i] = queue[a][i + 1]
        BY <1>4, <4>1
      <4> QED
        BY <4>2 DEF Numbers
    <3>2. CASE a # b
      BY <1>1, <1>4, <2>3, <3>2 DEF Receive, Numbers
    <3> QED
      BY <3>1, <3>2
  <2>4. ASSUME NEW t \in Task, NEW b \in Agent, Deliver(t, b)
        PROVE  queue'[a][i].id \in 1..sent
    <3>1. call[t].msg.id \in 1..sent /\ call[t].msg \in Message
      BY <2>4 DEF Deliver, Numbers, TInv, CallOK, Sending
    <3>2. CASE a = b
      <4>1. queue[a] \in Seq(Message) /\ queue'[a] = Append(queue[a], call[t].msg)
        BY <1>1, <2>4, <3>2 DEF Deliver
      <4>2. \/ i \in 1..Len(queue[a]) /\ queue'[a][i] = queue[a][i]
            \/ queue'[a][i] = call[t].msg
        BY <1>4, <3>1, <4>1
      <4> QED
        BY <3>1, <4>2 DEF Numbers
    <3>3. CASE a # b
      BY <1>1, <1>4, <2>4, <3>3 DEF Deliver, Numbers
    <3> QED
      BY <3>2, <3>3
  <2> QED
    BY <2>1, <2>2, <2>3, <2>4
       DEF Calm, Progress, vars, calls, maps, Start, Shutdown, JoinChannel, CreateCheck,
           CreateInsert, CreateHistory, ClearShard, Record, RecordChannel, Announce, Wait, Skip,
           ServeNotify, Return, Listen, ReadFeed, Timeout
<1> QED
  BY <1>2, <1>3, <1>4 DEF Numbers

(* With the payloads and rows at rest, everything said of them stays.      *)
Facts == RowsOK /\ VerdictsOK /\ VerdictsFit

LEMMA FactsStay ==
  ASSUME Facts, sent' = sent, payload' = payload, row' = row
  PROVE  Facts'
BY DEF Facts, RowsOK, VerdictsOK, VerdictsFit, Fits, JudgedByUser

(* Starting up, quitting, taking a message and the bus' own steps.         *)
Resting == UNCHANGED <<payload, table, work, hasty, crashes>>

LEMMA RestKeeps ==
  ASSUME MInv, Calm, Resting,
         main' \in {"boot", "loading", "creating", "joining", "up", "quit", "over"},
         main' = "boot" => main = "boot" /\ (writer' = writer \/ writer # "none"),
         \/ UNCHANGED <<writer, job>>
         \/ /\ writer' \in {"none", "spawned", "subscribed", "receiving"}
            /\ writer \notin {"storing", "failing"}
            /\ job' = job
         \/ writer' = "storing" /\ job' \in 1..sent
  PROVE  MInv'
<1>1. TInv' /\ sent' = sent
  BY CalmTyped DEF MInv
<1>2. Numbers'
  BY CalmNumbers DEF MInv
<1>3. Facts'
  BY <1>1, FactsStay DEF MInv, Facts, Resting, table
<1>4. MemoryTypeOK'
  BY <1>1 DEF MInv, MemoryTypeOK, Resting, table
<1>5. AtWork'
  BY DEF MInv, AtWork, Resting, table
<1> QED
  BY <1>1, <1>2, <1>3, <1>4, <1>5 DEF MInv, Facts

LEMMA StartupKeeps ==
  ASSUME MInv, Startup
  PROVE  MInv'
<1> USE PipelineAssumption DEF Resting
<1>1. MemoryTypeOK /\ (main = "boot" => writer = "none")
  BY DEF MInv, AtWork
<1>2. CASE HubStarts
  BY <1>1, <1>2, RestKeeps DEF HubStarts, Calm, MemoryTypeOK
<1>3. CASE UserSubscribes
  BY <1>1, <1>3, RestKeeps DEF UserSubscribes, Calm
<1>4. CASE CreateGeneral
  BY <1>1, <1>4, RestKeeps DEF CreateGeneral, Calm
<1>5. CASE UserJoins
  BY <1>1, <1>5, RestKeeps DEF UserJoins, Calm
<1>6. CASE WriterSubscribes
  BY <1>1, <1>6, RestKeeps DEF WriterSubscribes, Calm, MemoryTypeOK
<1>7. CASE WriterJoins
  BY <1>1, <1>7, RestKeeps DEF WriterJoins, Calm, MemoryTypeOK, busVars
<1> QED
  BY <1>2, <1>3, <1>4, <1>5, <1>6, <1>7 DEF Startup

-----------------------------------------------------------------------------
(* A broadcast adds one payload; a fitting one leaves all facts as they    *)
(* are.                                                                    *)
Others == UNCHANGED <<table, main, writer, job, hasty, crashes>>

LEMMA BroadcastKeeps ==
  ASSUME MInv, Others, NEW t \in Task, NEW p \in Payloads, Broadcast(t, p),
         Fits(p), work' \subseteq work
  PROVE  MInv'
<1> USE ConstantsAssumption, PipelineAssumption
<1>1. SendToChannel(t, General, NoAgent, 0) /\ payload' = Append(payload, p)
  BY DEF Broadcast
<1>2. TInv'
  BY <1>1, SendTyped DEF MInv
<1>3. sent \in Nat /\ sent' = sent + 1
  BY <1>1 DEF MInv, TInv, TypeOK, CallsType, SendToChannel, Begin
<1>4. /\ payload \in Seq(Payloads) /\ Len(payload) = sent
      /\ work \subseteq 1..sent /\ Cardinality(work) <= PollLimit
  BY DEF MInv, MemoryTypeOK
<1>5. /\ payload' \in Seq(Payloads) /\ Len(payload') = sent'
      /\ \A i \in 1..sent : payload'[i] = payload[i]
      /\ payload'[sent'] = p
  BY <1>1, <1>3, <1>4
<1>6. Numbers'
  <2>1. /\ phase \in [Task -> Phase] /\ call \in [Task -> Call]
    BY DEF MInv, TInv, TypeOK, CallsType
  <2>2. \A u \in Task : u # t => phase'[u] = phase[u] /\ call'[u] = call[u]
    BY <1>1, <2>1 DEF SendToChannel, Begin
  <2>3. call'[t].msg.id = sent + 1 /\ queue' = queue
    BY <1>1, <2>1 DEF SendToChannel, Begin
  <2>4. \A a \in Agent : \A i \in 1..Len(queue[a]) : queue'[a][i].id \in 1..sent'
    BY <1>3, <2>3 DEF MInv, Numbers
  <2>5. \A u \in Task : phase'[u] \in Sending => call'[u].msg.id \in 1..sent'
    <3> SUFFICES ASSUME NEW u \in Task, phase'[u] \in Sending
                 PROVE  call'[u].msg.id \in 1..sent'
      OBVIOUS
    <3>1. CASE u = t
      BY <1>3, <2>3, <3>1
    <3>2. CASE u # t
      BY <1>3, <2>2, <3>2 DEF MInv, Numbers
    <3> QED
      BY <3>1, <3>2
  <2> QED
    BY <2>3, <2>4, <2>5 DEF Numbers
<1>7. MemoryTypeOK'
  <2>1. IsFiniteSet(work)
    <3>1. IsFiniteSet(1..sent)
      BY <1>3, FS_Interval
    <3> QED
      BY <1>4, <3>1, FS_Subset
  <2>2. Cardinality(work') <= Cardinality(work)
        /\ Cardinality(work) \in Nat /\ Cardinality(work') \in Nat
    BY <2>1, FS_Subset, FS_CardinalityType
  <2>3. Cardinality(work') <= PollLimit /\ work' \subseteq 1..Len(payload')
    <3>1. Cardinality(work') <= PollLimit
      <4>1. PollLimit \in Nat
        BY DEF PipelineAssumption
      <4> HIDE DEF PipelineAssumption
      <4> QED
        BY <1>4, <2>2, <4>1
    <3>2. 1..sent \subseteq 1..sent'
      BY <1>3
    <3> QED
      BY <1>4, <1>5, <3>1, <3>2
  <2>4. job' \in 0..Len(payload')
    BY <1>3, <1>4, <1>5 DEF MInv, MemoryTypeOK, Others
  <2> QED
    BY <1>5, <2>3, <2>4 DEF MInv, MemoryTypeOK, Others, table
<1>8. RowsOK'
  BY <1>3, <1>5 DEF MInv, RowsOK, Others, table
<1>9. VerdictsOK'
  <2>1. \A i \in 1..sent : Fits(payload[i])'
    <3> SUFFICES ASSUME NEW i \in 1..sent PROVE Fits(payload[i])'
      OBVIOUS
    <3>1. Fits(payload[i]) /\ payload'[i] = payload[i]
      BY <1>5 DEF MInv, VerdictsOK
    <3> QED
      BY <1>3, <1>5, <3>1 DEF Fits
  <2>2. Fits(payload[sent])'
    BY <1>3, <1>4, <1>5 DEF Fits
  <2>3. \A i \in 1..sent' : i \in 1..sent \/ i = sent'
    BY <1>3
  <2> QED
    BY <2>1, <2>2, <2>3 DEF VerdictsOK
<1>10. AtWork'
  BY <1>3, <1>4, <1>5 DEF MInv, AtWork, Others, MemoryTypeOK
<1>11. VerdictsFit'
  <2>1. \A r, kind : JudgedByUser(r, kind) => JudgedByUser(r, kind)'
    BY <1>3, <1>4, <1>5 DEF JudgedByUser
  <2> QED
    BY <1>5, <2>1 DEF MInv, VerdictsFit, RowsOK, Others, table
<1> QED
  BY <1>2, <1>6, <1>7, <1>8, <1>9, <1>10, <1>11 DEF MInv

LEMMA UserKeeps ==
  ASSUME MInv,
         \/ \E t \in UserTasks, text \in Texts : Say(t, text)
         \/ \E t \in UserTasks, r \in 1..MaxMsgs, kind \in {"verify", "reject"} :
              HumanVerdict(t, r, kind)
  PROVE  MInv'
<1> USE PipelineAssumption
<1>1. ASSUME NEW t \in UserTasks, NEW text \in Texts, Say(t, text)
      PROVE  MInv'
  <2>1. Said(text) \in Payloads
    BY DEF Payloads
  <2>2. Fits(Said(text))
    BY DEF Said, Fits
  <2> QED
    BY <1>1, <2>1, <2>2, BroadcastKeeps DEF Say, Others, local
<1>2. ASSUME NEW t \in UserTasks, NEW r \in 1..MaxMsgs, NEW kind \in {"verify", "reject"},
             HumanVerdict(t, r, kind)
      PROVE  MInv'
  <2>1. Verdict(r, kind, "user") \in Payloads /\ Fits(Verdict(r, kind, "user"))
    BY DEF Payloads, Verdict, Fits
  <2> QED
    BY <1>2, <2>1, BroadcastKeeps DEF HumanVerdict, Others, local
<1> QED
  BY <1>1, <1>2

(* The verifier judges the rows it polled as its rule does.                *)
LEMMA PollKeeps ==
  ASSUME MInv, Poll
  PROVE  MInv'
<1> USE ConstantsAssumption, PipelineAssumption
<1>1. /\ UNCHANGED <<busVars, payload, table, main, writer, job, crashes>>
      /\ work' = {r \in Oldest(PollLimit) : payload[r].kind # "skip"}
      /\ hasty' \in 0..MaxHasty
  BY DEF Poll, MInv, MemoryTypeOK
<1>2. work' \in SUBSET Oldest(PollLimit)
  BY <1>1
<1>3. Cardinality(work') <= PollLimit
  <2>1. /\ IsFiniteSet(Oldest(PollLimit)) /\ Cardinality(Oldest(PollLimit)) \in Nat
        /\ Cardinality(Oldest(PollLimit)) <= PollLimit
    BY OldestLimited, FS_CardinalityType
  <2>2. Cardinality(work') <= Cardinality(Oldest(PollLimit)) /\ Cardinality(work') \in Nat
    BY <1>2, <2>1, FS_Subset, FS_CardinalityType
  <2> QED
    BY <2>1, <2>2
<1>4. \A r \in work' : r \in 1..sent /\ payload[r].kind \in {"pass", "fail"}
  BY <1>1 DEF Oldest, Pending, MInv, RowsOK, Claims
<1>5. TInv' /\ sent' = sent /\ Numbers'
  <2>1. Calm
    BY <1>1 DEF Calm, busVars
  <2> QED
    BY <2>1, CalmTyped, CalmNumbers DEF MInv
<1>6. Facts'
  BY <1>1, <1>5, FactsStay DEF MInv, Facts, table
<1>7. MemoryTypeOK'
  BY <1>1, <1>3, <1>4, <1>5 DEF MInv, MemoryTypeOK, table
<1>8. AtWork'
  BY <1>1, <1>4 DEF MInv, AtWork
<1> QED
  BY <1>5, <1>6, <1>7, <1>8 DEF MInv, Facts

LEMMA EmitKeeps ==
  ASSUME MInv, EmitVerdict
  PROVE  MInv'
<1> USE ConstantsAssumption, PipelineAssumption
<1>1. PICK r \in work :
        /\ work' = work \ {r}
        /\ Broadcast(VerifierTask, RuleOf(r)) \/ UNCHANGED <<busVars, payload>>
  BY DEF EmitVerdict
<1>2. UNCHANGED <<table, main, writer, job, hasty, crashes>>
  BY DEF EmitVerdict
<1>3. /\ work \subseteq 1..sent /\ sent \in 0..MaxMsgs /\ Cardinality(work) <= PollLimit
      /\ payload[r].kind \in {"pass", "fail"}
  BY DEF MInv, MemoryTypeOK, TInv, TypeOK, CallsType, AtWork
<1>4. CASE Broadcast(VerifierTask, RuleOf(r))
  <2>1. RuleOf(r) \in Payloads
    BY <1>3 DEF RuleOf, Verdict, Payloads
  <2>2. Fits(RuleOf(r))
    BY <1>3 DEF RuleOf, Verdict, Fits
  <2> QED
    BY <1>1, <1>2, <1>4, <2>1, <2>2, BroadcastKeeps DEF Others
<1>5. CASE UNCHANGED <<busVars, payload>>
  <2>1. TInv' /\ sent' = sent /\ Numbers'
    BY <1>5, CalmTyped, CalmNumbers DEF MInv, Calm, busVars
  <2>2. Facts'
    BY <1>2, <1>5, <2>1, FactsStay DEF MInv, Facts, table
  <2>3. Cardinality(work') <= PollLimit
    <3>1. IsFiniteSet(1..sent)
      BY <1>3, FS_Interval
    <3>2. IsFiniteSet(work)
      BY <1>3, <3>1, FS_Subset
    <3>3. /\ Cardinality(work') <= Cardinality(work)
          /\ Cardinality(work) \in Nat /\ Cardinality(work') \in Nat
      BY <1>1, <3>2, FS_Subset, FS_CardinalityType
    <3> QED
      BY <1>3, <3>3
  <2>4. MemoryTypeOK'
    BY <1>1, <1>2, <1>5, <2>1, <2>3 DEF MInv, MemoryTypeOK, table
  <2>5. AtWork'
    BY <1>1, <1>2, <1>5 DEF MInv, AtWork
  <2> QED
    BY <2>1, <2>2, <2>4, <2>5 DEF MInv, Facts
<1> QED
  BY <1>1, <1>4, <1>5

-----------------------------------------------------------------------------
(* A verdict is written to the row it is about, if there is one.           *)
LEMMA SetsFits ==
  ASSUME MInv, job \in 1..sent, UNCHANGED <<sent, payload>>,
         NEW s \in {"verified", "failed"},
         payload[job].kind = IF s = "verified" THEN "verify" ELSE "reject",
         Sets(payload[job].of, s)
  PROVE  /\ row' \in [1..MaxMsgs -> {"none", "pending", "verified", "failed"}]
         /\ RowsOK'
         /\ VerdictsFit'
<1> USE ConstantsAssumption, PipelineAssumption
<1>1. /\ payload \in Seq(Payloads) /\ Len(payload) = sent
      /\ row \in [1..MaxMsgs -> {"none", "pending", "verified", "failed"}]
  BY DEF MInv, MemoryTypeOK
<1>2. PICK r \in 1..MaxMsgs, by \in {"user", "rule"} :
        payload[job] = Verdict(r, payload[job].kind, by)
  <2>1. payload[job] \in Payloads
    BY <1>1
  <2>2. \A text \in Texts : Said(text).kind \notin {"verify", "reject"}
    BY DEF Said
  <2>3. payload[job].kind \in {"verify", "reject"}
    OBVIOUS
  <2>4. PICK r \in 1..MaxMsgs, k \in {"verify", "reject"}, by \in {"user", "rule"} :
          payload[job] = Verdict(r, k, by)
    <3>1. \/ \E x \in Texts : payload[job] = Said(x)
          \/ \E r \in 1..MaxMsgs, k \in {"verify", "reject"}, by \in {"user", "rule"} :
               payload[job] = Verdict(r, k, by)
      BY <2>1 DEF Payloads
    <3> QED
      BY <2>2, <2>3, <3>1, Zenon
  <2>5. Verdict(r, k, by).kind = k
    BY DEF Verdict
  <2> QED
    BY <2>4, <2>5
<1>3. payload[job].of = r /\ payload[job].by = by
  BY <1>2 DEF Verdict
<1>4. row' = IF row[r] = "none" THEN row ELSE [row EXCEPT ![r] = s]
  BY <1>3 DEF Sets
<1>5. row' \in [1..MaxMsgs -> {"none", "pending", "verified", "failed"}]
  BY <1>1, <1>4
<1>6. RowsOK'
  BY <1>1, <1>4 DEF MInv, RowsOK
<1>7. \/ row' = row
      \/ /\ \A q \in 1..MaxMsgs : q # r => row'[q] = row[q]
         /\ row'[r] = s
  BY <1>1, <1>4
<1>8. \/ s = "verified" /\ (payload[r].kind = "pass" \/ JudgedByUser(r, "verify"))
      \/ s = "failed" /\ (payload[r].kind = "fail" \/ JudgedByUser(r, "reject"))
  <2>1. CASE by = "user"
    BY <1>1, <1>2, <2>1 DEF JudgedByUser
  <2>2. CASE by = "rule"
    BY <1>3, <2>2 DEF MInv, VerdictsOK, Fits
  <2> QED
    BY <2>1, <2>2
<1>9. VerdictsFit'
  BY <1>7, <1>8 DEF MInv, VerdictsFit, JudgedByUser
<1> QED
  BY <1>5, <1>6, <1>9

(* The writer has stored its message, or a statement was refused.          *)
LEMMA StoredKeeps ==
  ASSUME MInv, Stored, UNCHANGED <<busVars, payload, main, work, hasty, crashes>>,
         writer \in {"storing", "failing"},
         saved' \subseteq saved \cup {job}, refused' \subseteq refused \cup {job},
         row' \in [1..MaxMsgs -> {"none", "pending", "verified", "failed"}],
         RowsOK', VerdictsFit'
  PROVE  MInv'
<1> USE ConstantsAssumption
<1>1. TInv' /\ sent' = sent /\ Numbers'
  BY CalmTyped, CalmNumbers DEF MInv, Calm, busVars
<1>2. job \in 1..MaxMsgs
  BY DEF MInv, MemoryTypeOK, TInv, TypeOK, CallsType
<1>3. MemoryTypeOK'
  BY <1>1, <1>2 DEF MInv, MemoryTypeOK, Stored
<1>4. VerdictsOK' /\ AtWork'
  BY <1>1 DEF MInv, VerdictsOK, Fits, AtWork, Stored
<1> QED
  BY <1>1, <1>3, <1>4 DEF MInv

LEMMA WriterKeeps ==
  ASSUME MInv, WriterStep
  PROVE  MInv'
<1> USE ConstantsAssumption, PipelineAssumption
<1>1. /\ MemoryTypeOK /\ RowsOK /\ VerdictsFit
      /\ sent \in 0..MaxMsgs
  BY DEF MInv, TInv, TypeOK, CallsType
<1>2. writer \in {"storing", "failing"} => job \in 1..sent
  BY <1>1 DEF MemoryTypeOK
<1>3. CASE WriterTakes
  <2>1. queue \in [Agent -> Seq(Message)] /\ Numbers
    BY DEF MInv, TInv, TypeOK, QueuesType
  <2>2. queue[Writer] \in Seq(Message) /\ queue[Writer] # <<>>
    BY <1>3, <2>1 DEF WriterTakes, Receive
  <2>3. 1 \in 1..Len(queue[Writer]) /\ Head(queue[Writer]) = queue[Writer][1]
    BY <2>2
  <2>4. job' \in 1..sent
    BY <1>3, <2>1, <2>3 DEF WriterTakes, Numbers
  <2>5. main' = "boot" => main = "boot" /\ writer # "none"
    BY <1>3 DEF WriterTakes
  <2> QED
    BY <1>1, <1>3, <2>4, <2>5, RestKeeps DEF WriterTakes, Calm, Resting, MemoryTypeOK
<1>4. CASE StoreChat
  <2>1. /\ row' \in [1..MaxMsgs -> {"none", "pending", "verified", "failed"}]
        /\ RowsOK' /\ VerdictsFit'
    BY <1>1, <1>4
       DEF StoreChat, MemoryTypeOK, RowsOK, VerdictsFit, JudgedByUser, busVars, vars
  <2> QED
    BY <1>4, <2>1, StoredKeeps DEF StoreChat
<1>5. CASE WriteEvidence
  <2>1. /\ row' = [row EXCEPT ![job] = "pending"]
        /\ UNCHANGED <<sent, payload>>
        /\ payload[job].kind \in Claims
        /\ row \in [1..MaxMsgs -> {"none", "pending", "verified", "failed"}]
    BY <1>1, <1>5 DEF WriteEvidence, MemoryTypeOK, busVars, vars
  <2>2. row' \in [1..MaxMsgs -> {"none", "pending", "verified", "failed"}]
    BY <2>1
  <2>3. RowsOK'
    BY <1>1, <1>2, <1>5, <2>1 DEF WriteEvidence, RowsOK
  <2>4. VerdictsFit'
    BY <1>1, <2>1 DEF VerdictsFit, JudgedByUser
  <2> QED
    BY <1>5, <2>2, <2>3, <2>4, StoredKeeps DEF WriteEvidence
<1>6. CASE VerifyRow
  <2>1. /\ row' \in [1..MaxMsgs -> {"none", "pending", "verified", "failed"}]
        /\ RowsOK' /\ VerdictsFit'
    BY <1>2, <1>6, SetsFits DEF VerifyRow, busVars, vars
  <2> QED
    BY <1>6, <2>1, StoredKeeps DEF VerifyRow
<1>7. CASE FailReads
  <2>1. CASE Stored
    <3>1. /\ row' \in [1..MaxMsgs -> {"none", "pending", "verified", "failed"}]
          /\ RowsOK' /\ VerdictsFit'
      BY <1>1, <1>7
         DEF FailReads, table, MemoryTypeOK, RowsOK, VerdictsFit, JudgedByUser, busVars, vars
    <3> QED
      BY <1>7, <2>1, <3>1, StoredKeeps DEF FailReads, table
  <2>2. CASE writer' = "failing" /\ UNCHANGED job
    <3>1. TInv' /\ sent' = sent /\ Numbers'
      BY <1>7, CalmTyped, CalmNumbers DEF MInv, FailReads, Calm, busVars
    <3>2. Facts'
      BY <1>7, <3>1, FactsStay DEF MInv, Facts, FailReads, table
    <3>3. MemoryTypeOK'
      BY <1>1, <1>7, <2>2, <3>1 DEF FailReads, MemoryTypeOK, table
    <3>4. AtWork'
      BY <1>7, <2>2 DEF MInv, FailReads, AtWork
    <3> QED
      BY <3>1, <3>2, <3>3, <3>4 DEF MInv, Facts
  <2> QED
    BY <1>7, <2>1, <2>2 DEF FailReads
<1>8. CASE FailWrites
  <2>1. payload[job].kind = "reject"
    BY <1>8 DEF FailWrites, MInv, AtWork
  <2>2. /\ row' \in [1..MaxMsgs -> {"none", "pending", "verified", "failed"}]
        /\ RowsOK' /\ VerdictsFit'
    BY <1>2, <1>8, <2>1, SetsFits DEF FailWrites, busVars, vars
  <2> QED
    BY <1>8, <2>2, StoredKeeps DEF FailWrites
<1>9. CASE StoreErrs
  <2>1. /\ row' \in [1..MaxMsgs -> {"none", "pending", "verified", "failed"}]
        /\ RowsOK' /\ VerdictsFit'
    BY <1>1, <1>9
       DEF StoreErrs, MemoryTypeOK, RowsOK, VerdictsFit, JudgedByUser, busVars, vars
  <2> QED
    BY <1>9, <2>1, StoredKeeps DEF StoreErrs
<1>10. CASE WriterStops
  <2>1. TInv'
    <3>1. SubscribersType'
      BY <1>10 DEF WriterStops, MInv, TInv, TypeOK, SubscribersType
    <3> QED
      BY <1>10, <3>1, Unchanged DEF WriterStops, MInv, TInv, TypeOK, calls
  <2>2. Numbers' /\ sent' = sent
    BY <1>10 DEF WriterStops, MInv, Numbers, calls
  <2>3. Facts'
    BY <1>10, <2>2, FactsStay DEF WriterStops, MInv, Facts, table
  <2>4. MemoryTypeOK'
    BY <1>1, <1>10, <2>2 DEF WriterStops, MemoryTypeOK, table
  <2>5. AtWork'
    BY <1>10 DEF MInv, WriterStops, AtWork
  <2> QED
    BY <2>1, <2>2, <2>3, <2>4, <2>5 DEF MInv, Facts
<1> QED
  BY <1>3, <1>4, <1>5, <1>6, <1>7, <1>8, <1>9, <1>10 DEF WriterStep

(* The end of a process leaves the table, the payloads and a bus like a    *)
(* new one.                                                                *)
LEMMA EndKeeps ==
  ASSUME MInv, ProcessEnds, main' \in {"boot", "over"}, crashes' \in 0..MaxCrashes
  PROVE  MInv'
<1> USE ConstantsAssumption, PipelineAssumption
<1>1. TInv'
  <2>1. SubscribersType'
    BY DEF ProcessEnds, SubscribersType
  <2>4. QueuesType'
    BY DEF ProcessEnds, QueuesType
  <2>5. ChannelsType' /\ LogsType'
    BY DEF ProcessEnds, ChannelsType, LogsType
  <2>2. CallsType'
    BY DEF ProcessEnds, MInv, TInv, TypeOK, CallsType, Phase, Call, NoCall
  <2>3. CallOK'
    BY DEF ProcessEnds, CallOK, NoCall, Sending, Delivering
  <2> QED
    BY <2>1, <2>2, <2>3, <2>4, <2>5 DEF TInv, TypeOK
<1>2. Numbers'
  BY DEF ProcessEnds, Numbers, Sending, Delivering
<1>3. Facts'
  BY FactsStay DEF ProcessEnds, MInv, Facts, table
<1>4. MemoryTypeOK'
  BY FS_EmptySet DEF ProcessEnds, MInv, MemoryTypeOK, table
<1>5. AtWork'
  BY DEF ProcessEnds, AtWork
<1> QED
  BY <1>1, <1>2, <1>3, <1>4, <1>5 DEF MInv, Facts

LEMMA RestartKeeps ==
  ASSUME MInv, Exit \/ Restart
  PROVE  MInv'
<1> USE PipelineAssumption
<1>1. crashes \in 0..MaxCrashes
  BY DEF MInv, MemoryTypeOK
<1> QED
  BY <1>1, EndKeeps DEF Exit, Restart

LEMMA PipelineKeeps == MInv /\ [PNext]_pvars => MInv'
<1> SUFFICES ASSUME MInv, [PNext]_pvars
             PROVE  MInv'
  OBVIOUS
<1> USE PipelineAssumption
<1>1. CASE BusStep /\ UNCHANGED <<payload, table, local, crashes>>
  <2>1. Calm
    BY <1>1 DEF BusStep, Calm
  <2>2. MemoryTypeOK
    BY DEF MInv
  <2> QED
    BY <1>1, <2>1, <2>2, RestKeeps DEF Resting, local, MemoryTypeOK
<1>2. CASE Quit
  <2>1. Calm
    BY <1>2 DEF Quit, Calm
  <2> QED
    BY <1>2, <2>1, RestKeeps DEF Resting, Quit
<1>3. CASE UNCHANGED pvars
  <2>1. MemoryTypeOK
    BY DEF MInv
  <2> QED
    BY <1>3, <2>1, RestKeeps DEF pvars, Calm, busVars, Resting, local, MemoryTypeOK
<1> QED
  BY <1>1, <1>2, <1>3, StartupKeeps, UserKeeps, PollKeeps, EmitKeeps, WriterKeeps, RestartKeeps
     DEF PNext, SystemStep, VerifierStep

LEMMA PipelineInvariant == PSpec => []MInv
BY PipelineStarts, PipelineKeeps, PTL DEF PSpec

(* Every variable stays in its type, the writer works on a message exactly *)
(* while it stores, and the verifier never holds more rows than it asks    *)
(* for (verifier.rs:62-80, writer.rs:35-124).                              *)
THEOREM MemoryTypeCorrect == PSpec => []MemoryTypeOK
<1>1. MInv => MemoryTypeOK
  BY DEF MInv
<1> QED
  BY <1>1, PipelineInvariant, PTL

(* However claims and verdicts overtake one another, are repeated, lost or *)
(* cut off by crashes: a row that is verified or failed was judged so, by  *)
(* the rule about its own claim or by the user about that row              *)
(* (verifier.rs:70-80, writer.rs:96-124).                                  *)
THEOREM VerdictsCorrect == PSpec => []VerdictsFit
<1>1. MInv => VerdictsFit
  BY DEF MInv
<1> QED
  BY <1>1, PipelineInvariant, PTL

-----------------------------------------------------------------------------
(* Without verdicts of the user the rows do what the evidence table        *)
(* promises.  That takes that the writer gets each claim once: a message   *)
(* is on its way to the writer, queued, or taken and perhaps a row.        *)
LinesOK ==
  /\ \A c \in ChannelName, a \in Agent : members[c][a] \in {"Out", "Full"}
  /\ \A t \in Task : phase[t] \in Sending =>
       /\ call[t].kind = "channel"
       /\ phase[t] \in {"record", "announce", "full", "notify"}
       /\ phase[t] = "notify" => todo[t] = {}
  /\ \A t, u \in Task :
       phase[t] \in Sending /\ phase[u] \in Sending /\ call[t].msg.id = call[u].msg.id => t = u

Coming(t) == phase[t] \in {"record", "announce"} \/ (phase[t] = "full" /\ Writer \in todo[t])

Apart ==
  /\ \A t \in Task : Coming(t) => ~Queued(call[t].msg.id)
  /\ \A i, j \in 1..Len(queue[Writer]) : queue[Writer][i].id = queue[Writer][j].id => i = j

Unstored(i) == job # i /\ row[i] = "none"

Fresh ==
  /\ \A t \in Task : Coming(t) => Unstored(call[t].msg.id)
  /\ \A i \in 1..Len(queue[Writer]) : Unstored(queue[Writer][i].id)
  /\ job # 0 => row[job] = "none"

OnlyTheRule == \A i \in 1..sent : payload[i].kind \in {"verify", "reject"} => payload[i].by = "rule"

LInv == LinesOK /\ Apart /\ Fresh /\ OnlyTheRule

LEMMA CalmLines ==
  ASSUME TInv, LinesOK, Calm
  PROVE  LinesOK'
<1> USE ConstantsAssumption, PipelineAssumption
<1>1. /\ phase \in [Task -> Phase]
      /\ call \in [Task -> Call]
      /\ todo \in [Task -> SUBSET Agent]
      /\ members \in [ChannelName -> [Agent -> Visibility \cup {"Out"}]]
  BY DEF TInv, TypeOK, CallsType, ChannelsType
<1>2. ASSUME NEW t \in Task, phase'[t] \in Sending
      PROVE  /\ phase[t] \in Sending /\ call'[t] = call[t]
             /\ phase'[t] \in {"record", "announce", "full", "notify"}
             /\ phase'[t] = "notify" => todo'[t] = {}
  <2>1. /\ phase[t] \in Sending => /\ call[t].kind = "channel"
                                   /\ phase[t] \in {"record", "announce", "full", "notify"}
                                   /\ phase[t] = "notify" => todo[t] = {}
                                   /\ call[t].chan \in ChannelName
    BY DEF LinesOK, TInv, CallOK
  <2> USE <1>1, <1>2, <2>1 DEF Sending, Delivering
  <2>2. ASSUME NEW u \in Task, Record(u) \/ RecordChannel(u) \/ Return(u) \/ Listen(u)
                               \/ ReadFeed(u) \/ Timeout(u)
        PROVE  /\ phase[t] \in Sending /\ call'[t] = call[t]
               /\ phase'[t] \in {"record", "announce", "full", "notify"}
               /\ phase'[t] = "notify" => todo'[t] = {}
    BY <2>2 DEF Record, RecordChannel, Return, Listen, ReadFeed, Timeout, GoesTo, Ends
  <2>3. ASSUME NEW u \in Task, Announce(u)
        PROVE  /\ phase[t] \in Sending /\ call'[t] = call[t]
               /\ phase'[t] \in {"record", "announce", "full", "notify"}
               /\ phase'[t] = "notify" => todo'[t] = {}
    <3>1. phase[u] = "announce" => Route(u)[1] = "full"
      BY DEF Route, LinesOK
    <3> QED
      BY <2>3, <3>1 DEF Announce, GoesTo
  <2>4. ASSUME NEW u \in Task, ServeNotify(u)
        PROVE  /\ phase[t] \in Sending /\ call'[t] = call[t]
               /\ phase'[t] \in {"record", "announce", "full", "notify"}
               /\ phase'[t] = "notify" => todo'[t] = {}
    <3>1. \A c \in ChannelName : MembersWith(c, "Notify") = {}
      BY DEF MembersWith, LinesOK
    <3>2. CASE t = u
      <4>1. phase[t] \in Sending /\ call[t].chan \in ChannelName
        BY <2>4, <3>2 DEF ServeNotify
      <4> QED
        BY <2>4, <3>1, <3>2, <4>1 DEF ServeNotify, GoesTo
    <3>3. CASE t # u
      BY <2>4, <3>3 DEF ServeNotify, GoesTo
    <3> QED
      BY <3>2, <3>3
  <2>5. ASSUME NEW u \in Task, NEW a \in Agent, Deliver(u, a) \/ Skip(u, a) \/ Wait(u, a)
        PROVE  /\ phase[t] \in Sending /\ call'[t] = call[t]
               /\ phase'[t] \in {"record", "announce", "full", "notify"}
               /\ phase'[t] = "notify" => todo'[t] = {}
    BY <2>5 DEF Deliver, Skip, Wait, calls
  <2>6. CASE CreateCheck(Main, General) \/ CreateInsert(Main) \/ CreateHistory(Main)
    BY <2>6 DEF CreateCheck, CreateInsert, CreateHistory, GoesTo, Ends
  <2>7. CASE UNCHANGED <<phase, call, todo>>
    BY <2>7
  <2> QED
    BY <2>2, <2>3, <2>4, <2>5, <2>6, <2>7
       DEF Calm, Progress, vars, calls, Start, Shutdown, Subscribe, Receive, JoinChannel,
           ClearShard
<1>3. \A c \in ChannelName, a \in Agent : members'[c][a] \in {"Out", "Full"}
  <2>1. \A c \in ChannelName, a \in Agent : members[c][a] \in {"Out", "Full"}
    BY DEF LinesOK
  <2>2. CASE members' = members
    BY <2>1, <2>2
  <2>3. CASE CreateInsert(Main)
    BY <1>1, <2>1, <2>3 DEF CreateInsert
  <2>4. ASSUME NEW b \in Agent, JoinChannel(b, General, "Full")
        PROVE  \A c \in ChannelName, a \in Agent : members'[c][a] \in {"Out", "Full"}
    BY <1>1, <2>1, <2>4 DEF JoinChannel
  <2> QED
    BY <2>2, <2>3, <2>4
       DEF Calm, Progress, vars, Start, Shutdown, Subscribe, Receive, CreateCheck, CreateHistory,
           ClearShard, Record, RecordChannel, Announce, Deliver, Wait, Skip, ServeNotify, Return,
           Listen, ReadFeed, Timeout
<1> QED
  BY <1>2, <1>3 DEF LinesOK

(* A message that is queued now was queued or on its way; no step of the   *)
(* bus sends one on its way again.                                         *)
LEMMA ComingStays ==
  ASSUME TInv, LinesOK, Calm, NEW t \in Task, Coming(t)'
  PROVE  Coming(t) /\ call'[t] = call[t]
<1>1. /\ phase \in [Task -> Phase]
      /\ call \in [Task -> Call]
      /\ todo \in [Task -> SUBSET Agent]
  BY DEF TInv, TypeOK, CallsType
<1> USE <1>1, PipelineAssumption DEF Coming
<1>2. ASSUME NEW u \in Task, Record(u) \/ RecordChannel(u) \/ Announce(u) \/ ServeNotify(u)
                             \/ Return(u) \/ Listen(u) \/ ReadFeed(u) \/ Timeout(u)
      PROVE  Coming(t) /\ call'[t] = call[t]
  BY <1>2 DEF Record, RecordChannel, Announce, ServeNotify, Return, Listen, ReadFeed, Timeout,
              GoesTo, Ends
<1>3. ASSUME NEW u \in Task, NEW a \in Agent, Deliver(u, a) \/ Skip(u, a) \/ Wait(u, a)
      PROVE  Coming(t) /\ call'[t] = call[t]
  BY <1>3 DEF Deliver, Skip, Wait, calls
<1>4. CASE CreateCheck(Main, General) \/ CreateInsert(Main) \/ CreateHistory(Main)
  BY <1>4 DEF CreateCheck, CreateInsert, CreateHistory, GoesTo, Ends
<1>5. CASE UNCHANGED <<phase, call, todo>>
  BY <1>5
<1> QED
  BY <1>2, <1>3, <1>4, <1>5
     DEF Calm, Progress, vars, calls, Start, Shutdown, Subscribe, Receive, JoinChannel, ClearShard

(* What a step of the bus does to the writer's queue.                      *)
Arrives(t) ==
  /\ phase[t] \in Sending
  /\ Coming(t) /\ ~Coming(t)'
  /\ queue'[Writer] = Append(queue[Writer], call[t].msg)

LEMMA QueueMoves ==
  ASSUME TInv, LinesOK, Calm
  PROVE  \/ queue'[Writer] = queue[Writer]
         \/ queue'[Writer] = <<>>
         \/ queue[Writer] # <<>> /\ queue'[Writer] = Tail(queue[Writer])
         \/ \E t \in Task : Arrives(t)
<1> USE PipelineAssumption
<1>1. /\ phase \in [Task -> Phase]
      /\ todo \in [Task -> SUBSET Agent]
      /\ queue \in [Agent -> Seq(Message)]
  BY DEF TInv, TypeOK, CallsType, QueuesType
<1>2. CASE queue' = queue
  BY <1>2
<1>3. ASSUME NEW a \in Agent, Subscribe(a) \/ Receive(a)
      PROVE  \/ queue'[Writer] = queue[Writer]
             \/ queue'[Writer] = <<>>
             \/ queue[Writer] # <<>> /\ queue'[Writer] = Tail(queue[Writer])
  BY <1>1, <1>3 DEF Subscribe, Receive
<1>4. ASSUME NEW t \in Task, NEW a \in Agent, Deliver(t, a)
      PROVE  queue'[Writer] = queue[Writer] \/ Arrives(t)
  <2>1. CASE a = Writer
    <3>1. phase[t] = "full" /\ Writer \in todo[t]
      BY <1>4, <2>1 DEF Deliver, LinesOK, Sending, Delivering
    <3>2. phase' = phase /\ Writer \notin todo'[t]
      BY <1>1, <1>4, <2>1 DEF Deliver
    <3>3. queue'[Writer] = Append(queue[Writer], call[t].msg)
      BY <1>1, <1>4, <2>1 DEF Deliver
    <3> QED
      BY <3>1, <3>2, <3>3 DEF Arrives, Coming, Sending, Delivering
  <2>2. CASE a # Writer
    BY <1>1, <1>4, <2>2 DEF Deliver
  <2> QED
    BY <2>1, <2>2
<1> QED
  BY <1>2, <1>3, <1>4
     DEF Calm, Progress, vars, calls, maps, Start, Shutdown, JoinChannel, CreateCheck,
         CreateInsert, CreateHistory, ClearShard, Record, RecordChannel, Announce, Wait, Skip,
         ServeNotify, Return, Listen, ReadFeed, Timeout

LEMMA CalmApart ==
  ASSUME TInv, LinesOK, Apart, Calm
  PROVE  /\ Apart'
         /\ \A i \in 1..Len(queue'[Writer]) :
              \/ Queued(queue'[Writer][i].id)
              \/ \E t \in Task : Coming(t) /\ call[t].msg.id = queue'[Writer][i].id
<1> USE PipelineAssumption
<1>1. queue[Writer] \in Seq(Message)
  BY DEF TInv, TypeOK, QueuesType
<1>2. \A t \in Task : Coming(t)' => Coming(t) /\ call'[t] = call[t]
  BY ComingStays
<1> DEFINE Same == \A i \in 1..Len(queue'[Writer]) : \E j \in 1..Len(queue[Writer]) :
                     queue'[Writer][i] = queue[Writer][j]
<1>3. ASSUME Same,
             \A i, j \in 1..Len(queue'[Writer]) :
               queue'[Writer][i].id = queue'[Writer][j].id => i = j
      PROVE  /\ Apart'
             /\ \A i \in 1..Len(queue'[Writer]) : Queued(queue'[Writer][i].id)
  <2>1. \A i \in 1..Len(queue'[Writer]) : Queued(queue'[Writer][i].id)
    BY <1>3 DEF Queued
  <2>2. ASSUME NEW u \in Task, Coming(u)'
        PROVE  ~Queued(call[u].msg.id)'
    <3>1. Coming(u) /\ call'[u] = call[u]
      BY <1>2, <2>2
    <3>2. \A j \in 1..Len(queue[Writer]) : queue[Writer][j].id # call[u].msg.id
      BY <3>1 DEF Apart, Queued
    <3> QED
      BY <1>3, <3>1, <3>2 DEF Queued
  <2> QED
    BY <1>3, <2>1, <2>2 DEF Apart
<1>4. CASE queue'[Writer] = queue[Writer]
  BY <1>3, <1>4 DEF Apart
<1>5. CASE queue'[Writer] = <<>>
  BY <1>3, <1>5
<1>6. CASE queue[Writer] # <<>> /\ queue'[Writer] = Tail(queue[Writer])
  <2>1. \A i \in 1..Len(queue'[Writer]) :
          i + 1 \in 1..Len(queue[Writer]) /\ queue'[Writer][i] = queue[Writer][i + 1]
    BY <1>1, <1>6
  <2>2. ASSUME NEW i \in 1..Len(queue'[Writer]), NEW j \in 1..Len(queue'[Writer]),
               queue'[Writer][i].id = queue'[Writer][j].id
        PROVE  i = j
    <3>1. PICK k \in 1..Len(queue[Writer]) : k = i + 1 /\ queue'[Writer][i] = queue[Writer][k]
      BY <2>1
    <3>2. PICK l \in 1..Len(queue[Writer]) : l = j + 1 /\ queue'[Writer][j] = queue[Writer][l]
      BY <2>1
    <3>3. k = l
      BY <2>2, <3>1, <3>2 DEF Apart
    <3> QED
      BY <3>1, <3>2, <3>3
  <2> QED
    BY <1>3, <2>1, <2>2
<1>7. ASSUME NEW t \in Task, Arrives(t)
      PROVE  /\ Apart'
             /\ \A i \in 1..Len(queue'[Writer]) :
                  \/ Queued(queue'[Writer][i].id)
                  \/ call[t].msg.id = queue'[Writer][i].id
  <2>1. call[t].msg \in Message /\ queue'[Writer] = Append(queue[Writer], call[t].msg)
    BY <1>7 DEF Arrives, TInv, CallOK
  <2>2. \A i \in 1..Len(queue'[Writer]) :
          \/ i \in 1..Len(queue[Writer]) /\ queue'[Writer][i] = queue[Writer][i]
          \/ i = Len(queue[Writer]) + 1 /\ queue'[Writer][i] = call[t].msg
    BY <1>1, <2>1
  <2>3. Coming(t) /\ ~Queued(call[t].msg.id)
    BY <1>7 DEF Arrives, Apart
  <2>4. \A i \in 1..Len(queue[Writer]) : queue[Writer][i].id # call[t].msg.id
    BY <2>3 DEF Queued
  <2>5. \A i, j \in 1..Len(queue'[Writer]) :
          queue'[Writer][i].id = queue'[Writer][j].id => i = j
    BY <2>2, <2>4 DEF Apart
  <2>6. ASSUME NEW u \in Task, Coming(u)'
        PROVE  ~Queued(call[u].msg.id)'
    <3>1. Coming(u) /\ call'[u] = call[u] /\ u # t
      BY <1>2, <1>7, <2>6 DEF Arrives
    <3>2. phase[u] \in Sending /\ phase[t] \in Sending
      BY <1>7, <3>1 DEF Coming, Sending, Delivering, Arrives
    <3>3. call[u].msg.id # call[t].msg.id
      BY <3>1, <3>2 DEF LinesOK
    <3>4. ~Queued(call[u].msg.id)
      BY <3>1 DEF Apart
    <3> QED
      BY <2>2, <3>1, <3>3, <3>4 DEF Queued
  <2> QED
    BY <2>2, <2>5, <2>6 DEF Apart, Queued
<1> QED
  BY <1>4, <1>5, <1>6, <1>7, QueueMoves DEF Arrives

(* Steps of the bus that leave writer and rows alone.                      *)
LEMMA CalmFresh ==
  ASSUME MInv, LInv, Calm, UNCHANGED <<payload, row, job>>
  PROVE  LInv'
<1>1. TInv /\ LinesOK /\ Apart
  BY DEF MInv, LInv
<1>2. LinesOK' /\ Apart'
  BY <1>1, CalmLines, CalmApart
<1>3. \A t \in Task : Coming(t)' => Unstored(call[t].msg.id)'
  BY <1>1, ComingStays DEF LInv, Fresh, Unstored
<1>4. \A i \in 1..Len(queue[Writer]) : Unstored(queue[Writer][i].id)
  BY DEF LInv, Fresh
<1>5. ASSUME NEW i \in 1..Len(queue'[Writer])
      PROVE  Unstored(queue[Writer][i].id)'
  <2>1. \/ Queued(queue'[Writer][i].id)
        \/ \E t \in Task : Coming(t) /\ call[t].msg.id = queue'[Writer][i].id
    BY <1>1, <1>5, CalmApart
  <2>2. Unstored(queue'[Writer][i].id)
    BY <1>4, <2>1 DEF LInv, Fresh, Queued
  <2> QED
    BY <2>2 DEF Unstored
<1>6. (job # 0 => row[job] = "none")'
  BY DEF LInv, Fresh
<1>7. OnlyTheRule'
  BY <1>1, CalmTyped DEF LInv, OnlyTheRule
<1> QED
  BY <1>2, <1>3, <1>5, <1>6, <1>7 DEF LInv, Fresh

LEMMA TakeFresh ==
  ASSUME MInv, LInv, WriterTakes
  PROVE  LInv'
<1> USE PipelineAssumption
<1>1. TInv /\ LinesOK /\ Apart /\ Fresh /\ Receive(Writer) /\ Calm
  BY DEF MInv, LInv, WriterTakes, Calm
<1>2. LinesOK' /\ Apart'
  BY <1>1, CalmLines, CalmApart
<1>3. /\ queue \in [Agent -> Seq(Message)]
      /\ queue[Writer] \in Seq(Message) /\ queue[Writer] # <<>>
      /\ queue'[Writer] = Tail(queue[Writer])
  BY <1>1 DEF Receive, TInv, TypeOK, QueuesType
<1>4. /\ 1 \in 1..Len(queue[Writer]) /\ job' = queue[Writer][1].id
      /\ row' = row /\ payload' = payload /\ sent' = sent
  BY <1>3, <1>1, CalmTyped DEF WriterTakes, table
<1>5. \A i \in 1..Len(queue'[Writer]) :
        i + 1 \in 1..Len(queue[Writer]) /\ queue'[Writer][i] = queue[Writer][i + 1]
  BY <1>3
<1>6. ASSUME NEW t \in Task, Coming(t)'
      PROVE  Unstored(call[t].msg.id)'
  <2>1. Coming(t) /\ call'[t] = call[t]
    BY <1>1, <1>6, ComingStays
  <2>2. row[call[t].msg.id] = "none" /\ ~Queued(call[t].msg.id)
    BY <1>1, <2>1 DEF Fresh, Apart, Unstored
  <2>3. call[t].msg.id # job'
    BY <1>4, <2>2 DEF Queued
  <2> QED
    BY <1>4, <2>1, <2>2, <2>3 DEF Unstored
<1>7. ASSUME NEW i \in 1..Len(queue'[Writer])
      PROVE  Unstored(queue[Writer][i].id)'
  <2>1. PICK k \in 1..Len(queue[Writer]) : k = i + 1 /\ queue'[Writer][i] = queue[Writer][k]
    BY <1>5
  <2>2. k # 1
    BY <2>1
  <2>3. queue[Writer][k].id # job'
    BY <1>1, <1>4, <2>2 DEF Apart
  <2>4. row[queue[Writer][k].id] = "none"
    BY <1>1 DEF Fresh, Unstored
  <2> QED
    BY <1>4, <2>1, <2>3, <2>4 DEF Unstored
<1>8. row'[job'] = "none"
  BY <1>1, <1>4 DEF Fresh, Unstored
<1>9. OnlyTheRule'
  BY <1>4 DEF LInv, OnlyTheRule
<1> QED
  BY <1>2, <1>6, <1>7, <1>8, <1>9 DEF LInv, Fresh

(* A new message has a number that nothing else has.                       *)
LEMMA BroadcastFresh ==
  ASSUME MInv, LInv, NEW t \in Task, NEW p \in Payloads, Broadcast(t, p),
         p.kind \in {"verify", "reject"} => p.by = "rule",
         UNCHANGED <<row, job>>
  PROVE  LInv'
<1> USE ConstantsAssumption, PipelineAssumption
<1>1. /\ phase[t] = "idle" /\ sent < MaxMsgs /\ sent' = sent + 1
      /\ call' = [call EXCEPT ![t] = [kind |-> "channel", chan |-> General,
                    msg |-> [id |-> sent + 1, task |-> t, to |-> NoAgent, corr |-> 0]]]
      /\ phase' = [phase EXCEPT ![t] = "record"]
      /\ UNCHANGED <<queue, members, todo>>
      /\ payload' = Append(payload, p)
  BY DEF Broadcast, SendToChannel, Begin
<1>2. /\ phase \in [Task -> Phase] /\ call \in [Task -> Call]
      /\ sent \in Nat /\ payload \in Seq(Payloads) /\ Len(payload) = sent
      /\ job \in 0..sent /\ Numbers /\ RowsOK
  BY DEF MInv, TInv, TypeOK, CallsType, MemoryTypeOK
<1>3. \A u \in Task : u # t => phase'[u] = phase[u] /\ call'[u] = call[u]
  BY <1>1, <1>2
<1>4. phase'[t] = "record" /\ call'[t].kind = "channel" /\ call'[t].msg.id = sent + 1
  BY <1>1, <1>2
<1>5. LinesOK /\ Apart /\ Fresh /\ OnlyTheRule
  BY DEF LInv
<1>6. \A u \in Task : u # t /\ phase[u] \in Sending => call'[u].msg.id # sent + 1
  BY <1>2, <1>3 DEF Numbers
<1>7. LinesOK'
  <2>1. \A u \in Task : phase'[u] \in Sending => u = t \/ (phase[u] \in Sending /\ call'[u] = call[u])
    BY <1>3
  <2>2. \A u \in Task : phase'[u] \in Sending =>
          /\ call'[u].kind = "channel"
          /\ phase'[u] \in {"record", "announce", "full", "notify"}
          /\ phase'[u] = "notify" => todo'[u] = {}
    BY <1>1, <1>3, <1>4, <1>5 DEF LinesOK
  <2>3. \A u, v \in Task :
          phase'[u] \in Sending /\ phase'[v] \in Sending /\ call'[u].msg.id = call'[v].msg.id
            => u = v
    BY <1>3, <1>4, <1>5, <1>6, <2>1 DEF LinesOK
  <2> QED
    BY <1>1, <1>5, <2>2, <2>3 DEF LinesOK
<1>8. ~Queued(sent + 1) /\ Unstored(sent + 1)
  BY <1>1, <1>2 DEF Queued, Numbers, Unstored, RowsOK
<1>9. Apart'
  <2>1. \A i : Queued(i)' <=> Queued(i)
    BY <1>1 DEF Queued
  <2>2. \A u \in Task : Coming(u)' => ~Queued(call'[u].msg.id)
    BY <1>1, <1>3, <1>4, <1>5, <1>8 DEF Apart, Coming
  <2> QED
    BY <1>1, <1>5, <2>1, <2>2 DEF Apart, Queued
<1>10. Fresh'
  <2>1. \A i : Unstored(i)' <=> Unstored(i)
    BY DEF Unstored
  <2>2. \A u \in Task : Coming(u)' => Unstored(call'[u].msg.id)
    BY <1>1, <1>3, <1>4, <1>5, <1>8 DEF Fresh, Coming
  <2> QED
    BY <1>1, <1>5, <2>1, <2>2 DEF Fresh, Unstored
<1>11. OnlyTheRule'
  <2>1. \A i \in 1..sent' :
          \/ i \in 1..sent /\ payload'[i] = payload[i]
          \/ payload'[i] = p
    BY <1>1, <1>2
  <2> QED
    BY <1>5, <2>1 DEF OnlyTheRule
<1> QED
  BY <1>7, <1>9, <1>10, <1>11 DEF LInv

(* A row is made only of the message in hand.                              *)
LEMMA StoredFresh ==
  ASSUME MInv, LInv, Stored, UNCHANGED <<busVars, payload>>,
         \A i \in 1..MaxMsgs : i # job /\ row[i] = "none" => row'[i] = "none"
  PROVE  LInv'
<1> USE ConstantsAssumption
<1>1. LinesOK' /\ Apart' /\ OnlyTheRule'
  BY DEF LInv, busVars, vars, LinesOK, Apart, Coming, Queued, OnlyTheRule
<1>2. \A i \in 1..sent : Unstored(i) => Unstored(i)'
  BY DEF Unstored, Stored, MInv, TInv, TypeOK, CallsType
<1>3. /\ \A t \in Task : Coming(t) => call[t].msg.id \in 1..sent
      /\ \A i \in 1..Len(queue[Writer]) : queue[Writer][i].id \in 1..sent
  BY PipelineAssumption DEF MInv, Numbers, Coming, Sending, Delivering
<1>4. UNCHANGED <<phase, call, todo, queue>> /\ job' = 0
  BY DEF busVars, vars, Stored
<1>5. \A t \in Task : Coming(t)' => Unstored(call[t].msg.id)'
  BY <1>2, <1>3, <1>4 DEF LInv, Fresh, Coming, Unstored
<1>6. \A i \in 1..Len(queue'[Writer]) : Unstored(queue[Writer][i].id)'
  BY <1>2, <1>3, <1>4 DEF LInv, Fresh, Unstored
<1> QED
  BY <1>1, <1>4, <1>5, <1>6 DEF LInv, Fresh

(* The writer's steps on the table, as the lifecycle of a row sees them.   *)
LEMMA VerdictMoves ==
  ASSUME MInv, OnlyTheRule, job \in 1..sent,
         NEW s \in {"verified", "failed"},
         payload[job].kind = IF s = "verified" THEN "verify" ELSE "reject",
         Sets(payload[job].of, s)
  PROVE  /\ [Evidence!Next]_row
         /\ \A i \in 1..MaxMsgs : row[i] = "none" => row'[i] = "none"
<1> USE ConstantsAssumption
<1> DEFINE r == payload[job].of
<1>1. /\ row \in [1..MaxMsgs -> {"none", "pending", "verified", "failed"}]
      /\ sent \in 0..MaxMsgs
  BY DEF MInv, MemoryTypeOK, TInv, TypeOK, CallsType
<1>2. payload[job].by = "rule"
  BY DEF OnlyTheRule
<1>3. r \in 1..sent /\ payload[r].kind = IF s = "verified" THEN "pass" ELSE "fail"
  BY <1>2 DEF MInv, VerdictsOK, Fits
<1>4. r \in 1..MaxMsgs /\ row' = IF row[r] = "none" THEN row ELSE [row EXCEPT ![r] = s]
  BY <1>1, <1>3 DEF Sets
<1> HIDE DEF r
<1>5. \A i \in 1..sent, kind \in {"verify", "reject"} : payload[i] # Verdict(r, kind, "user")
  BY DEF OnlyTheRule, Verdict
<1>6. row[r] \in {"none", "pending", s}
  <2>1. Len(payload) = sent
    BY DEF MInv, MemoryTypeOK
  <2>2. ~JudgedByUser(r, "verify") /\ ~JudgedByUser(r, "reject")
    BY <1>5, <2>1 DEF JudgedByUser
  <2> QED
    BY <1>1, <1>3, <1>4, <2>2 DEF MInv, VerdictsFit
<1>7. CASE row[r] = "pending"
  BY <1>1, <1>4, <1>7 DEF Evidence!Next, Evidence!Verify, Evidence!Fail, Evidence!Moves
<1>8. CASE row[r] \in {"none", s}
  BY <1>1, <1>4, <1>8
<1> QED
  BY <1>6, <1>7, <1>8

LEMMA WriterMoves ==
  ASSUME MInv, LInv, WriterStep
  PROVE  LInv' /\ [Evidence!Next]_row
<1> USE ConstantsAssumption
<1>1. /\ row \in [1..MaxMsgs -> {"none", "pending", "verified", "failed"}]
      /\ sent \in 0..MaxMsgs
      /\ writer \in {"storing", "failing"} => job \in 1..sent
  BY DEF MInv, MemoryTypeOK, TInv, TypeOK, CallsType
<1>2. OnlyTheRule
  BY DEF LInv
<1>3. CASE WriterTakes
  BY <1>3, TakeFresh DEF WriterTakes, table
<1>4. CASE StoreChat
  BY <1>4, StoredFresh DEF StoreChat
<1>5. CASE StoreErrs
  BY <1>5, StoredFresh DEF StoreErrs
<1>6. CASE WriteEvidence
  <2>1. job \in 1..MaxMsgs /\ row[job] = "none" /\ row' = [row EXCEPT ![job] = "pending"]
    BY <1>1, <1>6 DEF WriteEvidence, LInv, Fresh
  <2>2. Evidence!Next
    BY <2>1 DEF Evidence!Next, Evidence!Submit, Evidence!Moves
  <2>3. \A i \in 1..MaxMsgs : i # job /\ row[i] = "none" => row'[i] = "none"
    BY <1>1, <2>1
  <2> QED
    BY <1>6, <2>2, <2>3, StoredFresh DEF WriteEvidence
<1>7. CASE VerifyRow
  <2>1. /\ [Evidence!Next]_row
        /\ \A i \in 1..MaxMsgs : row[i] = "none" => row'[i] = "none"
    BY <1>1, <1>2, <1>7, VerdictMoves DEF VerifyRow
  <2> QED
    BY <1>7, <2>1, StoredFresh DEF VerifyRow
<1>8. CASE FailWrites
  <2>1. /\ [Evidence!Next]_row
        /\ \A i \in 1..MaxMsgs : row[i] = "none" => row'[i] = "none"
    BY <1>1, <1>2, <1>8, VerdictMoves DEF FailWrites, MInv, AtWork
  <2> QED
    BY <1>8, <2>1, StoredFresh DEF FailWrites
<1>9. CASE FailReads
  <2>1. CASE Stored
    BY <1>9, <2>1, StoredFresh DEF FailReads, table
  <2>2. CASE UNCHANGED job
    BY <1>9, <2>2, CalmFresh DEF FailReads, table, Calm, busVars
  <2> QED
    BY <1>9, <2>1, <2>2 DEF FailReads, table
<1>10. CASE WriterStops
  <2>1. UNCHANGED <<phase, call, todo, sent, members, queue, payload, row, job>>
    BY <1>10 DEF WriterStops, calls, table
  <2> QED
    BY <2>1 DEF LInv, LinesOK, Apart, Fresh, OnlyTheRule, Coming, Queued, Unstored
<1> QED
  BY <1>3, <1>4, <1>5, <1>6, <1>7, <1>8, <1>9, <1>10 DEF WriterStep

LEMMA LifecycleStep ==
  ASSUME ~HumanJudges, MInv, LInv, [PNext]_pvars
  PROVE  LInv' /\ [Evidence!Next]_row
<1> USE ConstantsAssumption, PipelineAssumption
<1>1. CASE /\ Calm
           /\ UNCHANGED <<payload, row, job>>
  BY <1>1, CalmFresh
<1>2. CASE Startup
  BY <1>1, <1>2
     DEF Startup, HubStarts, UserSubscribes, CreateGeneral, UserJoins, WriterSubscribes,
         WriterJoins, Calm, table, busVars
<1>3. CASE WriterStep
  BY <1>3, WriterMoves
<1>4. CASE Poll
  BY <1>1, <1>4 DEF Poll, Calm, table, busVars
<1>5. CASE EmitVerdict
  <2>1. PICK r \in work :
          \/ Broadcast(VerifierTask, RuleOf(r))
          \/ UNCHANGED <<busVars, payload>>
    BY <1>5 DEF EmitVerdict
  <2>2. UNCHANGED <<row, job>>
    BY <1>5 DEF EmitVerdict, table
  <2>3. CASE Broadcast(VerifierTask, RuleOf(r))
    <3>1. r \in 1..MaxMsgs
      BY DEF MInv, MemoryTypeOK, TInv, TypeOK, CallsType
    <3>2. RuleOf(r) \in Payloads
      BY <3>1 DEF RuleOf, Verdict, Payloads
    <3>3. RuleOf(r).by = "rule"
      BY DEF RuleOf, Verdict
    <3> QED
      BY <2>2, <2>3, <3>2, <3>3, BroadcastFresh
  <2>4. CASE UNCHANGED <<busVars, payload>>
    BY <1>1, <2>2, <2>4 DEF Calm, busVars
  <2> QED
    BY <2>1, <2>3, <2>4
<1>6. ASSUME NEW t \in UserTasks, NEW text \in Texts, Say(t, text)
      PROVE  LInv' /\ [Evidence!Next]_row
  <2>1. Said(text) \in Payloads
    BY DEF Payloads
  <2>2. Said(text).kind \notin {"verify", "reject"}
    BY DEF Said
  <2> QED
    BY <1>6, <2>1, <2>2, BroadcastFresh DEF Say, table, local
<1>7. CASE Exit \/ Restart
  <2> USE DEF Exit, Restart, ProcessEnds
  <2>1. LinesOK' /\ Apart' /\ Fresh'
    BY <1>7 DEF LinesOK, Apart, Fresh, Coming, Sending, Delivering
  <2>2. OnlyTheRule'
    BY <1>7 DEF LInv, OnlyTheRule
  <2> QED
    BY <1>7, <2>1, <2>2 DEF LInv, table
<1>8. CASE Quit \/ (BusStep /\ UNCHANGED <<payload, table, local, crashes>>) \/ UNCHANGED pvars
  BY <1>1, <1>8 DEF Quit, BusStep, Calm, pvars, busVars, table, local
<1> QED
  BY <1>2, <1>3, <1>4, <1>5, <1>6, <1>7, <1>8 DEF PNext, SystemStep, VerifierStep, HumanVerdict

LEMMA LifecycleStarts == PInit => LInv /\ Evidence!Init
<1> SUFFICES ASSUME PInit
             PROVE  LInv /\ Evidence!Init
  OBVIOUS
<1> USE PipelineAssumption DEF PInit, Init
<1>1. LinesOK /\ Apart /\ Fresh
  BY DEF LinesOK, Apart, Fresh, Coming, Sending, Delivering
<1>2. OnlyTheRule
  BY DEF OnlyTheRule
<1>3. Evidence!Init
  BY DEF Evidence!Init
<1> QED
  BY <1>1, <1>2, <1>3 DEF LInv

(* As long as only the rule judges, the whole way from broadcasts through  *)
(* queues, failing statements and crashes to the table keeps the promise   *)
(* of the evidence table: a row starts pending, gets one verdict and stays *)
(* (lib.rs:109-118).                                                       *)
THEOREM LifecycleCorrect ==
  ASSUME ~HumanJudges
  PROVE  PSpec => ImplementsLifecycle
<1>1. PInit => MInv /\ LInv /\ Evidence!Init
  BY PipelineStarts, LifecycleStarts
<1>2. MInv /\ LInv /\ [PNext]_pvars => MInv' /\ LInv' /\ [Evidence!Next]_row
  BY PipelineKeeps, LifecycleStep
<1> QED
  BY <1>1, <1>2, PTL DEF PSpec, ImplementsLifecycle, Evidence!Spec
=============================================================================
