--------------------------- MODULE Workflow_proofs ---------------------------
(***************************************************************************)
(* What holds of workflows at the terminal, for any parameters: the steps  *)
(* several users command, and the file that defines them; and of the desk  *)
(* these make up with the hub.                                             *)
(***************************************************************************)
EXTENDS MCDesk, Hub_proofs

-----------------------------------------------------------------------------
(* The steps of a workflow, for any users, steps and commands.             *)

(* A refresh of the panel under way.                                       *)
RefreshRecord == [at : {"spawned", "read", "over"}, asked : 0..MaxIssued, read : 0..None,
                  alone : BOOLEAN]

(* What is known of a step while its commands are under way.               *)
Tracked(s) ==
  /\ \A c \in InFlight(s) : c.op \in batch[s].ops
  /\ StateOf(s) \in {batch[s].from} \cup {Target[o] : o \in batch[s].ops}
  /\ batch[s].from = "absent" /\ "claim" \notin batch[s].ops => StateOf(s) = "absent"
  /\ "claim" \in batch[s].ops /\ ~batch[s].lost /\ StateOf(s) = "absent"
       => \E c \in InFlight(s) : c.op = "claim"

(* Once nothing is in flight the state is an outcome of the batch.         *)
Settled(s) == InFlight(s) = {} => StateOf(s) \in Outcomes(batch[s])

(* The commands applied, received and on their way are no more than those  *)
(* issued.                                                                 *)
Counted ==
  /\ IsFiniteSet(spawned)
  /\ version + Len(inbox) + Cardinality(spawned) <= nIssued

(* The inductive invariant.                                                *)
WsInv ==
  /\ StepsTypeOK
  /\ refreshes \in Seq(RefreshRecord)
  /\ Counted
  /\ \A s \in WStep : Tracked(s) /\ Settled(s)

-----------------------------------------------------------------------------
(* The four commands and the states they lead to.                          *)
LEMMA Targets4 ==
  /\ Op = {"claim", "start", "done", "fail"}
  /\ \A o \in Op : Target[o] \in RowState /\ Target[o] # "absent"
  /\ Target["claim"] = "claimed"
BY DEF Op, Target, RowState

(* What is in a queue after a send,                                        *)
LEMMA RangeOfAppend ==
  ASSUME NEW S, NEW q \in Seq(S), NEW e \in S
  PROVE  Range(Append(q, e)) = Range(q) \cup {e}
<1>1. DOMAIN q = 1..Len(q) /\ DOMAIN Append(q, e) = 1..(Len(q) + 1)
  OBVIOUS
<1>2. \A i \in 1..Len(q) : Append(q, e)[i] = q[i]
  OBVIOUS
<1>3. Append(q, e)[Len(q) + 1] = e
  OBVIOUS
<1>4. ASSUME NEW x PROVE x \in Range(Append(q, e)) <=> x \in Range(q) \cup {e}
  BY <1>1, <1>2, <1>3 DEF Range
<1> QED BY <1>4

(* and before a receive.                                                   *)
LEMMA RangeOfTail ==
  ASSUME NEW S, NEW q \in Seq(S), q # <<>>
  PROVE  Range(q) = Range(Tail(q)) \cup {Head(q)}
<1>1. Len(q) \in Nat \ {0} /\ DOMAIN q = 1..Len(q) /\ DOMAIN Tail(q) = 1..(Len(q) - 1)
  OBVIOUS
<1>2. Head(q) = q[1] /\ \A i \in 1..(Len(q) - 1) : Tail(q)[i] = q[i + 1]
  OBVIOUS
<1>3. \A i \in 1..Len(q) : i = 1 \/ ((i - 1) \in 1..(Len(q) - 1) /\ q[i] = Tail(q)[i - 1])
  BY <1>1, <1>2
<1>4. ASSUME NEW x PROVE x \in Range(q) <=> x \in Range(Tail(q)) \cup {Head(q)}
  <2>1. ASSUME NEW i \in 1..Len(q), x = q[i] PROVE x \in Range(Tail(q)) \cup {Head(q)}
    BY <2>1, <1>1, <1>2, <1>3 DEF Range
  <2>2. ASSUME NEW i \in 1..(Len(q) - 1), x = Tail(q)[i] PROVE x \in Range(q)
    BY <2>2, <1>1, <1>2 DEF Range
  <2>3. Head(q) \in Range(q)
    BY <1>1, <1>2 DEF Range
  <2> QED BY <1>1, <2>1, <2>2, <2>3 DEF Range
<1> QED BY <1>4

(* What steps of the writer and of its senders do to what is under way.    *)
LEMMA InFlightIssue ==
  ASSUME NEW c, spawned' = spawned \cup {c}, inbox' = inbox
  PROVE  \A t : InFlight(t)' = InFlight(t) \cup {d \in {c} : d.step = t}
BY DEF InFlight

(* broadcast it still is,                                                  *)
LEMMA InFlightBroadcast ==
  ASSUME inbox \in Seq(Commands), NEW c \in Commands, c \in spawned,
         spawned' = spawned \ {c}, inbox' = Append(inbox, c)
  PROVE  \A t : InFlight(t)' = InFlight(t)
<1>1. Range(inbox') = Range(inbox) \cup {c}
  BY RangeOfAppend
<1> QED BY <1>1 DEF InFlight

(* until the writer takes it.                                              *)
LEMMA InFlightTail ==
  ASSUME inbox \in Seq(Commands), inbox # <<>>, inbox' = Tail(inbox), spawned' = spawned
  PROVE  \A t : InFlight(t) = InFlight(t)' \cup {d \in {Head(inbox)} : d.step = t}
<1>1. Range(inbox) = Range(inbox') \cup {Head(inbox)}
  BY RangeOfTail
<1> QED BY <1>1 DEF InFlight

-----------------------------------------------------------------------------
(* The invariant holds at the start.                                       *)
LEMMA WsInitInv == WsInit => WsInv
<1> SUFFICES ASSUME WsInit PROVE WsInv
  OBVIOUS
<1>1. steps \in [WStep -> Row \cup {NoRow}]
  BY StepsAssumption DEF WsInit
<1>2. \A s \in WStep : StateOf(s) \in RowState \cup {"absent"}
  BY <1>1 DEF StateOf, Row
<1>4. batch \in [WStep -> [from : RowState \cup {"absent"}, ops : SUBSET Op, lost : BOOLEAN]]
  BY <1>2 DEF WsInit
<1>5. StepsTypeOK
  BY <1>1, <1>4, StepsAssumption DEF WsInit, StepsTypeOK, None
<1>6. Counted
  BY FS_EmptySet, StepsAssumption DEF WsInit, Counted
<1>7. \A s \in WStep : InFlight(s) = {}
  BY DEF WsInit, InFlight, Range
<1>11. \A s \in WStep : /\ batch[s].from = StateOf(s) /\ batch[s].ops = {}
                         /\ batch[s].lost = TRUE
  <2> SUFFICES ASSUME NEW s \in WStep
               PROVE  batch[s].from = StateOf(s) /\ batch[s].ops = {} /\ batch[s].lost = TRUE
    OBVIOUS
  <2>1. batch[s] = [from |-> StateOf(s), ops |-> {}, lost |-> TRUE]
    BY DEF WsInit
  <2> QED BY <2>1
<1>8. \A s \in WStep : Tracked(s)
  BY <1>7, <1>11 DEF Tracked
<1>9. \A s \in WStep : Settled(s)
  <2> SUFFICES ASSUME NEW s \in WStep PROVE StateOf(s) \in Outcomes(batch[s])
    BY DEF Settled
  <2> QED BY <1>11 DEF Outcomes
<1>10. refreshes \in Seq(RefreshRecord)
  BY DEF WsInit
<1> QED BY <1>5, <1>6, <1>8, <1>9, <1>10 DEF WsInv

(* A step that nothing was done to keeps what is known of it.              *)
LEMMA StepUntouched ==
  ASSUME NEW s \in WStep, Tracked(s), Settled(s),
         InFlight(s)' = InFlight(s), steps'[s] = steps[s], batch'[s] = batch[s]
  PROVE  Tracked(s)' /\ Settled(s)'
<1>1. StateOf(s)' = StateOf(s)
  BY DEF StateOf
<1>2. Tracked(s)'
  BY <1>1 DEF Tracked
<1>3. Settled(s)'
  BY <1>1 DEF Settled, Outcomes
<1> QED BY <1>2, <1>3

(* A command issued while others are under way joins their batch.          *)
LEMMA IssuePreserves ==
  ASSUME WsInv, NEW u \in WUser, NEW s \in WStep, NEW op \in Op, Issue(u, s, op)
  PROVE  WsInv'
<1> DEFINE c == [n |-> nIssued + 1, step |-> s, op |-> op, user |-> u]
<1>1. /\ nIssued < MaxIssued /\ nIssued' = nIssued + 1
      /\ spawned' = spawned \cup {c} /\ inbox' = inbox /\ steps' = steps
      /\ version' = version /\ dbErrors' = dbErrors
      /\ refreshes' = refreshes /\ slot' = slot /\ panel' = panel
  BY DEF Issue, view
<1>2. c \in Commands
  BY <1>1, StepsAssumption DEF Commands, WsInv, StepsTypeOK
<1> DEFINE b == Batched(s, op)
<1>3. batch' = [batch EXCEPT ![s] = b]
  BY DEF Issue
<1>4. batch \in [WStep -> [from : RowState \cup {"absent"}, ops : SUBSET Op, lost : BOOLEAN]]
  BY DEF WsInv, StepsTypeOK
<1>5. StateOf(s) \in RowState \cup {"absent"}
  BY DEF WsInv, StepsTypeOK, StateOf, Row
<1>6. b \in [from : RowState \cup {"absent"}, ops : SUBSET Op, lost : BOOLEAN]
  BY <1>4, <1>5 DEF Batched
<1>7. batch'[s] = b /\ \A t \in WStep : t # s => batch'[t] = batch[t]
  BY <1>3, <1>4
<1>8. StepsTypeOK'
  <2>1. batch' \in [WStep -> [from : RowState \cup {"absent"}, ops : SUBSET Op, lost : BOOLEAN]]
    BY <1>3, <1>4, <1>6
  <2>2. spawned' \subseteq Commands
    BY <1>1, <1>2 DEF WsInv, StepsTypeOK
  <2>3. nIssued' \in 0..MaxIssued
    BY <1>1, StepsAssumption DEF WsInv, StepsTypeOK
  <2> QED BY <1>1, <2>1, <2>2, <2>3 DEF WsInv, StepsTypeOK
<1>9. Counted'
  <2>4. IsFiniteSet(spawned) /\ Cardinality(spawned) \in Nat
    BY FS_CardinalityType DEF WsInv, Counted
  <2>1. IsFiniteSet(spawned') /\ Cardinality(spawned') <= Cardinality(spawned) + 1
    <3>1. spawned' = spawned \cup {c}
      BY <1>1
    <3> HIDE DEF c
    <3>2. /\ IsFiniteSet(spawned \cup {c})
          /\ Cardinality(spawned \cup {c}) = IF c \in spawned THEN Cardinality(spawned)
                                             ELSE Cardinality(spawned) + 1
      BY <2>4, FS_AddElement
    <3> QED BY <2>4, <3>1, <3>2
  <2>2. Cardinality(spawned') \in Nat
    BY <2>1, FS_CardinalityType
  <2>3. Len(inbox) \in Nat /\ version \in Nat /\ nIssued \in Nat
    BY DEF WsInv, StepsTypeOK
  <2> QED BY <1>1, <2>1, <2>2, <2>3, <2>4 DEF WsInv, Counted
<1>16. c.step = s /\ c.op = op
  OBVIOUS
<1>10. \A t : InFlight(t)' = InFlight(t) \cup {d \in {c} : d.step = t}
  <2> HIDE DEF c
  <2> QED BY <1>1, InFlightIssue
<1>11. InFlight(s)' = InFlight(s) \cup {c} /\ c.op = op
  <2> HIDE DEF c
  <2> QED BY <1>10, <1>16
<1>12. ASSUME NEW t \in WStep, t # s PROVE Tracked(t)' /\ Settled(t)'
  <2>1. InFlight(t)' = InFlight(t)
    <3> HIDE DEF c
    <3> QED BY <1>10, <1>12, <1>16
  <2> QED BY <1>1, <1>7, <1>12, <2>1, StepUntouched DEF WsInv
<1>13. Settled(s)'
  BY <1>11 DEF Settled
<1>14. StateOf(s)' = StateOf(s)
  BY <1>1 DEF StateOf
<1>15. Tracked(s)'
  <2>1. CASE InFlight(s) = {}
    <3>1. batch'[s].from = StateOf(s) /\ batch'[s].ops = {op}
      BY <1>7, <2>1 DEF Batched
    <3> HIDE DEF c, b
    <3>2. InFlight(s)' = {c}
      BY <1>11, <2>1
    <3> QED BY <1>11, <1>14, <3>2, <3>1 DEF Tracked
  <2>2. CASE InFlight(s) # {}
    <3>1. batch'[s].from = batch[s].from /\ batch'[s].ops = batch[s].ops \cup {op}
          /\ batch'[s].lost = batch[s].lost
      BY <1>4, <1>7, <2>2 DEF Batched
    <3>2. Tracked(s)
      BY DEF WsInv
    <3> HIDE DEF c, b
    <3> QED BY <1>11, <1>14, <3>1, <3>2 DEF Tracked
  <2> QED BY <2>1, <2>2
<1> QED BY <1>1, <1>8, <1>9, <1>12, <1>13, <1>15 DEF WsInv

(* The broadcast of a command loses and repeats none.                      *)
LEMMA BroadcastPreserves ==
  ASSUME WsInv, NEW c \in spawned, Broadcast(c)
  PROVE  WsInv'
<1>1. /\ spawned' = spawned \ {c} /\ inbox' = Append(inbox, c) /\ steps' = steps
      /\ nIssued' = nIssued /\ version' = version /\ dbErrors' = dbErrors /\ batch' = batch
      /\ refreshes' = refreshes /\ slot' = slot /\ panel' = panel
  BY DEF Broadcast, view
<1>2. inbox \in Seq(Commands) /\ c \in Commands
  BY DEF WsInv, StepsTypeOK
<1>3. StepsTypeOK'
  BY <1>1, <1>2 DEF WsInv, StepsTypeOK
<1>4. Counted'
  <2>1. IsFiniteSet(spawned) /\ Cardinality(spawned) \in Nat
    BY FS_CardinalityType DEF WsInv, Counted
  <2>2. IsFiniteSet(spawned \ {c}) /\ Cardinality(spawned \ {c}) = Cardinality(spawned) - 1
    BY <2>1, FS_RemoveElement
  <2>3. Len(inbox') = Len(inbox) + 1 /\ Len(inbox) \in Nat
    BY <1>1, <1>2
  <2>4. version \in Nat /\ nIssued \in Nat
    BY DEF WsInv, StepsTypeOK
  <2> QED BY <1>1, <2>1, <2>2, <2>3, <2>4 DEF WsInv, Counted
<1>5. \A t : InFlight(t)' = InFlight(t)
  BY <1>1, <1>2, InFlightBroadcast
<1>6. \A s \in WStep : Tracked(s)' /\ Settled(s)'
  BY <1>1, <1>5, StepUntouched DEF WsInv
<1> QED BY <1>1, <1>3, <1>4, <1>6 DEF WsInv

(* A command that gets lost leaves the step as the others left it.         *)
LEMMA LosePreserves ==
  ASSUME WsInv, NEW c \in spawned, LoseCommand(c)
  PROVE  WsInv'
<1>1. /\ spawned' = spawned \ {c} /\ inbox' = inbox /\ steps' = steps
      /\ nIssued' = nIssued /\ version' = version /\ dbErrors' = dbErrors
      /\ batch' = [batch EXCEPT ![c.step].lost = TRUE]
      /\ refreshes' = refreshes /\ slot' = slot /\ panel' = panel
  BY DEF LoseCommand, view
<1>2. c \in Commands
  BY DEF WsInv, StepsTypeOK
<1>3. PICK s \in WStep : s = c.step
  BY <1>2 DEF Commands
<1>4. batch \in [WStep -> [from : RowState \cup {"absent"}, ops : SUBSET Op, lost : BOOLEAN]]
  BY DEF WsInv, StepsTypeOK
<1>5. batch' = [batch EXCEPT ![s] = [batch[s] EXCEPT !.lost = TRUE]]
  BY <1>1, <1>3
<1>6. /\ batch' \in [WStep -> [from : RowState \cup {"absent"}, ops : SUBSET Op, lost : BOOLEAN]]
      /\ \A t \in WStep : t # s => batch'[t] = batch[t]
      /\ batch'[s].from = batch[s].from /\ batch'[s].ops = batch[s].ops /\ batch'[s].lost
  BY <1>4, <1>5
<1>7. StepsTypeOK'
  BY <1>1, <1>6 DEF WsInv, StepsTypeOK
<1>8. Counted'
  <2>1. IsFiniteSet(spawned) /\ Cardinality(spawned) \in Nat
    BY FS_CardinalityType DEF WsInv, Counted
  <2>2. IsFiniteSet(spawned \ {c}) /\ Cardinality(spawned \ {c}) = Cardinality(spawned) - 1
    BY <2>1, FS_RemoveElement
  <2>3. version \in Nat /\ nIssued \in Nat /\ Len(inbox) \in Nat
    BY DEF WsInv, StepsTypeOK
  <2> QED BY <1>1, <2>1, <2>2, <2>3 DEF WsInv, Counted
<1>9. ASSUME NEW t \in WStep, t # s PROVE Tracked(t)' /\ Settled(t)'
  <2>1. InFlight(t)' = InFlight(t)
    BY <1>1, <1>3, <1>9 DEF InFlight
  <2> QED BY <1>1, <1>6, <1>9, <2>1, StepUntouched DEF WsInv
<1>10. InFlight(s)' \subseteq InFlight(s) /\ StateOf(s)' = StateOf(s) /\ Tracked(s)
  BY <1>1 DEF InFlight, StateOf, WsInv
<1>11. Tracked(s)'
  BY <1>6, <1>10 DEF Tracked
<1>12. Settled(s)'
  BY <1>6, <1>10 DEF Tracked, Settled, Outcomes
<1> QED BY <1>1, <1>7, <1>8, <1>9, <1>11, <1>12 DEF WsInv

(* The head of the queue is taken; a write may count one version.          *)
LEMMA TakeCounted ==
  ASSUME WsInv, inbox # <<>>, inbox' = Tail(inbox), spawned' = spawned, nIssued' = nIssued,
         version' = version \/ version' = version + 1
  PROVE  /\ Counted' /\ version' \in 0..MaxIssued /\ inbox' \in Seq(Commands)
         /\ Head(inbox) \in Commands
<1>1. IsFiniteSet(spawned) /\ Cardinality(spawned) \in Nat
  BY FS_CardinalityType DEF WsInv, Counted
<1>2. inbox \in Seq(Commands) /\ version \in Nat /\ nIssued \in 0..MaxIssued
  BY DEF WsInv, StepsTypeOK
<1>3. /\ Len(inbox) \in Nat \ {0} /\ inbox' \in Seq(Commands) /\ Head(inbox) \in Commands
      /\ Len(inbox') = Len(inbox) - 1
  BY <1>2
<1>4. version + Len(inbox) + Cardinality(spawned) <= nIssued
  BY DEF WsInv, Counted
<1> QED BY <1>1, <1>2, <1>3, <1>4, StepsAssumption DEF Counted

(* What the last command about a step asks for, or nothing to ask it of.   *)
LEMMA PersistPreserves ==
  ASSUME WsInv, Persist
  PROVE  WsInv'
<1>1. /\ inbox # <<>> /\ inbox' = Tail(inbox) /\ spawned' = spawned /\ nIssued' = nIssued
      /\ dbErrors' = dbErrors /\ batch' = batch
      /\ refreshes' = refreshes /\ slot' = slot /\ panel' = panel
      /\ ClaimStep(Head(inbox)) \/ SetState(Head(inbox))
  BY DEF Persist, view
<1>2. PICK c : c = Head(inbox)
  OBVIOUS
<1>3. version' = version \/ version' = version + 1
  BY <1>1 DEF ClaimStep, SetState
<1>4. Counted' /\ version' \in 0..MaxIssued /\ inbox' \in Seq(Commands) /\ c \in Commands
  BY <1>1, <1>2, <1>3, TakeCounted
<1>5. c.step \in WStep /\ c.op \in Op /\ c.user \in WUser
  BY <1>4 DEF Commands
<1>6. steps \in [WStep -> Row \cup {NoRow}]
  BY DEF WsInv, StepsTypeOK
<1>7. PICK s \in WStep : s = c.step
  BY <1>5
<1>8. \/ c.op = "claim" /\ steps' = [steps EXCEPT ![s] = [state |-> "claimed", by |-> c.user]]
      \/ c.op # "claim" /\ steps[s] = NoRow /\ steps' = steps
      \/ c.op # "claim" /\ steps[s] # NoRow /\ steps' = [steps EXCEPT ![s].state = Target[c.op]]
  BY <1>1, <1>2, <1>7 DEF ClaimStep, SetState
<1>9. steps' \in [WStep -> Row \cup {NoRow}] /\ \A t \in WStep : t # s => steps'[t] = steps[t]
  <2>1. CASE c.op = "claim"
    BY <1>5, <1>6, <1>8, <2>1 DEF Row, RowState
  <2>2. CASE c.op # "claim" /\ steps[s] = NoRow
    BY <1>6, <1>8, <2>2
  <2>3. CASE c.op # "claim" /\ steps[s] # NoRow
    <3>1. steps[s] \in Row /\ Target[c.op] \in RowState
      BY <1>5, <1>6, <2>3, Targets4
    <3>2. [steps[s] EXCEPT !.state = Target[c.op]] \in Row
      BY <3>1 DEF Row
    <3>3. steps' = [steps EXCEPT ![s] = [steps[s] EXCEPT !.state = Target[c.op]]]
      BY <1>8, <2>3
    <3> QED BY <1>6, <3>2, <3>3
  <2> QED BY <2>1, <2>2, <2>3
<1>10. StepsTypeOK'
  BY <1>1, <1>4, <1>9 DEF WsInv, StepsTypeOK
<1>11. \A t : InFlight(t) = InFlight(t)' \cup {d \in {c} : d.step = t}
  BY <1>1, <1>2, InFlightTail DEF WsInv, StepsTypeOK
<1>12. ASSUME NEW t \in WStep, t # s PROVE Tracked(t)' /\ Settled(t)'
  <2>1. InFlight(t)' = InFlight(t)
    BY <1>7, <1>11, <1>12
  <2> QED BY <1>1, <1>9, <1>12, <2>1, StepUntouched DEF WsInv
<1>13. InFlight(s) = InFlight(s)' \cup {c}
  BY <1>7, <1>11
<1>14. \/ StateOf(s)' = Target[c.op]
       \/ c.op # "claim" /\ StateOf(s) = "absent" /\ StateOf(s)' = "absent"
  <2>1. CASE c.op = "claim"
    BY <1>5, <1>6, <1>8, <2>1, Targets4, StepsAssumption DEF Row, RowState, StateOf
  <2>2. CASE c.op # "claim" /\ steps[s] = NoRow
    BY <1>8, <2>2 DEF StateOf
  <2>3. CASE c.op # "claim" /\ steps[s] # NoRow
    <3>1. steps[s] \in Row /\ Target[c.op] \in RowState
      BY <1>5, <1>6, <2>3, Targets4
    <3>2. [steps[s] EXCEPT !.state = Target[c.op]] \in Row
      BY <3>1 DEF Row
    <3>3. steps'[s] = [steps[s] EXCEPT !.state = Target[c.op]]
      BY <1>6, <1>8, <2>3
    <3>4. steps'[s] # NoRow /\ steps'[s].state = Target[c.op]
      BY <3>1, <3>2, <3>3, StepsAssumption DEF Row
    <3> QED BY <3>4 DEF StateOf
  <2> QED BY <2>1, <2>2, <2>3
<1>15. Tracked(s) /\ c.op \in batch[s].ops /\ Target[c.op] # "absent"
  BY <1>5, <1>13, Targets4 DEF WsInv, Tracked
<1>16. ASSUME batch[s].from = "absent", "claim" \notin batch[s].ops
       PROVE  StateOf(s)' = "absent"
  <2>1. StateOf(s) = "absent" /\ c.op # "claim"
    BY <1>15, <1>16 DEF Tracked
  <2>2. steps[s] = NoRow
    BY <1>6, <2>1 DEF StateOf, Row, RowState
  <2> QED BY <1>8, <2>1, <2>2 DEF StateOf
<1>17. Tracked(s)'
  BY <1>1, <1>13, <1>14, <1>15, <1>16 DEF Tracked
<1>18. Settled(s)'
  <2> SUFFICES ASSUME InFlight(s)' = {} PROVE StateOf(s)' \in Outcomes(batch[s])
    BY <1>1 DEF Settled
  <2>1. CASE StateOf(s)' = Target[c.op]
    BY <1>15, <1>16, <2>1 DEF Outcomes
  <2>2. CASE c.op # "claim" /\ StateOf(s) = "absent" /\ StateOf(s)' = "absent"
    <3>1. batch[s].from = "absent"
      BY <1>15, <2>2, Targets4 DEF Tracked, WsInv, StepsTypeOK
    <3>2. batch[s].lost \/ "claim" \notin batch[s].ops
      BY <1>13, <1>15, <2>2 DEF Tracked
    <3> QED BY <2>2, <3>1, <3>2 DEF Outcomes
  <2> QED BY <1>14, <2>1, <2>2
<1> QED BY <1>1, <1>4, <1>10, <1>12, <1>17, <1>18 DEF WsInv

(* A command the database refuses leaves the step as the others left it.   *)
LEMMA RefusalPreserves ==
  ASSUME WsInv, DbRefuses
  PROVE  WsInv'
<1>1. /\ inbox # <<>> /\ inbox' = Tail(inbox) /\ spawned' = spawned /\ nIssued' = nIssued
      /\ dbErrors < MaxDbErrors /\ dbErrors' = dbErrors + 1 /\ steps' = steps
      /\ version' = version /\ batch' = [batch EXCEPT ![Head(inbox).step].lost = TRUE]
      /\ refreshes' = refreshes /\ slot' = slot /\ panel' = panel
  BY DEF DbRefuses, view
<1>2. PICK c : c = Head(inbox)
  OBVIOUS
<1>3. Counted' /\ inbox' \in Seq(Commands) /\ c \in Commands
  BY <1>1, <1>2, TakeCounted
<1>4. PICK s \in WStep : s = c.step
  BY <1>3 DEF Commands
<1>5. batch \in [WStep -> [from : RowState \cup {"absent"}, ops : SUBSET Op, lost : BOOLEAN]]
  BY DEF WsInv, StepsTypeOK
<1>6. batch' = [batch EXCEPT ![s] = [batch[s] EXCEPT !.lost = TRUE]]
  BY <1>1, <1>2, <1>4
<1>7. /\ batch' \in [WStep -> [from : RowState \cup {"absent"}, ops : SUBSET Op, lost : BOOLEAN]]
      /\ \A t \in WStep : t # s => batch'[t] = batch[t]
  BY <1>5, <1>6
<1>8. batch'[s].from = batch[s].from /\ batch'[s].ops = batch[s].ops /\ batch'[s].lost
  BY <1>5, <1>6
<1>9. StepsTypeOK'
  <2>1. dbErrors' \in 0..MaxDbErrors
    BY <1>1, StepsAssumption DEF WsInv, StepsTypeOK
  <2> QED BY <1>1, <1>3, <1>7, <2>1 DEF WsInv, StepsTypeOK
<1>10. \A t : InFlight(t) = InFlight(t)' \cup {d \in {c} : d.step = t}
  BY <1>1, <1>2, InFlightTail DEF WsInv, StepsTypeOK
<1>11. ASSUME NEW t \in WStep, t # s PROVE Tracked(t)' /\ Settled(t)'
  <2>1. InFlight(t)' = InFlight(t)
    BY <1>4, <1>10, <1>11
  <2> QED BY <1>1, <1>7, <1>11, <2>1, StepUntouched DEF WsInv
<1>12. InFlight(s) = InFlight(s)' \cup {c} /\ StateOf(s)' = StateOf(s) /\ Tracked(s)
  BY <1>1, <1>4, <1>10 DEF StateOf, WsInv
<1>13. Tracked(s)'
  BY <1>8, <1>12 DEF Tracked
<1>14. Settled(s)'
  BY <1>8, <1>12 DEF Tracked, Settled, Outcomes
<1> QED BY <1>1, <1>3, <1>9, <1>11, <1>13, <1>14 DEF WsInv

(* Refreshes read the table and leave it alone.                            *)
LEMMA ViewPreserves ==
  ASSUME WsInv, UNCHANGED <<steps, spawned, inbox, nIssued, batch, version>>,
         dbErrors' \in 0..MaxDbErrors,
         refreshes' \in Seq(RefreshRecord), slot' \in 0..None, panel' \in 0..MaxIssued
  PROVE  WsInv'
<1>1. \A k \in DOMAIN refreshes' : refreshes'[k] \in RefreshRecord
  OBVIOUS
<1>2. StepsTypeOK'
  BY <1>1 DEF WsInv, StepsTypeOK, RefreshRecord
<1>3. Counted'
  BY DEF WsInv, Counted
<1>4. \A t : InFlight(t)' = InFlight(t)
  BY DEF InFlight
<1>5. \A s \in WStep : Tracked(s)' /\ Settled(s)'
  BY <1>4, StepUntouched DEF WsInv
<1> QED BY <1>2, <1>3, <1>5 DEF WsInv

(* A refresh begins,                                                       *)
LEMMA RefreshPreservesSteps == WsInv /\ Refresh => WsInv'
<1> SUFFICES ASSUME WsInv, Refresh PROVE WsInv'
  OBVIOUS
<1> DEFINE a == \A r \in Range(refreshes) : r.at = "over"
<1>1. refreshes' = Append(refreshes, [at |-> "spawned", asked |-> version, read |-> None, alone |-> a])
  BY DEF Refresh
<1>2. a \in BOOLEAN
  OBVIOUS
<1>3. version \in 0..MaxIssued /\ None \in 0..None /\ refreshes \in Seq(RefreshRecord)
  BY StepsAssumption DEF WsInv, StepsTypeOK, None
<1> HIDE DEF a
<1>4. [at |-> "spawned", asked |-> version, read |-> None, alone |-> a] \in RefreshRecord
  BY <1>2, <1>3 DEF RefreshRecord
<1>5. refreshes' \in Seq(RefreshRecord)
  BY <1>1, <1>3, <1>4
<1> QED BY <1>5, ViewPreserves DEF Refresh, store, WsInv, StepsTypeOK

(* reads the table,                                                        *)
LEMMA ReadTablePreserves ==
  ASSUME WsInv, NEW k \in DOMAIN refreshes, ReadTable(k)
  PROVE  WsInv'
<1>1. refreshes \in Seq(RefreshRecord) /\ refreshes[k] \in RefreshRecord /\ version \in 0..None
  BY StepsAssumption DEF WsInv, StepsTypeOK, None
<1>2. refreshes' = [refreshes EXCEPT ![k] = [refreshes[k] EXCEPT !.at = "read", !.read = version]]
  BY <1>1 DEF ReadTable, RefreshRecord
<1>3. [refreshes[k] EXCEPT !.at = "read", !.read = version] \in RefreshRecord
  BY <1>1 DEF RefreshRecord
<1>4. refreshes' \in Seq(RefreshRecord)
  BY <1>1, <1>2, <1>3
<1> QED BY <1>4, ViewPreserves DEF ReadTable, store, WsInv, StepsTypeOK

(* or fails to,                                                            *)
LEMMA ReadFailsPreserves ==
  ASSUME WsInv, NEW k \in DOMAIN refreshes, ReadFails(k)
  PROVE  WsInv'
<1>1. refreshes \in Seq(RefreshRecord) /\ refreshes[k] \in RefreshRecord
  BY DEF WsInv
<1>2. refreshes' = [refreshes EXCEPT ![k] = [refreshes[k] EXCEPT !.at = "over"]]
  BY DEF ReadFails
<1>3. [refreshes[k] EXCEPT !.at = "over"] \in RefreshRecord
  BY <1>1 DEF RefreshRecord
<1>4. refreshes' \in Seq(RefreshRecord)
  BY <1>1, <1>2, <1>3
<1>5. dbErrors' \in 0..MaxDbErrors
  BY StepsAssumption DEF ReadFails, WsInv, StepsTypeOK
<1> QED BY <1>4, <1>5, ViewPreserves DEF ReadFails, WsInv, StepsTypeOK

(* leaves it in the slot                                                   *)
LEMMA PutSlotPreserves ==
  ASSUME WsInv, NEW k \in DOMAIN refreshes, PutSlot(k)
  PROVE  WsInv'
<1>1. refreshes \in Seq(RefreshRecord) /\ refreshes[k] \in RefreshRecord
  BY DEF WsInv
<1>2. refreshes' = [refreshes EXCEPT ![k] = [refreshes[k] EXCEPT !.at = "over"]]
  BY DEF PutSlot
<1>3. [refreshes[k] EXCEPT !.at = "over"] \in RefreshRecord /\ refreshes[k].read \in 0..None
  BY <1>1 DEF RefreshRecord
<1>4. refreshes' \in Seq(RefreshRecord)
  BY <1>1, <1>2, <1>3
<1> QED BY <1>3, <1>4, ViewPreserves DEF PutSlot, store, WsInv, StepsTypeOK

(* where the panel finds it.                                               *)
LEMMA CollectPreserves == WsInv /\ Collect => WsInv'
<1> SUFFICES ASSUME WsInv, Collect PROVE WsInv'
  OBVIOUS
<1>1. slot \in 0..MaxIssued /\ None \in 0..None
  BY StepsAssumption DEF Collect, WsInv, StepsTypeOK, None
<1> QED BY <1>1, ViewPreserves DEF Collect, store, WsInv, StepsTypeOK

(* Every step preserves the invariant.                                     *)
LEMMA WsStepInv == WsInv /\ [WsNext]_wsvars => WsInv'
<1> SUFFICES ASSUME WsInv, [WsNext]_wsvars PROVE WsInv'
  OBVIOUS
<1>1. ASSUME NEW u \in WUser, NEW s \in WStep, NEW op \in Op, Issue(u, s, op) PROVE WsInv'
  BY <1>1, IssuePreserves
<1>2. CASE WriterStep
  BY <1>2, PersistPreserves, RefusalPreserves, BroadcastPreserves, LosePreserves
  DEF WriterStep
<1>3. CASE Refresh
  BY <1>3, RefreshPreservesSteps
<1>4. CASE RefreshStep
  BY <1>4, ReadTablePreserves, PutSlotPreserves, ReadFailsPreserves, CollectPreserves DEF RefreshStep
<1>5. CASE UNCHANGED wsvars
  BY <1>5, ViewPreserves DEF wsvars, store, view, WsInv, StepsTypeOK
<1> QED BY <1>1, <1>2, <1>3, <1>4, <1>5 DEF WsNext

(* The invariant holds of every behaviour.                                 *)
LEMMA WsInvCorrect == WsSpec => []WsInv
BY WsInitInv, WsStepInv, PTL DEF WsSpec

(* The table, the commands in flight and the panel keep their kinds, and   *)
(* no version is ahead of the commands issued (app.rs:443-542,             *)
(* writer.rs:35-67).                                                       *)
THEOREM StepsTypeCorrect == WsSpec => []StepsTypeOK
<1>1. WsInv => StepsTypeOK
  BY DEF WsInv
<1> QED BY <1>1, WsInvCorrect, PTL

(* Once no command of a step is under way its state is one the commands    *)
(* issued since it was last at rest can lead to, in whatever order the     *)
(* tasks broadcast them (app.rs:517-522, sqlite.rs:848-866, 961-979).      *)
THEOREM StepsCorrect == WsSpec => []StepsSettle
<1>1. WsInv => StepsSettle
  BY DEF WsInv, Settled, StepsSettle
<1> QED BY <1>1, WsInvCorrect, PTL

-----------------------------------------------------------------------------
(* The workflow file, for any files.                                       *)

(* The entries that still keep a step waiting: those whose step is not     *)
(* placed.                                                                 *)
Owed(i) == {e \in Entries : Dependent(e) = i /\ Dependency(e) \notin Range(order)}

(* What the checks have established of a file that is sorted.              *)
Checked ==
  /\ \A j, k \in DOMAIN file.steps : Step(j).id = Step(k).id => j = k
  /\ \A k \in DOMAIN file.steps : Deps(k) \subseteq Known

(* An id is in the order or on the stack, and there once, exactly if       *)
(* nothing keeps it waiting; and its degree counts what does.              *)
Sorting ==
  /\ Checked
  /\ inDegree \in [Known -> Nat]
  /\ \A i \in Known : inDegree[i] = Cardinality(Owed(i))
  /\ \A i \in Known : i \in Range(order) \cup Range(stack) <=> Owed(i) = {}
  /\ \A m, n \in DOMAIN order : order[m] = order[n] => m = n
  /\ \A m, n \in DOMAIN stack : stack[m] = stack[n] => m = n
  /\ Range(order) \cap Range(stack) = {}
  /\ Respects(order)

(* The inductive invariant: before the sort the file alone; while it runs, *)
(* what is placed, stacked and still owed; after it, what it has found.    *)
WfInv ==
  /\ file \in Files
  /\ stage \in {"parsed", "sorting", "listed"} \cup Results
  /\ stack \in Seq(Known) /\ order \in Seq(Known)
  /\ IF stage \in {"sorting", "ok", "Cycle", "listed"} THEN Sorting
     ELSE order = <<>> /\ stack = <<>> /\ inDegree = <<>>
  /\ stage \in {"ok", "Cycle", "listed"} => stack = <<>>
  /\ stage \in {"ok", "listed"} => Len(order) = Len(file.steps)
  /\ stage = "Cycle" => Len(order) # Len(file.steps)
  /\ printed = IF stage = "listed"
               THEN [n \in DOMAIN order |-> CHOOSE k \in DOMAIN file.steps : Step(k).id = order[n]]
               ELSE <<>>

(* The steps of a file.                                                    *)
LEMMA FileParts ==
  ASSUME file \in Files
  PROVE  /\ file.steps \in Seq(StepDef)
         /\ IsFiniteSet(DOMAIN file.steps) /\ Cardinality(DOMAIN file.steps) = Len(file.steps)
         /\ \A k \in DOMAIN file.steps : Step(k).id \in StepName /\ Step(k).deps \in Seq(Nat)
<1>1. file.steps \in Seq(StepDef)
  BY FileAssumption
<1>2. Len(file.steps) \in Nat /\ DOMAIN file.steps = 1..Len(file.steps)
  BY <1>1
<1>3. IsFiniteSet(1..Len(file.steps)) /\ Cardinality(1..Len(file.steps)) = Len(file.steps)
  <2>1. 1 \in Int /\ Len(file.steps) \in Int
    BY <1>2
  <2> QED BY <1>2, <2>1, FS_Interval
<1>4. \A k \in DOMAIN file.steps : file.steps[k] \in StepDef
  BY <1>1
<1>5. \A k \in DOMAIN file.steps : Step(k).id \in StepName /\ Step(k).deps \in Seq(Nat)
  BY <1>4 DEF Step, StepDef
<1> QED BY <1>1, <1>2, <1>3, <1>5

(* The ids of a file are finitely many, and as many as its steps only if   *)
(* none is there twice.                                                    *)
LEMMA KnownFinite ==
  ASSUME file \in Files
  PROVE  /\ IsFiniteSet(Known) /\ Known \subseteq StepName /\ Known \subseteq Nat
         /\ Cardinality(Known) \in Nat /\ Cardinality(Known) <= Len(file.steps)
         /\ Cardinality(Known) = Len(file.steps) =>
              \A j, k \in DOMAIN file.steps : Step(j).id = Step(k).id => j = k
<1> DEFINE f == [k \in DOMAIN file.steps |-> Step(k).id]
<1>1. f \in Surjection(DOMAIN file.steps, Known)
  BY DEF Surjection, Known
<1>2. \A k \in DOMAIN file.steps : f[k] = Step(k).id
  OBVIOUS
<1> HIDE DEF f
<1>3. /\ IsFiniteSet(Known) /\ Cardinality(Known) <= Len(file.steps)
      /\ Cardinality(Known) = Len(file.steps) => f \in Injection(DOMAIN file.steps, Known)
  BY <1>1, FileParts, FS_Surjection
<1>4. f \in Injection(DOMAIN file.steps, Known) =>
        \A j, k \in DOMAIN file.steps : Step(j).id = Step(k).id => j = k
  BY <1>2 DEF Injection, IsInjective
<1>5. Known \subseteq StepName /\ Known \subseteq Nat
  BY FileParts, FileAssumption DEF Known
<1>6. Cardinality(Known) \in Nat
  BY <1>3, FS_CardinalityType
<1> QED BY <1>3, <1>4, <1>5, <1>6

(* The dependency entries are finitely many.                               *)
LEMMA EntriesFinite ==
  ASSUME file \in Files
  PROVE  /\ IsFiniteSet(Entries)
         /\ \A e \in Entries : e[1] \in DOMAIN file.steps /\ e[2] \in DOMAIN Step(e[1]).deps
         /\ \A k \in DOMAIN file.steps : \A p \in DOMAIN Step(k).deps : <<k, p>> \in Entries
<1> DEFINE row == [k \in DOMAIN file.steps |-> {k} \X DOMAIN Step(k).deps]
           rows == {{k} \X DOMAIN Step(k).deps : k \in DOMAIN file.steps}
<1>1. row \in Surjection(DOMAIN file.steps, rows)
  BY DEF Surjection
<1>2. IsFiniteSet(rows)
  <2> HIDE DEF row, rows
  <2> QED BY <1>1, FileParts, FS_Surjection
<1>3. ASSUME NEW k \in DOMAIN file.steps PROVE IsFiniteSet({k} \X DOMAIN Step(k).deps)
  <2>1. Step(k).deps \in Seq(Nat)
    BY FileParts
  <2>2. DOMAIN Step(k).deps = 1..Len(Step(k).deps) /\ Len(Step(k).deps) \in Nat
    BY <2>1
  <2>3. IsFiniteSet(DOMAIN Step(k).deps)
    <3>1. 1 \in Int /\ Len(Step(k).deps) \in Int
      BY <2>2
    <3> QED BY <2>2, <3>1, FS_Interval
  <2>4. IsFiniteSet({k})
    BY FS_Singleton
  <2> QED BY <2>3, <2>4, FS_Product
<1>4. \A T \in rows : IsFiniteSet(T)
  BY <1>3
<1>5. Entries = UNION rows
  BY DEF Entries
<1>6. IsFiniteSet(Entries)
  <2> HIDE DEF rows
  <2> QED BY <1>2, <1>4, <1>5, FS_UNION
<1>7. ASSUME NEW e \in Entries
      PROVE  e[1] \in DOMAIN file.steps /\ e[2] \in DOMAIN Step(e[1]).deps
  <2>1. PICK k \in DOMAIN file.steps : e \in {k} \X DOMAIN Step(k).deps
    BY DEF Entries
  <2>2. e[1] = k /\ e[2] \in DOMAIN Step(k).deps
    BY <2>1
  <2> QED BY <2>2
<1>8. ASSUME NEW k \in DOMAIN file.steps, NEW p \in DOMAIN Step(k).deps PROVE <<k, p>> \in Entries
  <2>1. <<k, p>> \in {k} \X DOMAIN Step(k).deps
    OBVIOUS
  <2> QED BY <2>1 DEF Entries
<1> QED BY <1>6, <1>7, <1>8

(* Sorting a set of ids loses none and repeats none.                       *)
LEMMA SortedSet ==
  ASSUME file \in Files, NEW S \in SUBSET Known
  PROVE  /\ Sorted(S) \in Seq(S) /\ Range(Sorted(S)) = S
         /\ \A j, k \in DOMAIN Sorted(S) : Sorted(S)[j] = Sorted(S)[k] => j = k
<1> DEFINE N == 1..Cardinality(S)
<1>1. IsFiniteSet(S) /\ Cardinality(S) \in Nat /\ S \in SUBSET Nat
  BY KnownFinite, FS_Subset, FS_CardinalityType
<1>2. /\ \A k \in N : PlaceOf(S, k) \in S
      /\ \A j, k \in N : j < k => PlaceOf(S, j) < PlaceOf(S, k)
  BY <1>1, Places
<1>3. [k \in N |-> PlaceOf(S, k)] \in [N -> S]
  BY <1>2
<1>4. \E s \in [N -> S] : \A j, k \in N : j < k => s[j] < s[k]
  <2> WITNESS [k \in N |-> PlaceOf(S, k)] \in [N -> S]
  <2> QED BY <1>2
<1>5. Sorted(S) \in [N -> S] /\ \A j, k \in N : j < k => Sorted(S)[j] < Sorted(S)[k]
  BY <1>4 DEF Sorted
<1>6. \A j, k \in N : Sorted(S)[j] = Sorted(S)[k] => j = k
  <2> SUFFICES ASSUME NEW j \in N, NEW k \in N, j # k PROVE Sorted(S)[j] # Sorted(S)[k]
    OBVIOUS
  <2>1. Sorted(S)[j] \in Nat /\ Sorted(S)[k] \in Nat
    BY <1>1, <1>5
  <2>2. j < k \/ k < j
    BY <1>1
  <2> QED BY <1>5, <2>1, <2>2
<1>7. Sorted(S) \in Injection(N, S)
  BY <1>5, <1>6 DEF Injection, IsInjective
<1>8. Sorted(S) \in Surjection(N, S)
  <2>1. Cardinality(N) = Cardinality(S)
    <3>1. 1 \in Int /\ Cardinality(S) \in Int
      BY <1>1
    <3> QED BY <1>1, <3>1, FS_Interval
  <2> HIDE DEF N
  <2> QED BY <1>1, <1>7, <2>1, FS_Injection
<1>9. Range(Sorted(S)) = S
  BY <1>5, <1>8 DEF Surjection, Range
<1>10. Sorted(S) \in Seq(S) /\ DOMAIN Sorted(S) = N
  BY <1>1, <1>5
<1> QED BY <1>6, <1>9, <1>10

(* The invariant holds at the start.                                       *)
LEMMA WfInitInv == WfInit => WfInv
BY DEF WfInit, WfInv

(* What is common to all steps: the file does not change.                  *)
LEMMA SameFile ==
  ASSUME file' = file
  PROVE  /\ Known' = Known /\ Entries' = Entries /\ Checked' = Checked
         /\ \A k : Step(k)' = Step(k) /\ Deps(k)' = Deps(k)
         /\ \A e : Dependent(e)' = Dependent(e) /\ Dependency(e)' = Dependency(e)
BY DEF Known, Entries, Checked, Step, Deps, Dependent, Dependency

(* validate_workflow counts the degrees and puts the ready steps on the    *)
(* stack.                                                                  *)
LEMMA ValidatePreserves == WfInv /\ Validate => WfInv'
<1> SUFFICES ASSUME WfInv, Validate PROVE WfInv'
  OBVIOUS
<1>1. /\ file \in Files /\ stage = "parsed" /\ order = <<>> /\ stack = <<>> /\ inDegree = <<>>
      /\ printed = <<>> /\ stage' = Rejected /\ UNCHANGED <<file, order, printed>>
  BY DEF WfInv, Validate
<1>2. CASE Rejected # "sorting"
  <2>1. Rejected \in {"NoSteps", "DuplicateStepId", "UnknownAgent", "UnknownDependency"}
    BY <1>2 DEF Rejected
  <2>2. UNCHANGED <<inDegree, stack>>
    BY <1>2 DEF Validate
  <2> QED BY <1>1, <2>1, <2>2 DEF WfInv, Results
<1>3. CASE Rejected = "sorting"
  <2> DEFINE ready == {i \in Known : InDegree(i) = 0}
  <2>1. inDegree' = [i \in Known |-> InDegree(i)] /\ stack' = Sorted(ready)
    BY <1>3 DEF Validate
  <2>2. ~(Cardinality(Known) < Len(file.steps)) /\ \A k \in DOMAIN file.steps : Deps(k) \subseteq Known
    BY <1>3 DEF Rejected
  <2>3. Len(file.steps) \in Nat
    BY <1>1, FileParts
  <2>4. Checked
    BY <1>1, <2>2, <2>3, KnownFinite DEF Checked
  <2>5. Range(order) = {} /\ Range(order') = {}
    BY <1>1 DEF Range
  <2>6. /\ Known' = Known /\ Entries' = Entries /\ Checked'
        /\ \A e : Dependent(e)' = Dependent(e) /\ Dependency(e)' = Dependency(e)
    BY <1>1, <2>4, SameFile
  <2>7. \A i \in Known : Owed(i)' = {e \in Entries : Dependent(e) = i}
    BY <2>5, <2>6 DEF Owed
  <2>8. \A i \in Known : Owed(i)' \in SUBSET Entries /\ InDegree(i) = Cardinality(Owed(i)')
    BY <2>7 DEF InDegree
  <2>9. \A i \in Known : IsFiniteSet(Owed(i)') /\ Cardinality(Owed(i)') \in Nat
    <3> TAKE i \in Known
    <3>1. PICK T \in SUBSET Entries : T = Owed(i)'
      BY <2>8
    <3>2. IsFiniteSet(T)
      BY <1>1, EntriesFinite, FS_Subset
    <3> QED BY <3>1, <3>2, FS_CardinalityType
  <2>10. \A i \in Known : InDegree(i) = 0 <=> Owed(i)' = {}
    BY <2>8, <2>9, FS_EmptySet
  <2>11. ready \in SUBSET Known
    OBVIOUS
  <2>12. /\ stack' \in Seq(ready) /\ Range(stack') = ready
         /\ \A j, k \in DOMAIN stack' : stack'[j] = stack'[k] => j = k
    <3> HIDE DEF ready
    <3> QED BY <1>1, <2>1, <2>11, SortedSet
  <2>13. stack' \in Seq(Known)
    BY <2>12
  <2>14. inDegree' \in [Known -> Nat] /\ \A i \in Known : inDegree'[i] = Cardinality(Owed(i)')
    BY <2>1, <2>8, <2>9
  <2>15. Respects(order)'
    BY <1>1 DEF Respects
  <2>16. Sorting'
    BY <1>1, <2>5, <2>6, <2>10, <2>12, <2>14, <2>15 DEF Sorting
  <2>17. order' \in Seq(Known')
    BY <1>1
  <2> QED BY <1>1, <1>3, <2>6, <2>13, <2>16, <2>17 DEF WfInv
<1> QED BY <1>2, <1>3

(* The end of the sort finds everything placed, or a cycle.                *)
LEMMA FinishPreserves == WfInv /\ Finish => WfInv'
<1> SUFFICES ASSUME WfInv, Finish PROVE WfInv'
  OBVIOUS
<1>1. /\ stage = "sorting" /\ stack = <<>> /\ Sorting
      /\ stage' = (IF Len(order) = Len(file.steps) THEN "ok" ELSE "Cycle")
      /\ UNCHANGED <<file, inDegree, stack, order, printed>>
  BY DEF Finish, WfInv
<1>2. Sorting'
  BY <1>1, SameFile DEF Sorting, Owed, Respects
<1> QED BY <1>1, <1>2, SameFile DEF WfInv, Results

(* The steps are listed in the order.                                      *)
LEMMA ListPreserves == WfInv /\ ListSteps => WfInv'
<1> SUFFICES ASSUME WfInv, ListSteps PROVE WfInv'
  OBVIOUS
<1>1. /\ stage = "ok" /\ stage' = "listed" /\ stack = <<>> /\ Sorting
      /\ Len(order) = Len(file.steps)
      /\ printed' = [n \in DOMAIN order |-> CHOOSE k \in DOMAIN file.steps : Step(k).id = order[n]]
      /\ UNCHANGED <<file, inDegree, stack, order>>
  BY DEF ListSteps, WfInv
<1>2. Sorting'
  BY <1>1, SameFile DEF Sorting, Owed, Respects
<1>3. printed' = [n \in DOMAIN order' |-> CHOOSE k \in DOMAIN file'.steps : Step(k)'.id = order'[n]]
  BY <1>1 DEF Step
<1> QED BY <1>1, <1>2, <1>3, SameFile DEF WfInv

(* What is left of the stack once its top is popped.                       *)
LEMMA Popped ==
  ASSUME NEW S, NEW s \in Seq(S), s # <<>>,
         \A m, n \in DOMAIN s : s[m] = s[n] => m = n
  PROVE  LET top == s[Len(s)]
             rest == SubSeq(s, 1, Len(s) - 1)
         IN  /\ top \in S /\ top \in Range(s)
             /\ rest \in Seq(S) /\ Range(rest) = Range(s) \ {top}
             /\ \A m, n \in DOMAIN rest : rest[m] = rest[n] => m = n
<1> DEFINE top == s[Len(s)]
           rest == SubSeq(s, 1, Len(s) - 1)
<1>1. Len(s) \in Nat /\ Len(s) > 0 /\ DOMAIN s = 1..Len(s) /\ \A i \in 1..Len(s) : s[i] \in S
  BY EmptySeq
<1>2. rest \in Seq(S) /\ DOMAIN rest = 1..(Len(s) - 1) /\ \A i \in DOMAIN rest : rest[i] = s[i]
  <2>1. 1 \in Int /\ Len(s) - 1 \in Int /\ \A i \in 1..(Len(s) - 1) : s[i] \in S
    BY <1>1
  <2>2. /\ rest \in Seq(S)
        /\ Len(rest) = IF 1 <= Len(s) - 1 THEN (Len(s) - 1) - 1 + 1 ELSE 0
        /\ \A i \in 1..((Len(s) - 1) - 1 + 1) : rest[i] = s[1 + i - 1]
    BY <2>1, SubSeqProperties
  <2>3. Len(rest) = Len(s) - 1
    BY <1>1, <2>2
  <2>4. DOMAIN rest = 1..Len(rest)
    BY <2>2
  <2> HIDE DEF rest
  <2>5. \A i \in 1..(Len(s) - 1) : rest[i] = s[i]
    <3> TAKE i \in 1..(Len(s) - 1)
    <3>1. i \in 1..((Len(s) - 1) - 1 + 1) /\ 1 + i - 1 = i
      BY <1>1
    <3>2. rest[i] = s[1 + i - 1]
      BY <2>2, <3>1
    <3> QED BY <3>1, <3>2
  <2> QED BY <2>2, <2>3, <2>4, <2>5
<1> HIDE DEF rest
<1>3. Range(rest) \subseteq Range(s) \ {top}
  BY <1>1, <1>2 DEF Range
<1>4. Range(s) \ {top} \subseteq Range(rest)
  <2> SUFFICES ASSUME NEW i \in DOMAIN s, s[i] # top PROVE s[i] \in Range(rest)
    BY DEF Range
  <2>1. i \in DOMAIN rest
    BY <1>1, <1>2
  <2> QED BY <1>2, <2>1 DEF Range
<1>5. \A m, n \in DOMAIN rest : rest[m] = rest[n] => m = n
  BY <1>1, <1>2
<1>6. top \in S /\ top \in Range(s)
  BY <1>1 DEF Range
<1> QED BY <1>2, <1>3, <1>4, <1>5, <1>6 DEF rest

(* A step placed makes ready exactly the steps that waited for nothing     *)
(* else.                                                                   *)
LEMMA PopPreserves == WfInv /\ Pop => WfInv'
<1> SUFFICES ASSUME WfInv, Pop PROVE WfInv'
  OBVIOUS
<1> DEFINE rest == SubSeq(stack, 1, Len(stack) - 1)
<1>0. PICK id : id = stack[Len(stack)]
  OBVIOUS
<1> DEFINE Named(i) == {e \in Entries : Dependent(e) = i /\ Dependency(e) = id}
           left == [i \in Known |-> inDegree[i] - Mentions(i, id)]
           next == {i \in Known : Mentions(i, id) > 0 /\ left[i] = 0}
<1>1. /\ file \in Files /\ stage = "sorting" /\ stage' = "sorting" /\ stack # <<>>
      /\ order' = Append(order, id) /\ inDegree' = left /\ stack' = rest \o Sorted(next)
      /\ UNCHANGED <<file, printed>>
      /\ stack \in Seq(Known) /\ order \in Seq(Known) /\ Sorting
  BY <1>0 DEF Pop, WfInv
<1>2. /\ id \in Known /\ id \in Range(stack)
      /\ rest \in Seq(Known) /\ Range(rest) = Range(stack) \ {id}
      /\ \A m, n \in DOMAIN rest : rest[m] = rest[n] => m = n
  <2>1. \A m, n \in DOMAIN stack : stack[m] = stack[n] => m = n
    BY <1>1 DEF Sorting
  <2> QED BY <1>0, <1>1, <2>1, Popped
<1>3. id \notin Range(order) /\ Owed(id) = {}
  BY <1>1, <1>2 DEF Sorting
<1>4. /\ Len(order) \in Nat /\ DOMAIN order = 1..Len(order)
      /\ order' \in Seq(Known) /\ DOMAIN order' = 1..(Len(order) + 1)
      /\ order'[Len(order) + 1] = id /\ \A m \in DOMAIN order : order'[m] = order[m]
  BY <1>1, <1>2
<1>5. Range(order') = Range(order) \cup {id}
  <2>1. Len(order) + 1 \in DOMAIN order' /\ \A m \in DOMAIN order : m \in DOMAIN order'
    BY <1>4
  <2>2. \A m \in DOMAIN order' : m \in DOMAIN order \/ m = Len(order) + 1
    BY <1>4
  <2> QED BY <1>4, <2>1, <2>2 DEF Range
<1>6. /\ Known' = Known /\ Entries' = Entries /\ Checked'
      /\ \A e : Dependent(e)' = Dependent(e) /\ Dependency(e)' = Dependency(e)
  BY <1>1, SameFile DEF Sorting
<1>7. ASSUME NEW i \in Known
      PROVE  /\ Owed(i)' = Owed(i) \ Named(i) /\ Named(i) \subseteq Owed(i)
             /\ IsFiniteSet(Owed(i)) /\ IsFiniteSet(Named(i)) /\ IsFiniteSet(Owed(i)')
             /\ Mentions(i, id) = Cardinality(Named(i))
  <2>1. Owed(i)' = {e \in Entries : Dependent(e) = i /\ Dependency(e) \notin Range(order')}
    BY <1>6 DEF Owed
  <2>2. Owed(i) = {e \in Entries : Dependent(e) = i /\ Dependency(e) \notin Range(order)}
    BY DEF Owed
  <2>3. Owed(i)' = Owed(i) \ Named(i) /\ Named(i) \subseteq Owed(i)
    BY <1>3, <1>5, <2>1, <2>2
  <2>4. IsFiniteSet(Owed(i)) /\ IsFiniteSet(Named(i))
    <3>1. IsFiniteSet(Entries) /\ Owed(i) \in SUBSET Entries /\ Named(i) \in SUBSET Entries
      BY <1>1, <2>2, EntriesFinite
    <3> HIDE DEF Named
    <3> QED BY <3>1, FS_Subset
  <2>5. IsFiniteSet(Owed(i)')
    BY <2>3, <2>4, FS_Difference
  <2> QED BY <2>3, <2>4, <2>5 DEF Mentions
<1>8. ASSUME NEW i \in Known
      PROVE  /\ left[i] \in Nat /\ left[i] = Cardinality(Owed(i)')
             /\ i \in next <=> Named(i) # {} /\ Owed(i)' = {}
  <2>1. left[i] = inDegree[i] - Mentions(i, id) /\ inDegree[i] = Cardinality(Owed(i))
    BY <1>1 DEF Sorting
  <2>2. Cardinality(Owed(i) \ Named(i)) = Cardinality(Owed(i)) - Cardinality(Owed(i) \cap Named(i))
    <3> HIDE DEF Named
    <3> QED BY <1>7, FS_Difference
  <2>3. Owed(i) \cap Named(i) = Named(i)
    BY <1>7
  <2>4. left[i] = Cardinality(Owed(i)')
    <3> HIDE DEF Named, left
    <3> QED BY <1>7, <2>1, <2>2, <2>3
  <2>5. Cardinality(Owed(i)') \in Nat /\ (Cardinality(Owed(i)') = 0 <=> Owed(i)' = {})
    BY <1>7, FS_CardinalityType, FS_EmptySet
  <2>6. Mentions(i, id) \in Nat /\ (Mentions(i, id) = 0 <=> Named(i) = {})
    <3> HIDE DEF Named
    <3> QED BY <1>7, FS_CardinalityType, FS_EmptySet
  <2>7. i \in next <=> Mentions(i, id) > 0 /\ left[i] = 0
    OBVIOUS
  <2> HIDE DEF Named, left, next
  <2> QED BY <2>4, <2>5, <2>6, <2>7
<1>9. next \in SUBSET Known
  OBVIOUS
<1> HIDE DEF rest, next, left, Named
<1>10. /\ Sorted(next) \in Seq(next) /\ Range(Sorted(next)) = next
       /\ \A j, k \in DOMAIN Sorted(next) : Sorted(next)[j] = Sorted(next)[k] => j = k
  BY <1>1, <1>9, SortedSet
<1>11. \A i \in Known : i \in Range(order) \cup Range(stack) <=> Owed(i) = {}
  BY <1>1 DEF Sorting
<1>12. \A i \in next : i \in Known /\ Owed(i) # {} /\ i \notin Range(order) \cup Range(stack) /\ i # id
  BY <1>2, <1>3, <1>7, <1>8, <1>9, <1>11
<1>13. /\ stack' \in Seq(Known) /\ Range(stack') = Range(rest) \cup next
       /\ \A m, n \in DOMAIN stack' : stack'[m] = stack'[n] => m = n
  <2>1. Sorted(next) \in Seq(Known)
    BY <1>9, <1>10
  <2>2. Range(rest) \cap Range(Sorted(next)) = {}
    BY <1>2, <1>10, <1>12
  <2>3. /\ rest \o Sorted(next) \in Seq(Known)
        /\ Range(rest \o Sorted(next)) = Range(rest) \cup Range(Sorted(next))
        /\ \A m, n \in DOMAIN (rest \o Sorted(next)) :
              (rest \o Sorted(next))[m] = (rest \o Sorted(next))[n] => m = n
    BY <1>2, <1>10, <2>1, <2>2, Distinct
  <2> QED BY <1>1, <1>10, <2>3
<1>14. \A i \in Known : i \in Range(order') \cup Range(stack') <=> Owed(i)' = {}
  <2> TAKE i \in Known
  <2>1. i \in Range(order') \cup Range(stack') <=> i \in Range(order) \cup Range(stack) \/ i \in next
    BY <1>2, <1>5, <1>13
  <2>2. Owed(i)' = {} <=> Owed(i) = {} \/ (Named(i) # {} /\ Owed(i)' = {})
    BY <1>7
  <2> QED BY <1>8, <1>11, <2>1, <2>2
<1>15. Range(order') \cap Range(stack') = {}
  <2>1. Range(order) \cap Range(stack) = {}
    BY <1>1 DEF Sorting
  <2> QED BY <1>2, <1>5, <1>12, <1>13, <2>1
<1>16. \A m, n \in DOMAIN order' : order'[m] = order'[n] => m = n
  <2>1. \A m, n \in DOMAIN order : order[m] = order[n] => m = n
    BY <1>1 DEF Sorting
  <2>2. \A m \in DOMAIN order : order[m] # id
    BY <1>3 DEF Range
  <2>3. \A m \in DOMAIN order' : m \in DOMAIN order \/ m = Len(order) + 1
    BY <1>4
  <2> QED BY <1>4, <2>1, <2>2, <2>3
<1>17. Respects(order')
  <2> SUFFICES ASSUME NEW k \in DOMAIN file.steps, NEW n \in DOMAIN order', order'[n] = Step(k).id
               PROVE  Deps(k) \subseteq {order'[m] : m \in 1..(n - 1)}
    BY DEF Respects
  <2>1. CASE n \in DOMAIN order
    <3>1. Deps(k) \subseteq {order[m] : m \in 1..(n - 1)}
      BY <1>1, <1>4, <2>1 DEF Sorting, Respects
    <3>2. \A m \in 1..(n - 1) : m \in DOMAIN order
      BY <1>4, <2>1
    <3> QED BY <1>4, <3>1, <3>2
  <2>2. CASE n = Len(order) + 1
    <3>1. Step(k).id = id
      BY <1>4, <2>2
    <3>2. ASSUME NEW p \in DOMAIN Step(k).deps PROVE Step(k).deps[p] \in Range(order)
      <4>1. <<k, p>> \in Entries /\ Dependent(<<k, p>>) = id /\ Dependency(<<k, p>>) = Step(k).deps[p]
        BY <1>1, <3>1, EntriesFinite DEF Dependent, Dependency
      <4> QED BY <1>3, <4>1 DEF Owed
    <3>3. Deps(k) \subseteq Range(order)
      BY <3>2 DEF Deps, Range
    <3>4. 1..(n - 1) = DOMAIN order
      BY <1>4, <2>2
    <3>5. Range(order) \subseteq {order'[m] : m \in 1..(n - 1)}
      BY <1>4, <3>4 DEF Range
    <3> QED BY <3>3, <3>5
  <2> QED BY <1>4, <2>1, <2>2
<1>18. Respects(order)'
  BY <1>1, <1>17, SameFile DEF Respects
<1>19. inDegree' \in [Known -> Nat] /\ \A i \in Known : inDegree'[i] = Cardinality(Owed(i)')
  BY <1>1, <1>8 DEF left
<1>20. Sorting'
  BY <1>6, <1>13, <1>14, <1>15, <1>16, <1>18, <1>19 DEF Sorting
<1> QED BY <1>1, <1>4, <1>6, <1>13, <1>20 DEF WfInv

(* Every step preserves the invariant.                                     *)
LEMMA WfStepInv == WfInv /\ [WfNext]_wfvars => WfInv'
<1> SUFFICES ASSUME WfInv, [WfNext]_wfvars PROVE WfInv'
  OBVIOUS
<1>1. CASE UNCHANGED wfvars
  <2>1. UNCHANGED <<file, stage, inDegree, stack, order, printed>>
    BY <1>1 DEF wfvars
  <2>2. Sorting' = Sorting
    BY <2>1, SameFile DEF Sorting, Owed, Respects
  <2>3. \A k : Step(k)' = Step(k)
    BY <2>1, SameFile
  <2> QED BY <2>1, <2>2, SameFile DEF WfInv, Step
<1> QED BY <1>1, ValidatePreserves, PopPreserves, FinishPreserves, ListPreserves DEF WfNext

(* The invariant holds of every behaviour.                                 *)
LEMMA WfInvCorrect == WfSpec => []WfInv
BY WfInitInv, WfStepInv, PTL DEF WfSpec

(* Counting the order is enough to tell whether it holds every step.       *)
LEMMA OrderCount ==
  ASSUME WfInv, Sorting
  PROVE  /\ Cardinality(Known) = Len(file.steps)
         /\ Range(order) = Known <=> Len(order) = Len(file.steps)
<1> DEFINE f == [k \in DOMAIN file.steps |-> Step(k).id]
           N == 1..Len(order)
<1>1. file \in Files /\ order \in Seq(Known) /\ Len(order) \in Nat /\ DOMAIN order = N
  BY DEF WfInv
<1>2. f \in Surjection(DOMAIN file.steps, Known) /\ f \in Injection(DOMAIN file.steps, Known)
  BY DEF Surjection, Injection, IsInjective, Known, Sorting, Checked
<1>3. Cardinality(Known) = Len(file.steps)
  <2> HIDE DEF f
  <2> QED BY <1>1, <1>2, FileParts, FS_Surjection
<1>4. IsFiniteSet(N) /\ Cardinality(N) = Len(order)
  <2>1. 1 \in Int /\ Len(order) \in Int
    BY <1>1
  <2> QED BY <1>1, <2>1, FS_Interval
<1>5. order \in [N -> Known]
  BY <1>1
<1>6. order \in Injection(N, Known)
  BY <1>1, <1>5 DEF Sorting, Injection, IsInjective
<1>7. order \in Surjection(N, Known) <=> Range(order) = Known
  BY <1>1, <1>5 DEF Surjection, Range
<1>8. Cardinality(N) = Cardinality(Known) <=> order \in Surjection(N, Known)
  <2> HIDE DEF N
  <2> QED BY <1>1, <1>6, KnownFinite, FS_Injection
<1> QED BY <1>3, <1>4, <1>7, <1>8

(* A rejected file has no order at all: the first step of one that is not  *)
(* placed would wait for nothing.                                          *)
LEMMA CycleHasNoOrder ==
  ASSUME WfInv, stage = "Cycle",
         NEW o \in [1..Cardinality(Known) -> Known], Range(o) = Known, Respects(o)
  PROVE  FALSE
<1>1. /\ Sorting /\ stack = <<>> /\ file \in Files /\ Len(order) # Len(file.steps)
      /\ order \in Seq(Known)
  BY DEF WfInv
<1>2. Range(order) # Known /\ Range(order) \subseteq Known
  BY <1>1, OrderCount DEF Range
<1> DEFINE T == {n \in 1..Cardinality(Known) : o[n] \notin Range(order)}
<1>3. T \in SUBSET Nat /\ T # {}
  <2>1. \E i \in Known : i \notin Range(order)
    BY <1>2
  <2> QED BY <2>1, KnownFinite, <1>1 DEF Range
<1>4. PICK n \in T : \A m \in T : n <= m
  BY <1>3, Least
<1>5. \A m \in 1..(n - 1) : o[m] \in Range(order)
  <2>1. Cardinality(Known) \in Nat
    BY <1>1, KnownFinite
  <2> QED BY <1>4, <2>1
<1>6. o[n] \in Known /\ o[n] \notin Range(order) /\ n \in DOMAIN o
  BY <1>4
<1>7. Owed(o[n]) = {}
  <2> SUFFICES ASSUME NEW e \in Entries, Dependent(e) = o[n] PROVE Dependency(e) \in Range(order)
    BY DEF Owed
  <2>1. e[1] \in DOMAIN file.steps /\ e[2] \in DOMAIN Step(e[1]).deps
    BY <1>1, EntriesFinite
  <2>2. Dependency(e) \in Deps(e[1]) /\ Step(e[1]).id = o[n]
    BY <2>1 DEF Dependency, Dependent, Deps, Range
  <2>3. Deps(e[1]) \subseteq {o[m] : m \in 1..(n - 1)}
    BY <1>6, <2>1, <2>2 DEF Respects
  <2> QED BY <1>5, <2>2, <2>3
<1>8. Range(stack) = {}
  BY <1>1 DEF Range
<1> QED BY <1>1, <1>6, <1>7, <1>8 DEF Sorting

(* What is listed is every step, in the order.                             *)
LEMMA Listed ==
  ASSUME WfInv, stage = "listed"
  PROVE  /\ printed \in Seq(DOMAIN file.steps) /\ Range(printed) = DOMAIN file.steps
         /\ [n \in DOMAIN printed |-> Step(printed[n]).id] = order
<1>1. /\ Sorting /\ file \in Files /\ order \in Seq(Known) /\ Len(order) = Len(file.steps)
      /\ printed = [n \in DOMAIN order |-> CHOOSE k \in DOMAIN file.steps : Step(k).id = order[n]]
  BY DEF WfInv
<1>2. Range(order) = Known
  BY <1>1, OrderCount
<1>3. \A n \in DOMAIN order : order[n] \in Known
  BY <1>1
<1>4. DOMAIN printed = DOMAIN order
  BY <1>1
<1>5. ASSUME NEW n \in DOMAIN order PROVE printed[n] \in DOMAIN file.steps /\ Step(printed[n]).id = order[n]
  <2>1. \E k \in DOMAIN file.steps : Step(k).id = order[n]
    BY <1>3 DEF Known
  <2>2. printed[n] = CHOOSE k \in DOMAIN file.steps : Step(k).id = order[n]
    BY <1>1
  <2> QED BY <2>1, <2>2
<1>6. printed \in Seq(DOMAIN file.steps)
  <2>1. DOMAIN order = 1..Len(order) /\ Len(order) \in Nat
    BY <1>1
  <2>2. printed \in [1..Len(order) -> DOMAIN file.steps]
    BY <1>1, <1>5, <2>1
  <2> QED BY <2>1, <2>2
<1>7. Range(printed) = DOMAIN file.steps
  <2>1. Range(printed) \subseteq DOMAIN file.steps
    BY <1>4, <1>5 DEF Range
  <2>2. ASSUME NEW k \in DOMAIN file.steps PROVE k \in Range(printed)
    <3>1. Step(k).id \in Range(order)
      BY <1>2 DEF Known
    <3>2. PICK n \in DOMAIN order : order[n] = Step(k).id
      BY <3>1 DEF Range
    <3>3. printed[n] = k
      BY <1>1, <1>5, <3>2 DEF Sorting, Checked
    <3> QED BY <1>4, <3>3 DEF Range
  <2> QED BY <2>1, <2>2
<1>8. [n \in DOMAIN printed |-> Step(printed[n]).id] = order
  <2>1. order = [n \in DOMAIN order |-> order[n]]
    BY <1>1
  <2> QED BY <1>4, <1>5, <2>1
<1> QED BY <1>6, <1>7, <1>8

(* The sort's counters, stack and order keep their kinds for every file:   *)
(* no degree falls below nought (workflow_file.rs:124-138).                *)
THEOREM FileTypeCorrect == WfSpec => []FileTypeOK
<1>1. WfInv => FileTypeOK
  <2> SUFFICES ASSUME WfInv PROVE FileTypeOK
    OBVIOUS
  <2>1. inDegree \in [DOMAIN inDegree -> Nat] /\ DOMAIN inDegree \subseteq Known
    <3>1. CASE inDegree = <<>>
      BY <3>1
    <3>2. CASE Sorting
      BY <3>2 DEF Sorting
    <3> QED BY <3>1, <3>2 DEF WfInv
  <2>2. printed \in Seq(DOMAIN file.steps)
    <3>1. CASE stage = "listed"
      BY <3>1, Listed
    <3>2. CASE stage # "listed"
      BY <3>2 DEF WfInv
    <3> QED BY <3>1, <3>2
  <2> QED BY <2>1, <2>2 DEF WfInv, FileTypeOK
<1> QED BY <1>1, WfInvCorrect, PTL

(* A workflow file is listed with every step after those it depends on,    *)
(* each once, and rejected as a cycle only if no order does that, whatever *)
(* its steps, ids and dependencies (workflow_file.rs:73-152).              *)
THEOREM FileCorrect == WfSpec => []PlacedInOrder
<1>1. WfInv => PlacedInOrder
  <2> SUFFICES ASSUME WfInv PROVE PlacedInOrder
    OBVIOUS
  <2>1. Respects(order) /\ \A m, n \in DOMAIN order : order[m] = order[n] => m = n
    <3>1. CASE order = <<>>
      BY <3>1 DEF Respects
    <3> QED BY <3>1 DEF WfInv, Sorting
  <2>2. ASSUME stage = "listed"
        PROVE  /\ Range(printed) = DOMAIN file.steps
               /\ Respects([n \in DOMAIN printed |-> Step(printed[n]).id])
    BY <2>1, <2>2, Listed
  <2>3. ASSUME stage = "ok"
        PROVE  \E o \in [1..Cardinality(Known) -> Known] : Range(o) = Known /\ Respects(o)
    <3>1. Sorting /\ order \in Seq(Known) /\ Len(order) = Len(file.steps)
      BY <2>3 DEF WfInv
    <3>2. Range(order) = Known /\ Cardinality(Known) = Len(order)
      BY <3>1, OrderCount
    <3>3. order \in [1..Cardinality(Known) -> Known]
      BY <3>1, <3>2
    <3> QED BY <2>1, <3>2, <3>3
  <2>4. stage = "Cycle" => ~ \E o \in [1..Cardinality(Known) -> Known] : Range(o) = Known /\ Respects(o)
    BY CycleHasNoOrder
  <2> QED BY <2>1, <2>2, <2>3, <2>4 DEF PlacedInOrder
<1> QED BY <1>1, WfInvCorrect, PTL

-----------------------------------------------------------------------------
(* The desk.                                                               *)

(* A step of the whole is a step of each component, or leaves it alone: so *)
(* the whole does what each of them does.                                  *)
LEMMA DeskParts == Spec => OSpec /\ RgSpec /\ WfSpec /\ WsSpec /\ TuiSpec /\ MqSpec
<1>1. Init => OInit /\ RgInit /\ WfInit /\ WsInit /\ TuiInit /\ MqInit
  BY DEF Init
<1>2. [Next]_deskvars => [ONext]_ovars
  BY DEF Next, deskvars
<1>3. [Next]_deskvars => [RgNext]_rgvars
  BY DEF Next, deskvars
<1>4. [Next]_deskvars => [WfNext]_wfvars
  BY DEF Next, deskvars
<1>5. [Next]_deskvars => [WsNext]_wsvars
  BY DEF Next, deskvars
<1>6. [Next]_deskvars => [TuiNext]_tuivars
  BY DEF Next, deskvars
<1>7. [Next]_deskvars => [MqNext]_mqvars
  BY DEF Next, deskvars, MqNext
<1> QED
  BY <1>1, <1>2, <1>3, <1>4, <1>5, <1>6, <1>7, PTL
     DEF Spec, OSpec, RgSpec, WfSpec, WsSpec, TuiSpec, MqSpec

(* Every component a user works with keeps its kinds in the composition,   *)
(* whichever of them moves.                                                *)
THEOREM DeskTypeCorrect == Spec => []DeskTypeOK
<1>1. OrchestratorTypeOK /\ RegistryTypeOK /\ FileTypeOK /\ StepsTypeOK /\ TerminalTypeOK
      /\ QueriesTypeOK => DeskTypeOK
  BY DEF DeskTypeOK
<1> QED
  BY <1>1, DeskParts, OrchestratorTyped, RegistryTyped, FileTypeCorrect, StepsTypeCorrect,
     TerminalTypeCorrect, QueriesTypeCorrect, PTL

(* And every one keeps its promises there.                                 *)
THEOREM DeskCorrect ==
  Spec => /\ [](DependenciesFirst /\ OutcomeRight /\ StoppedMeansNotRunning)
          /\ [](IndexedAgentsExist /\ PlacedInOrder /\ StepsSettle)
          /\ [](SpeakersApart /\ ListingsInOrder)
BY DeskParts, DependenciesCorrect, OutcomeCorrect, StoppedCorrect, IndexCorrect, FileCorrect,
   StepsCorrect, SpeakersCorrect, ListingsCorrect, PTL

=============================================================================
