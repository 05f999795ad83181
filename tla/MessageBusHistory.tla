-------------------------- MODULE MessageBusHistory --------------------------
(***************************************************************************)
(* The message bus with three history variables, which the code does not   *)
(* have: while a task's send_to_channel runs, held says how each agent     *)
(* stood to the channel all along, and got counts what it was handed;      *)
(* raced remembers the channels whose deletion overlapped a creation.      *)
(* They only watch: every step of the bus is a step here.                  *)
(***************************************************************************)
EXTENDS MessageBus

VARIABLES
  held,   (* "Full" or "Notify" for an agent that was such a member, with a  *)
          (* live subscription, from the start of the call to now; "Deaf"    *)
          (* for one that was muted or no member; "Mixed" for the others     *)
  got,    (* copies of the call's message put in the agent's queue           *)
  raced   (* channels that were being created and deleted at the same time   *)

hvars == <<vars, held, got, raced>>

InCall(t) == /\ call[t].kind = "channel"
             /\ phase[t] \in {"record", "announce", "full", "notify"}

Level(t, a) ==
  LET v == members[call[t].chan][a] IN
  IF v \in {"None", "Out"} THEN "Deaf"
  ELSE IF a \in subscribers /\ rx[a] = "open" THEN v
  ELSE "Mixed"

Gets(t, a) == queue' = [queue EXCEPT ![a] = Append(@, call[t].msg)]

(* Calls of create_channel and delete_channel half done on a channel.      *)
Creates(c) == \E t \in Task : phase[t] \in {"insert", "insert_history"} /\ call[t].chan = c
Deletes(c) == \E t \in Task : phase[t] = "delete_history" /\ call[t].chan = c

(* The start of a send resets held and got, its end forgets them; what     *)
(* raced once has raced.                                                   *)
Watch ==
  /\ held' = [t \in Task |-> [a \in Agent |->
       IF InCall(t)' /\ (~InCall(t) \/ held[t][a] = Level(t, a)')
       THEN Level(t, a)' ELSE "Mixed"]]
  /\ got' = [t \in Task |-> [a \in Agent |->
       IF InCall(t)' /\ InCall(t)
       THEN IF Gets(t, a) THEN got[t][a] + 1 ELSE got[t][a]
       ELSE 0]]
  /\ raced' = raced \cup {c \in ChannelName : Creates(c)' /\ Deletes(c)'}

HInit ==
  /\ Init
  /\ held = [t \in Task |-> [a \in Agent |-> "Mixed"]]
  /\ got = [t \in Task |-> [a \in Agent |-> 0]]
  /\ raced = {}

HNext == Next /\ Watch

HSpec == HInit /\ [][HNext]_hvars

-----------------------------------------------------------------------------
(* When a channel send returns, every agent that stayed a Full or a Notify *)
(* member with a live subscription throughout has the message exactly      *)
(* once, whoever joined, left, changed visibility or subscribed meanwhile  *)
(* and however long the call waited for slots (bus.rs:301-323).            *)
SteadyMembersServedOnce ==
  \A t \in Task : phase[t] = "notify" /\ todo[t] = {} =>
    \A a \in Agent \ {Sender[t]} :
      held[t][a] \in {"Full", "Notify"} => got[t][a] = 1

(* An agent that was muted or outside the channel throughout a send is     *)
(* never handed its message, and neither is the sender (bus.rs:302, 314,   *)
(* 325; channel.rs:82-97).                                                 *)
StrangersHearNothing ==
  \A t \in Task, a \in Agent :
    InCall(t) /\ (held[t][a] = "Deaf" \/ a = Sender[t]) => got[t][a] = 0

(* Once the calls that create and delete a channel are through, it has a   *)
(* history exactly if it exists, however many tasks created it at once:    *)
(* only a deletion that overlapped a creation tears the two apart          *)
(* (bus.rs:212-220, 227-230).                                              *)
HistoryMatchesChannels ==
  \A c \in ChannelName \ raced :
    ~Creates(c) /\ ~Deletes(c) => (c \in hasHistory <=> c \in channels)

=============================================================================
