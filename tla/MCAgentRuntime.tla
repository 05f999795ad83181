--------------------------- MODULE MCAgentRuntime ---------------------------
(***************************************************************************)
(* Instances of the agent runtime for TLC: two agents and the user's       *)
(* terminal.  The agents are Full members of #general, and so is the user  *)
(* unless its queue is left out to keep the instance small (UserLevel).    *)
(***************************************************************************)
EXTENDS AgentRuntime, TLC

CONSTANTS a1, a2, u, h1, h2, q1, q2, general, UserLevel

(* Two tasks of the user, as for two prompts at once, or one task.         *)
MCSender == h1 :> a1 @@ h2 :> a2 @@ q1 :> u @@ q2 :> u
MCPeers == h1 :> {} @@ h2 :> {} @@ q1 :> {a1} @@ q2 :> {a2}
OneSender == h1 :> a1 @@ h2 :> a2 @@ q1 :> u
OnePeers == h1 :> {} @@ h2 :> {} @@ q1 :> {a1, a2}
MCHandler == a1 :> h1 @@ a2 :> h2
MCLoop == a1 :> {h1} @@ a2 :> {h2} @@ u :> {}
MCHome == [a \in Loaded |-> general]
MCShard == [a \in Agent |-> IF a = u THEN 1 ELSE 2]

Joined ==
  /\ running = TRUE
  /\ clearing = {}
  /\ subscribers = Agent
  /\ rx = [a \in Agent |-> "open"]
  /\ queue = [a \in Agent |-> <<>>]
  /\ waiting = [a \in Agent |-> <<>>]
  /\ channels = {general}
  /\ members = [c \in ChannelName |-> [a \in Agent |-> IF a = u THEN UserLevel ELSE "Full"]]
  /\ hasHistory = {general}
  /\ channelHistory = [c \in ChannelName |-> <<>>]
  /\ history = <<>>
  /\ feed = <<>>
  /\ phase = [t \in Task |-> "idle"]
  /\ call = [t \in Task |-> NoCall]
  /\ todo = [t \in Task |-> {}]
  /\ pos = [t \in Task |-> 0]
  /\ sent = 0
  /\ churn = 0

(* Tasks that can run do run, and the bridge of the terminal keeps         *)
(* receiving.  That a driver answers, fails or ends is assumed of the      *)
(* agents' programs: the code limits the wait for a persistent process     *)
(* only (subprocess.rs:641), and an agent whose log is followed forever    *)
(* (tmux.rs:214-322) does not meet it.  Prompts, chunks and messages are   *)
(* bounded, so no part of the system can run on forever while another      *)
(* waits: one fairness condition stands for one for each task.             *)
RuntimeSpec ==
  /\ RInit(Joined)
  /\ [][RNext]_rvars
  /\ WF_rvars(RuntimeStep)

=============================================================================
