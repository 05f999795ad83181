----------------------------- MODULE MCFleet -----------------------------
(***************************************************************************)
(* What stands between the hub and its agents, side by side in one         *)
(* instance: the command line that reaches a remote agent, the subprocess  *)
(* driver, the cache of host environments, the loading of plugins, the     *)
(* routing of models and the setup wizard.  They share no state, so a      *)
(* behaviour follows one of them, its part, and the others rest in a fixed *)
(* state: the states explored are the sum of those of the components.      *)
(***************************************************************************)
EXTENDS RemoteInvocation, SubprocessDriver, HostEnvCache, AgentLoading, ModelRouting, SetupWizard

MCPrompts == UNION {[1..n -> {"a", " ", "'"}] : n \in 0..3}

(* Two hosts of the same name once its odd characters are replaced.        *)
MCFileOf == [h \in Host |-> IF h = 3 THEN 2 ELSE h]

Plugin(d, f, n, dr, ss, h) ==
  [dir |-> d, file |-> f, name |-> n, driver |-> dr, sections |-> ss, host |-> h]
MCDirs == {
  Plugin("d1", "toml", "x", "subprocess", {"subprocess"}, "h1"),
  Plugin("d2", "toml", "y", "subprocess", {"subprocess", "model"}, "h1"),
  Plugin("d3", "toml", "x", "tmux", {"tmux", "subprocess"}, "h2"),
  Plugin("d4", "toml", "x", "api", {"model"}, "h1"),
  Plugin("d5", "toml", "y", "api", {}, "h1"),           \* a section is missing
  Plugin("d6", "toml", "z", "mcp", {}, "h1"),           \* no such driver
  Plugin("d7", "toml", "", "tmux", {"tmux"}, "h1"),     \* no name
  Plugin("d8", "broken", "z", "tmux", {"tmux"}, "h1"),
  Plugin("d9", "none", "z", "tmux", {"tmux"}, "h1")}

MCHand == {[kind |-> "anthropic", port |-> 0]}

(* A server may list as its own what is Ollama's full name of another.     *)
MCModels == {<<"m1">>, <<"ollama", "m1">>}

MCKnown == <<"claude">>

EnvAt(k, l, s) == [kind |-> k, label |-> l, suffix |-> s]
MCLocal == <<EnvAt("native", "Native", "native"), EnvAt("wsl", "WSL: Ubuntu", "wsl-ubuntu")>>
MCRemote == {EnvAt("ssh", "me@10.0.0.1", "ssh-1"), EnvAt("ssh", "me@10.9.9.1", "ssh-1")}

-----------------------------------------------------------------------------
VARIABLE part

fleetvars == <<part, rivars, spvars, hevars, alvars, mrvars, suvars>>

Parts == {"command", "driver", "one host", "one reader", "loading", "routing", "setup"}

Init ==
  /\ part \in Parts
  /\ RiInit /\ (part # "command" => shell = "Native" /\ withEnv = FALSE /\ prelude = FALSE /\ prompt = <<>>)
  /\ SpInit /\ (part # "driver" => mode = "argv")
  /\ HeInit /\ (part \notin {"one host", "one reader"} => files = [f \in File |-> None])
  /\ AlInit /\ (part # "loading" => listing = <<>>)
  /\ MrInit
  /\ SuInit /\ (part # "setup" => os = "linux" /\ disk = {})

Driving(A) ==
  part = "driver" /\ A /\ UNCHANGED <<part, mode, rivars, hevars, alvars, mrvars, suvars>>

(* The cache is explored with two lookups of one host under way, and with  *)
(* one at a time of hosts that share a file.                               *)
OneHost == \A t \in Reader : thread'[t] # Off => thread'[t].host = 2
OneReader == Cardinality({t \in Reader : thread'[t] # Off}) <= 1

Next ==
  \/ part = "command" /\ RiNext /\ UNCHANGED <<part, spvars, hevars, alvars, mrvars, suvars>>
  \/ part = "driver" /\ SpNext /\ UNCHANGED <<part, rivars, hevars, alvars, mrvars, suvars>>
  \/ part = "one host" /\ HeNext /\ OneHost /\ UNCHANGED <<part, rivars, spvars, alvars, mrvars, suvars>>
  \/ part = "one reader" /\ HeNext /\ OneReader /\ UNCHANGED <<part, rivars, spvars, alvars, mrvars, suvars>>
  \/ part = "loading" /\ AlNext /\ UNCHANGED <<part, rivars, spvars, hevars, mrvars, suvars>>
  \/ part = "routing" /\ MrNext /\ UNCHANGED <<part, rivars, spvars, hevars, alvars, suvars>>
  \/ part = "setup" /\ SuNext /\ UNCHANGED <<part, rivars, spvars, hevars, alvars, mrvars>>

(* A task that chats runs when it can: the executor is fair, the mutex     *)
(* serves those that wait in turn, and a read has a timeout.  Nothing      *)
(* makes a child answer, exit, or read the prompt that is written to it.   *)
Spec == Init /\ [][Next]_fleetvars /\ \A c \in Caller : WF_fleetvars(Driving(ChatStep(c)))

FleetTypeOK ==
  /\ InvocationTypeOK /\ DriverTypeOK /\ CacheTypeOK /\ LoadingTypeOK
  /\ RoutingTypeOK /\ SetupTypeOK

=============================================================================
