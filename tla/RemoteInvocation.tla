--------------------------- MODULE RemoteInvocation ---------------------------
(***************************************************************************)
(* How the subprocess driver puts an agent's command line together         *)
(* (shell_quote, compose_remote_invocation and build_command in            *)
(* crates/ch-agent/src/drivers/subprocess.rs), and what the shells on the  *)
(* way make of it.  A native agent gets its arguments as they are; for WSL *)
(* and SSH they travel in one string, which a shell splits again, and in   *)
(* one string within it if there is something to run first.                *)
(*                                                                         *)
(* Texts are sequences of characters, of which three kinds matter: "a" is  *)
(* safe, " " any other but the quote, "'" the quote; "\\" only comes out   *)
(* of quoting.                                                             *)
(***************************************************************************)
EXTENDS Naturals, Sequences, SequencesExt

CONSTANT Prompts   (* the prompts                                          *)

ASSUME InvocationAssumption == \A p \in Prompts : p \in Seq({"a", " ", "'"})

VARIABLES
  shell,      (* config.shell                                              *)
  withEnv,    (* host_env has variables                                    *)
  prelude,    (* a working_dir or a setup_script is set                    *)
  prompt,     (* the prompt; its text also stands for any other argument   *)
  ran         (* argv of the agent's process, or "not yet"                 *)

rivars == <<shell, withEnv, prelude, prompt, ran>>

RiInit ==
  /\ shell \in {"Native", "Wsl", "Ssh"}
  /\ withEnv \in BOOLEAN
  /\ prelude \in BOOLEAN
  /\ prompt \in Prompts
  /\ ran = <<"not yet">>

-----------------------------------------------------------------------------
(* Mutant: a quote in a text is escaped with a backslash alone.            *)
WeakQuote(s) ==
  IF s = <<>> THEN <<"'", "'">>
  ELSE IF Range(s) \subseteq {"a"} THEN s
  ELSE <<"'">> \o FlattenSeq([i \in DOMAIN s |-> IF s[i] = "'" THEN <<"\\", "'">> ELSE <<s[i]>>])
       \o <<"'">>

(* Close the quotes, an escaped quote, open them.                          *)
ShellQuote(s) ==
  IF s = <<>> THEN <<"'", "'">>
  ELSE IF Range(s) \subseteq {"a"} THEN s
  ELSE <<"'">> \o FlattenSeq([i \in DOMAIN s |->
                   IF s[i] = "'" THEN <<"'", "\\", "'", "'">> ELSE <<s[i]>>])
       \o <<"'">>

Joined(words) ==
  FlattenSeq([i \in DOMAIN words |-> IF i = 1 THEN words[i] ELSE <<" ">> \o words[i]])

Env == <<"a">>        (* env K=V ...: the words in front                     *)
Bash == <<"a", "a">>  (* bash -c                                             *)
Setup == <<"a">>      (* cd <dir> && <script>; exec: the words in front      *)
Cmd == <<"a", "a", "a">>

(* compose_remote_invocation.                                              *)
Compose ==
  LET front == IF withEnv THEN <<Env>> ELSE <<>>
      line == <<ShellQuote(Cmd), ShellQuote(prompt)>>
  IN IF prelude
     THEN Joined(front \o <<Bash, ShellQuote(Joined(<<Setup>> \o line))>>)
     ELSE Joined(front \o line)

(* What a POSIX shell makes of a line: its words.  One character at a time *)
(* over [words, cur, word, in]: in tells where it stands in the quotes.    *)
ShellWord(st, c) ==
  IF st.in = "quotes"
  THEN IF c = "'" THEN [st EXCEPT !.in = "plain"] ELSE [st EXCEPT !.cur = Append(@, c)]
  ELSE IF st.in = "escape" THEN [st EXCEPT !.in = "plain", !.cur = Append(@, c)]
  ELSE IF c = "'" THEN [st EXCEPT !.in = "quotes", !.word = TRUE]
  ELSE IF c = "\\" THEN [st EXCEPT !.in = "escape", !.word = TRUE]
  ELSE IF c # " " THEN [st EXCEPT !.cur = Append(@, c), !.word = TRUE]
  ELSE IF st.word THEN [st EXCEPT !.words = Append(@, st.cur), !.cur = <<>>, !.word = FALSE]
  ELSE st

Reading(st, line) ==
  LET at[n \in 0..Len(line)] == IF n = 0 THEN st ELSE ShellWord(at[n - 1], line[n])
  IN  at[Len(line)]

Unread == [words |-> <<>>, cur |-> <<>>, word |-> FALSE, in |-> "plain"]

Split(line) ==
  LET end == Reading(Unread, line)
  IN IF end.in # "plain" THEN <<"unfinished">>
     ELSE IF end.word THEN Append(end.words, end.cur) ELSE end.words

(* The process: ssh and `wsl -e sh -c` hand the line to one shell, bash -c *)
(* its last word to another.                                               *)
Launch ==
  /\ ran = <<"not yet">>
  /\ ran' = IF shell = "Native" THEN <<Cmd, prompt>>
            ELSE LET outer == Split(Compose)
                     command == IF withEnv THEN Tail(outer) ELSE outer
                 IN IF ~prelude THEN command
                    ELSE Tail(Split(IF Len(command) = 2 THEN command[2] ELSE <<"'">>))
  /\ UNCHANGED <<shell, withEnv, prelude, prompt>>

RiNext == Launch
RiSpec == RiInit /\ [][RiNext]_rivars

-----------------------------------------------------------------------------
InvocationTypeOK ==
  /\ shell \in {"Native", "Wsl", "Ssh"} /\ {withEnv, prelude} \subseteq BOOLEAN
  /\ prompt \in Prompts
  /\ ran = <<"not yet">> \/ ran \in Seq(Seq({"a", " ", "'"}))

(* Whatever shell is in between, with or without an environment or         *)
(* something to run first, the agent is started with its command and the   *)
(* prompt as one argument, unchanged (subprocess.rs:31-107, 150-236).      *)
PromptArrivesWhole == ran # <<"not yet">> => ran = <<Cmd, prompt>>

=============================================================================
