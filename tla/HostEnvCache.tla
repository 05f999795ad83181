----------------------------- MODULE HostEnvCache -----------------------------
(***************************************************************************)
(* The cache of host environments (crates/ch-agent/src/host_env.rs): one   *)
(* map in memory, one file a host on disk, and a probe of the host when    *)
(* neither has it.  get_or_probe holds no lock from its lookup to its two  *)
(* writes, a file is created empty and then written, and `crow refresh-env`*)
(* and `crow doctor` work on the same files from processes of their own.   *)
(*                                                                         *)
(* The environment of a host is the number of the user's last change to    *)
(* it; a torn file holds the first lines of one, which parse as a whole.   *)
(***************************************************************************)
EXTENDS Naturals, FiniteSets

CONSTANTS
  Host,        (* host keys                                                 *)
  FileOf,      (* cache_filename, which replaces characters: host -> file   *)
  Reader,      (* threads in get_or_probe                                   *)
  MaxEdits,    (* bound of the model: changes of the user to a host         *)
  MaxFailures   (* bound of the model: probes, writes and removals that fail *)
                (* and crashes                                               *)

ASSUME CacheAssumption ==
  /\ DOMAIN FileOf = Host
  /\ MaxEdits \in Nat /\ MaxFailures \in Nat

File == {FileOf[h] : h \in Host}

VARIABLES
  real,      (* by host: what a probe would find                            *)
  memory,    (* by host: in_memory                                          *)
  files,     (* by file: the cache directory                                *)
  thread,    (* by thread: where it stands, for which host, with what       *)
  dropping,  (* hosts whose entry invalidate has removed, not yet the file  *)
  failures,  (* bound: troubles so far                                      *)
  floor      (* by host: what it was when its file was last removed by an   *)
             (* invalidation with nothing else under way: not in the code   *)

hevars == <<real, memory, files, thread, dropping, failures, floor>>

None == [kind |-> "none"]
Empty == [kind |-> "empty"]
EnvOf(h, v, w) == [kind |-> "env", host |-> h, ver |-> v, whole |-> w]
Envs == {None, Empty} \cup [kind : {"env"}, host : Host, ver : 0..MaxEdits, whole : BOOLEAN]
Off == [at |-> "off"]

HeInit ==
  /\ real = [h \in Host |-> 0]
  /\ memory = [h \in Host |-> None]
  /\ files \in [File -> {None} \cup {EnvOf(h, 0, w) : h \in Host, w \in BOOLEAN}]
  /\ \A h \in Host : files[FileOf[h]] # None => FileOf[files[FileOf[h]].host] = FileOf[h]
  /\ thread = [t \in Reader |-> Off]
  /\ dropping = {}
  /\ failures = 0
  /\ floor = [h \in Host |-> 0]

(* parse_cache_file: a file without a variable is none, whatever it is.    *)
Parsed(f) == IF files[f] = Empty THEN None ELSE files[f]

-----------------------------------------------------------------------------
AskFor(t, h) ==
  /\ thread[t] = Off
  /\ thread' = [thread EXCEPT ![t] = [at |-> "looking", host |-> h]]
  /\ UNCHANGED <<real, memory, files, dropping, failures, floor>>

HitMemory(t) ==
  /\ thread[t].at = "looking"
  /\ memory[thread[t].host] # None
  /\ thread' = [thread EXCEPT ![t] = Off]
  /\ UNCHANGED <<real, memory, files, dropping, failures, floor>>

Miss(t) ==
  /\ thread[t].at = "looking"
  /\ memory[thread[t].host] = None
  /\ thread' = [thread EXCEPT ![t].at = "reading"]
  /\ UNCHANGED <<real, memory, files, dropping, failures, floor>>

(* The file is read, and what it holds kept until it is put in memory.     *)
HitDisk(t) ==
  LET f == FileOf[thread[t].host] IN
  /\ thread[t].at = "reading"
  /\ Parsed(f) # None
  /\ thread' = [thread EXCEPT ![t] = [at |-> "insert", host |-> @.host, env |-> Parsed(f)]]
  /\ UNCHANGED <<real, memory, files, dropping, failures, floor>>

(* What a probe of the host finds; a failure counts as an empty result.    *)
ProbeHost(t) ==
  LET h == thread[t].host IN
  /\ thread[t].at = "reading"
  /\ Parsed(FileOf[h]) = None
  /\ thread' = [thread EXCEPT ![t] = [at |-> "create", host |-> h, env |-> EnvOf(h, real[h], TRUE)]]
  /\ UNCHANGED <<real, memory, files, dropping, failures, floor>>

ProbeFails(t) ==
  LET h == thread[t].host IN
  /\ thread[t].at = "reading"
  /\ Parsed(FileOf[h]) = None
  /\ failures < MaxFailures /\ failures' = failures + 1
  /\ thread' = [thread EXCEPT ![t] = [at |-> "create", host |-> h, env |-> Empty]]
  /\ UNCHANGED <<real, memory, files, dropping, floor>>

(* save_cache_file: create, some lines, the rest.                          *)
CreateFile(t) ==
  /\ thread[t].at = "create"
  /\ files' = [files EXCEPT ![FileOf[thread[t].host]] = Empty]
  /\ thread' = [thread EXCEPT ![t].at = IF thread[t].env = Empty THEN "insert" ELSE "lines"]
  /\ UNCHANGED <<real, memory, dropping, failures, floor>>

WriteLines(t) ==
  /\ thread[t].at = "lines"
  /\ files' = [files EXCEPT ![FileOf[thread[t].host]] = [thread[t].env EXCEPT !.whole = FALSE]]
  /\ thread' = [thread EXCEPT ![t].at = "rest"]
  /\ UNCHANGED <<real, memory, dropping, failures, floor>>

WriteRest(t) ==
  /\ thread[t].at = "rest"
  /\ files' = [files EXCEPT ![FileOf[thread[t].host]] = thread[t].env]
  /\ thread' = [thread EXCEPT ![t].at = "insert"]
  /\ UNCHANGED <<real, memory, dropping, failures, floor>>

(* An error on the way is logged; what is in the file by then stays.       *)
SaveFails(t) ==
  /\ thread[t].at \in {"create", "lines", "rest"}
  /\ failures < MaxFailures /\ failures' = failures + 1
  /\ thread' = [thread EXCEPT ![t].at = "insert"]
  /\ UNCHANGED <<real, memory, files, dropping, floor>>

Insert(t) ==
  /\ thread[t].at = "insert"
  /\ memory' = [memory EXCEPT ![thread[t].host] = thread[t].env]
  /\ thread' = [thread EXCEPT ![t] = Off]
  /\ UNCHANGED <<real, files, dropping, failures, floor>>

-----------------------------------------------------------------------------
(* refresh_host_env: the entry in memory first, then the file.             *)
Invalidate(h) ==
  /\ h \notin dropping
  /\ memory' = [memory EXCEPT ![h] = None]
  /\ dropping' = dropping \cup {h}
  /\ UNCHANGED <<real, files, thread, failures, floor>>

Quiet == \A t \in Reader : thread[t] = Off

(* Mutant: the file of a host stays.                                       *)
KeepFile(h) ==
  /\ h \in dropping
  /\ dropping' = dropping \ {h}
  /\ floor' = IF Quiet /\ memory[h] = None THEN [floor EXCEPT ![h] = real[h]] ELSE floor
  /\ UNCHANGED <<real, memory, files, thread, failures>>

RemoveFile(h) ==
  /\ h \in dropping
  /\ dropping' = dropping \ {h}
  /\ files' = [files EXCEPT ![FileOf[h]] = None]
  /\ floor' = IF Quiet /\ memory[h] = None THEN [floor EXCEPT ![h] = real[h]] ELSE floor
  /\ UNCHANGED <<real, memory, thread, failures>>

(* The file cannot be removed: an error of invalidate, while               *)
(* invalidate_all drops it, goes on and returns Ok.                        *)
RemovalFails(h) ==
  /\ h \in dropping
  /\ files[FileOf[h]] # None
  /\ failures < MaxFailures /\ failures' = failures + 1
  /\ dropping' = dropping \ {h}
  /\ UNCHANGED <<real, memory, files, thread, floor>>

(* invalidate_all: the whole map, then one file after the other.           *)
InvalidateAll ==
  /\ dropping = {}
  /\ memory' = [h \in Host |-> None]
  /\ dropping' = Host
  /\ UNCHANGED <<real, files, thread, failures, floor>>

(* `crow refresh-env`: a process of its own, whose memory is empty, so     *)
(* that only the files go, those that can be removed.                      *)
RefreshElsewhere(F) ==
  /\ files' = [f \in File |-> IF f \in F THEN None ELSE files[f]]
  /\ UNCHANGED <<real, memory, thread, dropping, failures, floor>>

(* The user installs something or edits a profile.                         *)
Edit(h) ==
  /\ real[h] < MaxEdits
  /\ real' = [real EXCEPT ![h] = @ + 1]
  /\ UNCHANGED <<memory, files, thread, dropping, failures, floor>>

(* The process ends anywhere, and another starts.                          *)
Restart ==
  /\ failures < MaxFailures /\ failures' = failures + 1
  /\ memory' = [h \in Host |-> None]
  /\ thread' = [t \in Reader |-> Off]
  /\ dropping' = {}
  /\ UNCHANGED <<real, files, floor>>

HeNext ==
  \/ \E t \in Reader :
       \/ \E h \in Host : AskFor(t, h)
       \/ HitMemory(t) \/ Miss(t) \/ HitDisk(t) \/ ProbeHost(t) \/ ProbeFails(t)
       \/ CreateFile(t) \/ WriteLines(t) \/ WriteRest(t) \/ SaveFails(t) \/ Insert(t)
  \/ \E h \in Host : Invalidate(h) \/ RemoveFile(h) \/ RemovalFails(h) \/ Edit(h)
  \/ InvalidateAll
  \/ \E F \in SUBSET File : RefreshElsewhere(F)
  \/ Restart

HeSpec == HeInit /\ [][HeNext]_hevars

-----------------------------------------------------------------------------
CacheTypeOK ==
  /\ real \in [Host -> 0..MaxEdits]
  /\ memory \in [Host -> Envs]
  /\ files \in [File -> Envs]
  /\ \A t \in Reader :
       thread[t] = Off \/ (thread[t].host \in Host
                           /\ ("env" \in DOMAIN thread[t] => thread[t].env \in Envs \ {None}))
  /\ dropping \subseteq Host
  /\ failures \in 0..MaxFailures
  /\ floor \in [Host -> 0..MaxEdits]

Fresh(e, h) == e.kind = "env" /\ e.host = h => e.ver >= floor[h]

(* After an invalidation that overlapped no lookup and did remove the      *)
(* file, no environment from before it is used for the host again, from    *)
(* memory or from disk, through restarts, torn files, later failures and   *)
(* refreshes by other processes; and no host is given the environment of   *)
(* one with another file (host_env.rs:210-286).  Where the file could not  *)
(* be removed what it holds comes back, and only invalidate says so.       *)
InvalidatedIsGone ==
  \A h \in Host :
    /\ Fresh(memory[h], h)
    /\ Fresh(files[FileOf[h]], h)
    /\ memory[h].kind = "env" => FileOf[memory[h].host] = FileOf[h]

=============================================================================
