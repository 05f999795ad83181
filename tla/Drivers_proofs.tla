---------------------------- MODULE Drivers_proofs ---------------------------
(***************************************************************************)
(* What holds between the hub and a remote agent, for any parameters.      *)
(*                                                                         *)
(* The host environment cache: that nothing older than an invalidation     *)
(* comes back rests on every place an environment can be in: the map, the  *)
(* files, and the hands of the threads that are about to write it to       *)
(* either.                                                                 *)
(*                                                                         *)
(* The subprocess driver: the invariant says who may touch the child: the  *)
(* holder of the mutex, and before that the chat that has spawned and not  *)
(* yet stored it.                                                          *)
(*                                                                         *)
(* The command line: reading undoes quoting, for any text and by its       *)
(* length.                                                                 *)
(***************************************************************************)
EXTENDS HostEnvCache, SubprocessDriver, RemoteInvocation, SequenceLemmas

-----------------------------------------------------------------------------
(* The host environment cache, for any hosts, files, threads and bounds.   *)

(* An environment that is not older than the last clean invalidation of    *)
(* the host it belongs to.                                                 *)
Usable(e) == e.kind = "env" => e.host \in Host /\ e.ver \in Nat /\ e.ver >= floor[e.host]

(* An environment stands only where that of its host may stand.            *)
FitsFile(e, f) == e.kind = "env" => FileOf[e.host] = f

Holding(t) == thread[t].at \in {"create", "lines", "rest", "insert"}

ThreadOK(t) ==
  \/ thread[t] = Off
  \/ \E h \in Host : thread[t] \in [at : {"looking", "reading"}, host : {h}]
  \/ \E h \in Host, e \in Envs :
       /\ thread[t] \in [at : {"create", "lines", "rest", "insert"}, host : {h}, env : {e}]
       /\ Usable(e) /\ FitsFile(e, FileOf[h])
       /\ thread[t].at \in {"lines", "rest"} => e.kind = "env"
       /\ e # None

CInv ==
  /\ real \in [Host -> 0..MaxEdits]
  /\ memory \in [Host -> Envs]
  /\ files \in [File -> Envs]
  /\ dropping \subseteq Host
  /\ floor \in [Host -> Nat]
  /\ \A h \in Host : floor[h] <= real[h]
  /\ \A h \in Host : Fresh(memory[h], h) /\ FitsFile(memory[h], FileOf[h])
  /\ \A f \in File : Usable(files[f]) /\ FitsFile(files[f], f)
  /\ DOMAIN thread = Reader
  /\ \A t \in Reader : ThreadOK(t)

Torn(e) == [e EXCEPT !.whole = FALSE]
SameEnv(d, e) == d.kind = e.kind /\ d.host = e.host /\ d.ver = e.ver

(* What may be held at all.                                                *)
LEMMA EnvFacts ==
  /\ None \in Envs /\ Empty \in Envs /\ None.kind = "none" /\ Empty.kind = "empty"
  /\ \A h \in Host, v \in 0..MaxEdits, w \in BOOLEAN :
       /\ EnvOf(h, v, w) \in Envs /\ EnvOf(h, v, w) # Empty /\ EnvOf(h, v, w) # None
       /\ EnvOf(h, v, w).kind = "env" /\ EnvOf(h, v, w).host = h /\ EnvOf(h, v, w).ver = v
  /\ \A e \in Envs : e.kind = "env" => e.host \in Host /\ e.ver \in 0..MaxEdits
  /\ \A e \in Envs : e.kind = "env" => Torn(e) \in Envs /\ SameEnv(Torn(e), e)
  /\ \A e \in Envs : e # Empty /\ e # None => e.kind = "env"
<1>1. /\ None \in Envs /\ Empty \in Envs /\ None.kind = "none" /\ Empty.kind = "empty"
  BY DEF Envs, None, Empty
<1>2. ASSUME NEW h \in Host, NEW v \in 0..MaxEdits, NEW w \in BOOLEAN
      PROVE  /\ EnvOf(h, v, w) \in Envs /\ EnvOf(h, v, w) # Empty /\ EnvOf(h, v, w) # None
             /\ EnvOf(h, v, w).kind = "env" /\ EnvOf(h, v, w).host = h /\ EnvOf(h, v, w).ver = v
  BY DEF Envs, None, Empty, EnvOf
<1>3. \A e \in Envs : e.kind = "env" => e.host \in Host /\ e.ver \in 0..MaxEdits
  BY DEF Envs, None, Empty
<1>4. \A e \in Envs : e # Empty /\ e # None => e.kind = "env"
  BY DEF Envs
<1>5. ASSUME NEW e \in Envs, e.kind = "env"
      PROVE  Torn(e) \in Envs /\ SameEnv(Torn(e), e)
  <2>1. e \in [kind : {"env"}, host : Host, ver : 0..MaxEdits, whole : BOOLEAN]
    BY <1>5 DEF Envs, None, Empty
  <2> QED
    BY <2>1 DEF Torn, SameEnv, Envs
<1> QED
  BY <1>1, <1>2, <1>3, <1>4, <1>5

(* What a probe of a host brings is an environment of that host.           *)
WholeEnv(h, v) == EnvOf(h, v, TRUE)

(* What a probe finds is an environment of its host.                       *)
LEMMA ProbedFacts ==
  ASSUME NEW h \in Host, NEW v \in 0..MaxEdits
  PROVE  /\ WholeEnv(h, v) \in Envs \ {None} /\ WholeEnv(h, v).kind = "env"
         /\ WholeEnv(h, v).host = h /\ WholeEnv(h, v).ver = v
BY DEF Envs, None, Empty, EnvOf, WholeEnv

(* Every host has its file.                                                *)
LEMMA FileFacts == \A h \in Host : FileOf[h] \in File
BY CacheAssumption DEF File

(* As long as no host's floor is raised, what is usable stays so.          *)
LEMMA KeptUnderFloor ==
  ASSUME CInv, UNCHANGED floor, dropping' \subseteq Host,
         real' \in [Host -> 0..MaxEdits], \A h \in Host : real[h] <= real'[h],
         memory' \in [Host -> Envs], files' \in [File -> Envs],
         \A h \in Host : memory'[h] = memory[h]
                         \/ (Usable(memory'[h]) /\ FitsFile(memory'[h], FileOf[h])),
         \A f \in File : files'[f] = files[f]
                         \/ (Usable(files'[f]) /\ FitsFile(files'[f], f)),
         DOMAIN thread' = Reader,
         \A t \in Reader : thread'[t] = thread[t] \/ ThreadOK(t)'
  PROVE  CInv'
BY CacheAssumption DEF CInv, Usable, Fresh, FitsFile, ThreadOK

(* What a thread holds and how its steps go on.                            *)
LEMMA HandsFacts ==
  ASSUME CInv, NEW t \in Reader, Holding(t)
  PROVE  /\ thread[t].host \in Host /\ thread[t].env \in Envs \ {None}
         /\ Usable(thread[t].env) /\ FitsFile(thread[t].env, FileOf[thread[t].host])
         /\ thread[t].at \in {"lines", "rest"} => thread[t].env.kind = "env"
         /\ \E h \in Host, e \in Envs :
              thread[t] \in [at : {"create", "lines", "rest", "insert"}, host : {h}, env : {e}]
<1>1. thread[t].at \notin {"off", "looking", "reading"}
  BY DEF Holding
<1> QED
  BY <1>1 DEF CInv, ThreadOK, Off

(* A thread that looks knows its host.                                     *)
LEMMA LookingFacts ==
  ASSUME CInv, NEW t \in Reader, thread[t].at \in {"looking", "reading"}
  PROVE  thread[t].host \in Host
         /\ thread[t] \in [at : {"looking", "reading"}, host : {thread[t].host}]
BY DEF CInv, ThreadOK, Off

(* Only t moves, and it is left well.                                      *)
Moved(t) ==
  /\ DOMAIN thread' = Reader
  /\ \A r \in Reader \ {t} : thread'[r] = thread[r]
  /\ ThreadOK(t)'

(* A thread takes hold of an environment, or goes on with the one it has.  *)
LEMMA TakesHold ==
  ASSUME CInv, NEW t \in Reader, NEW h \in Host, NEW e \in Envs \ {None}, NEW after \in {"create", "insert"},
         Usable(e), FitsFile(e, FileOf[h]), UNCHANGED floor,
         thread' = [thread EXCEPT ![t] = [at |-> after, host |-> h, env |-> e]]
  PROVE  Moved(t)
<1>1. DOMAIN thread' = Reader /\ \A r \in Reader \ {t} : thread'[r] = thread[r]
  BY DEF CInv
<1>2. thread'[t] = [at |-> after, host |-> h, env |-> e]
  BY DEF CInv
<1>3. Usable(e)'
  BY DEF Usable
<1>4. ThreadOK(t)'
  BY <1>2, <1>3 DEF ThreadOK, FitsFile
<1> QED
  BY <1>1, <1>4 DEF Moved

(* A thread that goes on holds what it held.                               *)
LEMMA GoesOn ==
  ASSUME CInv, NEW t \in Reader, Holding(t), NEW after \in {"lines", "rest", "insert"},
         after \in {"lines", "rest"} => thread[t].env.kind = "env",
         thread' = [thread EXCEPT ![t].at = after], UNCHANGED floor
  PROVE  Moved(t)
<1>1. DOMAIN thread' = Reader /\ \A r \in Reader \ {t} : thread'[r] = thread[r]
  BY DEF CInv
<1>2. PICK k \in Host, e \in Envs :
        thread[t] \in [at : {"create", "lines", "rest", "insert"}, host : {k}, env : {e}]
  BY HandsFacts
<1>3. /\ thread'[t] \in [at : {"create", "lines", "rest", "insert"}, host : {k}, env : {e}]
      /\ thread'[t].at = after
  BY <1>2 DEF CInv
<1>4. e # None /\ Usable(e) /\ FitsFile(e, FileOf[k]) /\ (after \in {"lines", "rest"} => e.kind = "env")
  BY <1>2, HandsFacts
<1>5. Usable(e)'
  BY <1>4 DEF Usable
<1>6. ThreadOK(t)'
  BY <1>3, <1>4, <1>5 DEF ThreadOK, FitsFile
<1> QED
  BY <1>1, <1>6 DEF Moved

(* Where nothing is written, or one file, or one entry of the map.         *)
LEMMA NothingWritten ==
  ASSUME CInv, NEW t \in Reader, Moved(t), UNCHANGED <<real, memory, files, dropping, floor>>
  PROVE  CInv'
<1>1. /\ memory \in [Host -> Envs] /\ files \in [File -> Envs]
      /\ real \in [Host -> 0..MaxEdits] /\ dropping \subseteq Host
      /\ \A k \in Host : real[k] <= real[k]
  BY CacheAssumption DEF CInv
<1> QED
  BY <1>1, KeptUnderFloor DEF Moved, Usable, FitsFile

(* A file may be written with what fits it,                                *)
LEMMA FileWritten ==
  ASSUME CInv, NEW t \in Reader, Moved(t), UNCHANGED <<real, memory, dropping, floor>>,
         NEW f \in File, NEW e \in Envs, Usable(e), FitsFile(e, f),
         files' = [files EXCEPT ![f] = e]
  PROVE  CInv'
<1>1. /\ memory \in [Host -> Envs] /\ files \in [File -> Envs]
      /\ real \in [Host -> 0..MaxEdits] /\ dropping \subseteq Host
      /\ \A k \in Host : real[k] <= real[k]
  BY CacheAssumption DEF CInv
<1>2. files' \in [File -> Envs]
  BY <1>1
<1>3. \A g \in File : files'[g] = files[g] \/ (g = f /\ files'[g] = e)
  BY <1>1
<1>4. \A g \in File : files'[g] = files[g] \/ (Usable(files'[g]) /\ FitsFile(files'[g], g))
  BY <1>3 DEF Usable, FitsFile
<1> QED
  BY <1>1, <1>2, <1>4, KeptUnderFloor DEF Moved, Usable, FitsFile

(* and so may an entry of the map.                                         *)
LEMMA EntryWritten ==
  ASSUME CInv, NEW t \in Reader, Moved(t), UNCHANGED <<real, files, dropping, floor>>,
         NEW h \in Host, NEW e \in Envs, Usable(e), FitsFile(e, FileOf[h]),
         memory' = [memory EXCEPT ![h] = e]
  PROVE  CInv'
<1>1. /\ memory \in [Host -> Envs] /\ files \in [File -> Envs]
      /\ real \in [Host -> 0..MaxEdits] /\ dropping \subseteq Host
      /\ \A k \in Host : real[k] <= real[k]
  BY CacheAssumption DEF CInv
<1>2. memory' \in [Host -> Envs]
  BY <1>1
<1>3. \A g \in Host : memory'[g] = memory[g] \/ (g = h /\ memory'[g] = e)
  BY <1>1
<1>4. \A g \in Host : memory'[g] = memory[g] \/ (Usable(memory'[g]) /\ FitsFile(memory'[g], FileOf[g]))
  BY <1>3 DEF Usable, FitsFile
<1> QED
  BY <1>1, <1>2, <1>4, KeptUnderFloor DEF Moved, Usable, FitsFile

(* Every step of a thread keeps the invariant.                             *)
LEMMA ReaderStep ==
  ASSUME CInv, NEW t \in Reader,
         \/ \E h \in Host : AskFor(t, h)
         \/ HitMemory(t) \/ Miss(t) \/ HitDisk(t) \/ ProbeHost(t) \/ ProbeFails(t)
         \/ CreateFile(t) \/ WriteLines(t) \/ WriteRest(t) \/ SaveFails(t) \/ Insert(t)
  PROVE  CInv'
<1> DEFINE h == thread[t].host
           e == thread[t].env
<1>1. ASSUME NEW k \in Host, AskFor(t, k) PROVE CInv'
  <2>1. Moved(t)
    BY <1>1 DEF AskFor, Moved, ThreadOK, CInv
  <2> QED
    BY <1>1, <2>1, NothingWritten DEF AskFor
<1>2. CASE HitMemory(t)
  <2>1. Moved(t)
    BY <1>2 DEF HitMemory, Moved, ThreadOK, CInv
  <2> QED
    BY <1>2, <2>1, NothingWritten DEF HitMemory
<1>3. CASE Miss(t)
  <2>1. h \in Host /\ thread[t] \in [at : {"looking", "reading"}, host : {h}]
    BY <1>3, LookingFacts DEF Miss
  <2>2. Moved(t)
    BY <1>3, <2>1 DEF Miss, Moved, ThreadOK, CInv
  <2> QED
    BY <1>3, <2>2, NothingWritten DEF Miss
<1>4. CASE HitDisk(t)
  <2> DEFINE d == Parsed(FileOf[h])
  <2>1. h \in Host
    BY <1>4, LookingFacts DEF HitDisk
  <2>2. d \in Envs \ {None} /\ Usable(d) /\ FitsFile(d, FileOf[h])
    BY <1>4, <2>1, EnvFacts, FileFacts DEF HitDisk, Parsed, CInv, Usable, FitsFile
  <2>3. thread' = [thread EXCEPT ![t] = [at |-> "insert", host |-> h, env |-> d]]
    BY <1>4 DEF HitDisk
  <2> HIDE DEF d
  <2>4. Moved(t)
    BY <1>4, <2>1, <2>2, <2>3, TakesHold DEF HitDisk
  <2> QED
    BY <1>4, <2>4, NothingWritten DEF HitDisk
<1>5. CASE ProbeHost(t)
  <2> DEFINE d == WholeEnv(h, real[h])
  <2>1. h \in Host
    BY <1>5, LookingFacts DEF ProbeHost
  <2>2. real[h] \in 0..MaxEdits /\ real[h] \in Nat /\ floor[h] <= real[h]
    BY <2>1, CacheAssumption DEF CInv
  <2>3. d \in Envs \ {None} /\ d.kind = "env" /\ d.host = h /\ d.ver = real[h]
    BY <2>1, <2>2, ProbedFacts
  <2>4. thread' = [thread EXCEPT ![t] = [at |-> "create", host |-> h, env |-> d]]
    BY <1>5 DEF ProbeHost, WholeEnv
  <2> HIDE DEF d
  <2>5. Usable(d) /\ FitsFile(d, FileOf[h])
    BY <2>1, <2>2, <2>3 DEF Usable, FitsFile, CInv
  <2>6. Moved(t)
    BY <1>5, <2>1, <2>3, <2>4, <2>5, TakesHold DEF ProbeHost
  <2> QED
    BY <1>5, <2>6, NothingWritten DEF ProbeHost
<1>6. CASE ProbeFails(t)
  <2>1. h \in Host
    BY <1>6, LookingFacts DEF ProbeFails
  <2>2. Empty \in Envs \ {None} /\ Usable(Empty) /\ FitsFile(Empty, FileOf[h])
    BY EnvFacts DEF Usable, FitsFile
  <2>3. Moved(t)
    BY <1>6, <2>1, <2>2, TakesHold DEF ProbeFails
  <2> QED
    BY <1>6, <2>3, NothingWritten DEF ProbeFails
<1>7. CASE CreateFile(t)
  <2>1. Holding(t) /\ h \in Host /\ FileOf[h] \in File /\ e \in Envs \ {None}
    BY <1>7, HandsFacts, FileFacts DEF CreateFile, Holding
  <2>2. Empty \in Envs \ {None} /\ Usable(Empty) /\ FitsFile(Empty, FileOf[h])
    BY EnvFacts DEF Usable, FitsFile
  <2>3. e # Empty => e.kind = "env"
    BY <2>1, EnvFacts
  <2>4. Moved(t)
    BY <1>7, <2>1, <2>3, GoesOn DEF CreateFile
  <2> QED
    BY <1>7, <2>1, <2>2, <2>4, FileWritten DEF CreateFile
<1>8. CASE WriteLines(t)
  <2>1. Holding(t) /\ h \in Host /\ FileOf[h] \in File /\ e.kind = "env"
    BY <1>8, HandsFacts, FileFacts DEF WriteLines, Holding
  <2> DEFINE d == Torn(e)
  <2>2. d \in Envs /\ SameEnv(d, e)
    BY <2>1, HandsFacts, EnvFacts
  <2>3. Usable(d) /\ FitsFile(d, FileOf[h])
    BY <2>1, <2>2, HandsFacts DEF SameEnv, Usable, FitsFile
  <2>4. files' = [files EXCEPT ![FileOf[h]] = d]
    BY <1>8 DEF WriteLines, Torn
  <2> HIDE DEF d
  <2>5. Moved(t)
    BY <1>8, <2>1, GoesOn DEF WriteLines
  <2> QED
    BY <1>8, <2>1, <2>2, <2>3, <2>4, <2>5, FileWritten DEF WriteLines
<1>9. CASE WriteRest(t)
  <2>1. Holding(t) /\ h \in Host /\ FileOf[h] \in File
    BY <1>9, HandsFacts, FileFacts DEF WriteRest, Holding
  <2>2. e \in Envs /\ Usable(e) /\ FitsFile(e, FileOf[h])
    BY <2>1, HandsFacts
  <2>3. Moved(t)
    BY <1>9, <2>1, GoesOn DEF WriteRest
  <2> QED
    BY <1>9, <2>1, <2>2, <2>3, FileWritten DEF WriteRest
<1>10. CASE Insert(t)
  <2>1. Holding(t) /\ h \in Host
    BY <1>10, HandsFacts DEF Insert, Holding
  <2>2. e \in Envs /\ Usable(e) /\ FitsFile(e, FileOf[h])
    BY <2>1, HandsFacts
  <2>3. Moved(t)
    BY <1>10 DEF Insert, Moved, ThreadOK, CInv
  <2> QED
    BY <1>10, <2>1, <2>2, <2>3, EntryWritten DEF Insert
<1>11. CASE SaveFails(t)
  <2>1. Holding(t)
    BY <1>11 DEF SaveFails, Holding
  <2>2. Moved(t)
    BY <1>11, <2>1, GoesOn DEF SaveFails
  <2> QED
    BY <1>11, <2>2, NothingWritten DEF SaveFails
<1> QED
  BY <1>1, <1>2, <1>3, <1>4, <1>5, <1>6, <1>7, <1>8, <1>9, <1>10, <1>11

(* What drops entries, and what happens outside, keeps it: nothing older   *)
(* comes in.                                                               *)
LEMMA OutsideStep ==
  ASSUME CInv,
         \/ \E h \in Host : Invalidate(h) \/ RemovalFails(h) \/ Edit(h)
         \/ InvalidateAll \/ Restart \/ UNCHANGED hevars
         \/ \E F : RefreshElsewhere(F)
  PROVE  CInv'
<1>1. UNCHANGED floor /\ dropping' \subseteq Host
  BY DEF Invalidate, RemovalFails, Edit, InvalidateAll, Restart, RefreshElsewhere, hevars, CInv
<1>2. real' \in [Host -> 0..MaxEdits] /\ \A h \in Host : real[h] <= real'[h]
  BY CacheAssumption DEF Invalidate, RemovalFails, Edit, InvalidateAll, Restart, RefreshElsewhere, hevars, CInv
<1>3. /\ memory' \in [Host -> Envs]
      /\ \A h \in Host : memory'[h] \in {memory[h], None}
  BY EnvFacts DEF Invalidate, RemovalFails, Edit, InvalidateAll, Restart, RefreshElsewhere, hevars, CInv
<1>4. /\ files' \in [File -> Envs]
      /\ \A f \in File : files'[f] \in {files[f], None}
  BY EnvFacts DEF Invalidate, RemovalFails, Edit, InvalidateAll, Restart, RefreshElsewhere, hevars, CInv
<1>5. DOMAIN thread' = Reader /\ \A t \in Reader : thread'[t] \in {thread[t], Off}
  BY DEF Invalidate, RemovalFails, Edit, InvalidateAll, Restart, RefreshElsewhere, hevars, CInv
<1>6. \A t \in Reader : thread'[t] = thread[t] \/ ThreadOK(t)'
  BY <1>5 DEF ThreadOK
<1>7. None.kind # "env"
  BY EnvFacts
<1> QED
  BY <1>1, <1>2, <1>3, <1>4, <1>5, <1>6, <1>7, KeptUnderFloor DEF Usable, FitsFile

(* The end of an invalidation that met no lookup: what the host had is     *)
(* nowhere any more, so its floor may rise.                                *)
LEMMA RemoveStep ==
  ASSUME CInv, NEW h \in Host, RemoveFile(h)
  PROVE  CInv'
<1>1. /\ UNCHANGED <<real, memory, thread>>
      /\ dropping' \subseteq Host
      /\ files' = [files EXCEPT ![FileOf[h]] = None]
  BY DEF RemoveFile, CInv
<1>2. FileOf[h] \in File /\ None \in Envs /\ None.kind # "env"
  BY FileFacts, EnvFacts
<1>3. /\ files' \in [File -> Envs]
      /\ \A f \in File : files'[f] = IF f = FileOf[h] THEN None ELSE files[f]
  BY <1>1, <1>2 DEF CInv
<1>4. CASE UNCHANGED floor
  BY <1>1, <1>2, <1>3, <1>4 DEF CInv, Usable, Fresh, FitsFile, ThreadOK
<1>5. CASE /\ \A t \in Reader : thread[t] = Off
           /\ memory[h] = None
           /\ floor' = [floor EXCEPT ![h] = real[h]]
  <2>1. /\ floor' \in [Host -> Nat]
        /\ \A k \in Host : floor'[k] <= real[k]
        /\ \A k \in Host : k # h => floor'[k] = floor[k]
    BY <1>5, CacheAssumption DEF CInv
  <2>2. \A f \in File : files'[f].kind = "env" => files'[f] = files[f] /\ files[f].host # h
    BY <1>2, <1>3 DEF CInv, FitsFile
  <2>3. \A f \in File : files'[f].kind = "env" =>
          /\ files'[f].host \in Host /\ files'[f].ver \in Nat
          /\ files'[f].ver >= floor'[files'[f].host]
          /\ FileOf[files'[f].host] = f
    BY <2>1, <2>2 DEF CInv, Usable, FitsFile
  <2>4. \A k \in Host : memory'[k].kind = "env" /\ memory'[k].host = k
                        => memory'[k].ver >= floor'[k]
    BY <1>1, <1>2, <1>5, <2>1 DEF CInv, Fresh
  <2>5. \A k \in Host : FitsFile(memory[k], FileOf[k])
    BY DEF CInv
  <2> QED
    BY <1>1, <1>3, <1>5, <2>1, <2>3, <2>4, <2>5 DEF CInv, ThreadOK, Usable, Fresh, FitsFile
<1> QED
  BY <1>4, <1>5 DEF RemoveFile, Quiet

(* The invariant holds from the start on.                                  *)
LEMMA CacheInvariant == HeSpec => []CInv
<1>1. HeInit => CInv
  <2> SUFFICES ASSUME HeInit PROVE CInv
    OBVIOUS
  <2>1. /\ real = [h \in Host |-> 0] /\ real \in [Host -> 0..MaxEdits]
        /\ floor = [h \in Host |-> 0] /\ floor \in [Host -> Nat]
        /\ dropping = {}
    BY CacheAssumption DEF HeInit
  <2>2. memory \in [Host -> Envs] /\ \A h \in Host : memory[h].kind = "none"
    BY EnvFacts DEF HeInit
  <2>3. files \in [File -> Envs]
    BY EnvFacts, CacheAssumption DEF HeInit
  <2>4. \A f \in File : files[f].kind = "env" =>
          files[f].host \in Host /\ files[f].ver = 0 /\ FileOf[files[f].host] = f
    <3> SUFFICES ASSUME NEW f \in File, files[f].kind = "env"
                 PROVE  files[f].host \in Host /\ files[f].ver = 0 /\ FileOf[files[f].host] = f
      OBVIOUS
    <3>1. files[f] # None
      BY EnvFacts
    <3>2. PICK h \in Host, w \in BOOLEAN : files[f] = EnvOf(h, 0, w)
      BY <3>1 DEF HeInit
    <3>3. files[f].host \in Host /\ files[f].ver = 0
      BY <3>2 DEF EnvOf
    <3>4. PICK k \in Host : f = FileOf[k]
      BY DEF File
    <3> QED
      BY <3>1, <3>3, <3>4 DEF HeInit
  <2>5. DOMAIN thread = Reader /\ \A t \in Reader : ThreadOK(t)
    BY DEF HeInit, ThreadOK
  <2> QED
    BY <2>1, <2>2, <2>3, <2>4, <2>5 DEF CInv, Usable, Fresh, FitsFile
<1>2. CInv /\ [HeNext]_hevars => CInv'
  BY ReaderStep, OutsideStep, RemoveStep DEF HeNext
<1> QED
  BY <1>1, <1>2, PTL DEF HeSpec

(* Nothing from before an invalidation that met no lookup and removed the  *)
(* file comes back, from memory or from disk, whatever the threads, other  *)
(* processes, failures and crashes do later, and no host gets the          *)
(* environment of one with another file (host_env.rs:210-286).             *)
THEOREM InvalidatedCorrect == HeSpec => []InvalidatedIsGone
<1>1. CInv => InvalidatedIsGone
  BY FileFacts DEF CInv, InvalidatedIsGone, Fresh, Usable, FitsFile
<1> QED
  BY <1>1, CacheInvariant, PTL


(* Troubles stay within their bound.                                       *)
LEMMA FailuresBounded == HeSpec => [](failures \in 0..MaxFailures)
<1>1. HeInit => failures \in 0..MaxFailures
  BY CacheAssumption DEF HeInit
<1>2. [HeNext]_hevars => failures' = failures \/ (failures < MaxFailures /\ failures' = failures + 1)
  BY DEF HeNext, hevars, AskFor, HitMemory, Miss, HitDisk, ProbeHost, ProbeFails, CreateFile,
    WriteLines, WriteRest, SaveFails, Insert, Invalidate, RemoveFile, RemovalFails, Edit, InvalidateAll,
    RefreshElsewhere, Restart
<1>3. failures \in 0..MaxFailures /\ [HeNext]_hevars => (failures \in 0..MaxFailures)'
  BY <1>2, CacheAssumption
<1> QED
  BY <1>1, <1>3, PTL DEF HeSpec

(* The cache holds environments of the hosts there are, in memory, on disk *)
(* and in the hands of its threads, and none is newer than its host        *)
(* (host_env.rs:36-100, 210-286).                                          *)
THEOREM CacheTypeCorrect == HeSpec => []CacheTypeOK
<1>1. CInv /\ failures \in 0..MaxFailures => CacheTypeOK
  <2> SUFFICES ASSUME CInv, failures \in 0..MaxFailures PROVE CacheTypeOK
    OBVIOUS
  <2>1. floor \in [Host -> 0..MaxEdits]
    BY CacheAssumption DEF CInv
  <2>2. ASSUME NEW t \in Reader
        PROVE  thread[t] = Off \/ (thread[t].host \in Host
                 /\ ("env" \in DOMAIN thread[t] => thread[t].env \in Envs \ {None}))
    <3>1. ThreadOK(t)
      BY DEF CInv
    <3>2. CASE thread[t] = Off
      BY <3>2
    <3>3. ASSUME NEW h \in Host, thread[t] \in [at : {"looking", "reading"}, host : {h}]
          PROVE  thread[t].host \in Host /\ "env" \notin DOMAIN thread[t]
      BY <3>3
    <3>4. ASSUME NEW h \in Host, NEW e \in Envs, e # None,
                 thread[t] \in [at : {"create", "lines", "rest", "insert"}, host : {h}, env : {e}]
          PROVE  thread[t].host \in Host /\ thread[t].env \in Envs \ {None}
      BY <3>4
    <3> QED
      BY <3>1, <3>2, <3>3, <3>4 DEF ThreadOK
  <2> QED
    BY <2>1, <2>2 DEF CInv, CacheTypeOK
<1> QED
  BY <1>1, CacheInvariant, FailuresBounded, PTL

-----------------------------------------------------------------------------
(* The subprocess driver, for any callers, any number of processes and     *)
(* troubles.                                                               *)

DTyped ==
  /\ child \in Proc \cup {0}
  /\ guard \subseteq Caller
  /\ at \in [Caller -> {"idle", "output", "streaming", "locking", "starting", "storing",
                        "relock", "writing", "reading", "done"}]
  /\ mine \in [Caller -> Proc \cup {0}]
  /\ proc \in [Proc -> {"unborn", "running", "exited", "killed"}]
  /\ asked \in [Proc -> SUBSET Caller]
  /\ input \in [Proc -> BOOLEAN]
  /\ pipe \in [Proc -> {"read", "full", "shut"}]
  /\ result \in [Caller -> {"none", "ok", "error", "timed out", "used up"}]

(* The processes whose input is open.                                      *)
Open == {p \in Proc : input[p]}

(* The mutex is held by the one chat that writes or reads, which has a     *)
(* child; a child whose input is closed is being read.                     *)
Locked ==
  /\ \A c, d \in guard : c = d
  /\ \A c \in Caller : c \in guard <=> at[c] \in {"writing", "reading"}
  /\ guard # {} => child # 0
  /\ child # 0 => proc[child] # "unborn"
  /\ child # 0 /\ child \notin Open => \E c \in Caller : at[c] = "reading"

(* A process has at most the prompt of the chat that uses it, and none     *)
(* while its input is open; one that waits to be stored is nobody else's.  *)
OpenUnasked == \A p \in Proc : p \in Open => asked[p] = {}

OwnProcess(c) ==
  /\ at[c] = "reading" => mine[c] = child
  /\ at[c] \in {"output", "streaming", "reading"} \/ result[c] = "ok" =>
       mine[c] \in Proc /\ proc[mine[c]] # "unborn" /\ asked[mine[c]] = {c}

KeepsNew(c) ==
  at[c] = "storing" =>
    /\ mine[c] \in Proc /\ mine[c] \in Open
    /\ proc[mine[c]] # "unborn" /\ mine[c] # child

Apart ==
  \A c, d \in Caller : at[c] = "storing" /\ at[d] = "storing" /\ mine[c] = mine[d] => c = d

Returned(c) == (result[c] # "none" => at[c] = "done") /\ result[c] # "used up"

Prompted ==
  /\ OpenUnasked
  /\ Apart
  /\ \A c \in Caller : OwnProcess(c) /\ KeepsNew(c) /\ Returned(c)

DrInv == DTyped /\ Locked /\ Prompted

(* No process has the number that stands for none.                         *)
LEMMA NoProcess == 0 \notin Proc
BY DEF Proc

(* A new process is nobody's yet.                                          *)
LEMMA SpawnStep ==
  ASSUME DrInv, NEW c \in Caller, NEW p \in Proc, NEW there \in {"output", "streaming", "storing"},
         NEW prompts \in {{}, {c}}, prompts = {} <=> there = "storing",
         at[c] \in {"idle", "starting"}, Spawn(p, prompts),
         mine' = [mine EXCEPT ![c] = p], Go(c, there),
         UNCHANGED <<child, guard, result>>
  PROVE  DrInv'
<1> USE DEF DrInv
<1>0. /\ proc[p] = "unborn" /\ p # 0
      /\ result[c] = "none"
  BY NoProcess DEF Spawn, Prompted, OpenUnasked, OwnProcess, KeepsNew, Apart, Returned
<1>1. /\ p # child
      /\ \A d \in Caller : at[d] \in {"output", "streaming", "reading", "storing"} \/ result[d] = "ok"
           => mine[d] # p
  BY <1>0 DEF Locked, Prompted, OpenUnasked, OwnProcess, KeepsNew, Apart, Returned
<1>2. /\ \A q \in Proc : proc'[q] = IF q = p THEN "running" ELSE proc[q]
      /\ \A q \in Proc : asked'[q] = IF q = p THEN prompts ELSE asked[q]
      /\ Open' = IF there = "storing" THEN Open \cup {p} ELSE Open \ {p}
  BY DEF Spawn, DTyped, Open
<1>3. /\ \A d \in Caller : mine'[d] = IF d = c THEN p ELSE mine[d]
      /\ \A d \in Caller : at'[d] = IF d = c THEN there ELSE at[d]
  BY DEF Go, DTyped
<1>4. DTyped'
  BY DEF DTyped, Spawn, Go
<1>5. Locked'
  BY ZenonT(40), <1>0, <1>1, <1>2, <1>3 DEF Locked, DTyped
<1>6. Prompted'
  <2>0. OpenUnasked'
    BY <1>0, <1>1, <1>2, <1>3 DEF Prompted, OpenUnasked, DTyped
  <2>1. Apart'
    <3> SUFFICES ASSUME NEW d \in Caller, NEW e \in Caller, mine'[d] = mine'[e],
                           at'[d] = "storing", at'[e] = "storing"
                    PROVE  d = e
      BY DEF Apart
    <3> QED
      BY <1>0, <1>1, <1>2, <1>3 DEF Prompted, Apart
  <2>2. ASSUME NEW d \in Caller PROVE OwnProcess(d)'
    BY ZenonT(30), <1>0, <1>1, <1>2, <1>3 DEF Prompted, OwnProcess, DTyped
  <2>3. ASSUME NEW d \in Caller PROVE KeepsNew(d)'
    BY <1>0, <1>1, <1>2, <1>3 DEF Prompted, KeepsNew, Apart, DTyped
  <2>4. ASSUME NEW d \in Caller PROVE Returned(d)'
    BY <1>0, <1>1, <1>2, <1>3 DEF Prompted, Returned, DTyped
  <2> QED
    BY <2>0, <2>1, <2>2, <2>3, <2>4 DEF Prompted
<1> QED
  BY <1>4, <1>5, <1>6

(* A chat that ends leaves the others as they are; its answer, if it has   *)
(* one, is that of its process.                                            *)
LEMMA ReturnStep ==
  ASSUME DrInv, NEW c \in Caller, NEW r \in {"ok", "error", "timed out"}, Return(c, r),
         at[c] \notin {"writing", "reading"},
         r = "ok" => at[c] \in {"output", "streaming"},
         proc' \in [Proc -> {"unborn", "running", "exited", "killed"}],
         \A p \in Proc : proc[p] # "unborn" => proc'[p] # "unborn",
         UNCHANGED <<child, guard, mine, asked, input, pipe>>
  PROVE  DrInv'
<1> USE DEF DrInv
<1>1. /\ \A d \in Caller : at'[d] = IF d = c THEN "done" ELSE at[d]
      /\ \A d \in Caller : result'[d] = IF d = c THEN r ELSE result[d]
      /\ Open' = Open
  BY DEF Return, Go, DTyped, Open
<1>2. DTyped'
  BY DEF DTyped, Return, Go
<1>3. Locked'
  <2>1. /\ \A d \in Caller : at[d] \in {"writing", "reading"} => at'[d] = at[d]
        /\ \A d \in Caller : at'[d] \in {"writing", "reading"} => at'[d] = at[d]
    BY <1>1
  <2>2. child' # 0 => proc'[child'] # "unborn"
    <3>1. child' = child /\ (child # 0 => child \in Proc /\ proc[child] # "unborn")
      BY DEF Locked, DTyped
    <3> QED
      BY <3>1
  <2>3. child' # 0 /\ child' \notin Open' => \E d \in Caller : at'[d] = "reading"
    <3>1. ASSUME child # 0, child \notin Open PROVE \E d \in Caller : at'[d] = "reading"
      <4>1. PICK d \in Caller : at[d] = "reading"
        BY <3>1 DEF Locked
      <4> QED
        BY <2>1, <4>1
    <3> QED
      BY <1>1, <3>1
  <2>4. \A d \in Caller : d \in guard' <=> at'[d] \in {"writing", "reading"}
    BY <1>1, <2>1 DEF Locked
  <2>5. (\A d, e \in guard' : d = e) /\ (guard' # {} => child' # 0)
    BY DEF Locked
  <2> QED
    BY <2>2, <2>3, <2>4, <2>5 DEF Locked
<1>4. Prompted'
  <2>0. OpenUnasked'
    BY <1>1 DEF Prompted, OpenUnasked, DTyped
  <2>1. Apart'
    <3> SUFFICES ASSUME NEW d \in Caller, NEW e \in Caller, mine'[d] = mine'[e],
                           at'[d] = "storing", at'[e] = "storing"
                    PROVE  d = e
      BY DEF Apart
    <3> QED
      BY <1>1 DEF Prompted, Apart
  <2>2. ASSUME NEW d \in Caller PROVE OwnProcess(d)'
    BY <1>1 DEF Prompted, OwnProcess, DTyped
  <2>3. ASSUME NEW d \in Caller PROVE KeepsNew(d)'
    BY <1>1 DEF Prompted, KeepsNew, Apart, DTyped
  <2>4. ASSUME NEW d \in Caller PROVE Returned(d)'
    BY <1>1 DEF Prompted, Returned, DTyped
  <2> QED
    BY <2>0, <2>1, <2>2, <2>3, <2>4 DEF Prompted
<1> QED
  BY <1>2, <1>3, <1>4

(* The holder of the mutex gives it up at the end of its chat.             *)
LEMMA ReleaseStep ==
  ASSUME DrInv, NEW c \in Caller, NEW r \in {"ok", "error", "timed out"}, Return(c, r),
         at[c] \in {"writing", "reading"}, guard' = {},
         r = "ok" => at[c] = "reading",
         child' = IF at[c] = "reading" THEN 0 ELSE child,
         UNCHANGED <<mine, procs>>
  PROVE  DrInv'
<1> USE DEF DrInv
<1>1. /\ \A d \in Caller : at'[d] = IF d = c THEN "done" ELSE at[d]
      /\ \A d \in Caller : result'[d] = IF d = c THEN r ELSE result[d]
      /\ \A d \in Caller : d # c => at[d] \notin {"writing", "reading"}
      /\ UNCHANGED <<Open, mine, proc, asked>>
  BY ZenonT(40) DEF Return, Go, DTyped, Locked, procs, Open
<1>2. DTyped'
  BY DEF DTyped, Return, Go, procs
<1>3. Locked'
  BY <1>1 DEF Locked, DTyped, procs
<1>4. \A d \in Caller : at[d] = "storing" => mine[d] # 0
  BY NoProcess DEF Prompted, OpenUnasked, OwnProcess, KeepsNew, Apart, Returned
<1>5. Prompted'
  <2>0. OpenUnasked'
    BY <1>1, <1>4 DEF Prompted, OpenUnasked, DTyped
  <2>1. Apart'
    <3> SUFFICES ASSUME NEW d \in Caller, NEW e \in Caller, mine'[d] = mine'[e],
                           at'[d] = "storing", at'[e] = "storing"
                    PROVE  d = e
      BY DEF Apart
    <3> QED
      BY <1>1, <1>4 DEF Prompted, Apart
  <2>2. ASSUME NEW d \in Caller PROVE OwnProcess(d)'
    BY <1>1, <1>4 DEF Prompted, OwnProcess, DTyped
  <2>3. ASSUME NEW d \in Caller PROVE KeepsNew(d)'
    BY <1>1, <1>4 DEF Prompted, KeepsNew, Apart, DTyped
  <2>4. ASSUME NEW d \in Caller PROVE Returned(d)'
    BY <1>1, <1>4 DEF Prompted, Returned, DTyped
  <2> QED
    BY <2>0, <2>1, <2>2, <2>3, <2>4 DEF Prompted
<1> QED
  BY <1>2, <1>3, <1>5

(* A chat goes on to another place, taking the mutex or not.               *)
LEMMA GoStep ==
  ASSUME DrInv, NEW c \in Caller, NEW there \in {"locking", "starting", "writing"}, Go(c, there),
         at[c] \in {"idle", "locking", "relock"},
         there # "writing" => UNCHANGED guard,
         there = "writing" => guard = {} /\ guard' = {c} /\ child # 0,
         UNCHANGED <<child, mine, procs, result>>
  PROVE  DrInv'
<1> USE DEF DrInv
<1>1. /\ \A d \in Caller : at'[d] = IF d = c THEN there ELSE at[d]
      /\ UNCHANGED <<Open, mine, proc, asked>>
  BY DEF Go, DTyped, procs, Open
<1>2. DTyped'
  BY DEF DTyped, Go, procs
<1>3. Locked'
  BY <1>1 DEF Locked, DTyped, procs
<1>4. Prompted'
  <2>0. OpenUnasked'
    BY <1>1 DEF Prompted, OpenUnasked, DTyped
  <2>1. Apart'
    <3> SUFFICES ASSUME NEW d \in Caller, NEW e \in Caller, mine'[d] = mine'[e],
                           at'[d] = "storing", at'[e] = "storing"
                    PROVE  d = e
      BY DEF Apart
    <3> QED
      BY <1>1 DEF Prompted, Apart
  <2>2. ASSUME NEW d \in Caller PROVE OwnProcess(d)'
    BY <1>1 DEF Prompted, OwnProcess, DTyped
  <2>3. ASSUME NEW d \in Caller PROVE KeepsNew(d)'
    BY <1>1 DEF Prompted, KeepsNew, Apart, DTyped
  <2>4. ASSUME NEW d \in Caller PROVE Returned(d)'
    BY <1>1 DEF Prompted, Returned, DTyped
  <2> QED
    BY <2>0, <2>1, <2>2, <2>3, <2>4 DEF Prompted
<1> QED
  BY <1>2, <1>3, <1>4

(* The started child is stored, over whatever was there.                   *)
LEMMA StoreStep == ASSUME DrInv, NEW c \in Caller, Store(c) PROVE DrInv'
<1> USE DEF DrInv
<1>1. /\ at[c] = "storing" /\ guard = {} /\ child' = mine[c]
      /\ mine[c] \in Proc /\ mine[c] # 0 /\ proc[mine[c]] # "unborn" /\ mine[c] \in Open
      /\ UNCHANGED <<guard, mine, proc, asked, Open, result>>
  BY NoProcess DEF Store, Prompted, OpenUnasked, OwnProcess, KeepsNew, Apart, Returned, procs, Open
<1>2. \A d \in Caller : at'[d] = IF d = c THEN "relock" ELSE at[d]
  BY DEF Store, Go, DTyped
<1>3. \A d \in Caller : at[d] \notin {"writing", "reading"}
  BY <1>1 DEF Locked
<1>4. DTyped'
  BY <1>1 DEF DTyped, Store, Go, procs
<1>5. Locked'
  BY <1>1, <1>2, <1>3 DEF Locked
<1>6. Prompted'
  <2>0. OpenUnasked'
    BY <1>1, <1>2, <1>3 DEF Prompted, OpenUnasked, DTyped
  <2>1. Apart'
    <3> SUFFICES ASSUME NEW d \in Caller, NEW e \in Caller, mine'[d] = mine'[e],
                           at'[d] = "storing", at'[e] = "storing"
                    PROVE  d = e
      BY DEF Apart
    <3> QED
      BY <1>1, <1>2, <1>3 DEF Prompted, Apart
  <2>2. ASSUME NEW d \in Caller PROVE OwnProcess(d)'
    BY <1>1, <1>2, <1>3 DEF Prompted, OwnProcess, DTyped
  <2>3. ASSUME NEW d \in Caller PROVE KeepsNew(d)'
    BY <1>1, <1>2, <1>3 DEF Prompted, KeepsNew, Apart, DTyped
  <2>4. ASSUME NEW d \in Caller PROVE Returned(d)'
    BY <1>1, <1>2, <1>3 DEF Prompted, Returned, DTyped
  <2> QED
    BY <2>0, <2>1, <2>2, <2>3, <2>4 DEF Prompted
<1> QED
  BY <1>4, <1>5, <1>6

(* The child that is written to has had no prompt before.                  *)
LEMMA WriteStep == ASSUME DrInv, NEW c \in Caller, Write(c) PROVE DrInv'
<1> USE DEF DrInv
<1>1. /\ at[c] = "writing" /\ child \in Open /\ c \in guard /\ child # 0 /\ child \in Proc
      /\ asked[child] = {} /\ proc[child] # "unborn"
      /\ UNCHANGED <<child, guard, proc, result>>
  BY DEF Write, Locked, Prompted, OpenUnasked, OwnProcess, KeepsNew, Apart, Returned, DTyped, Open
<1>2. /\ \A d \in Caller : at'[d] = IF d = c THEN "reading" ELSE at[d]
      /\ \A d \in Caller : mine'[d] = IF d = c THEN child ELSE mine[d]
      /\ \A p \in Proc : asked'[p] = IF p = child THEN {c} ELSE asked[p]
      /\ Open' = Open \ {child}
  BY <1>1 DEF Write, Go, DTyped, Open
<1>3. \A d \in Caller : d # c => at[d] \notin {"writing", "reading"}
  BY <1>1 DEF Locked
<1>4. DTyped'
  BY <1>1 DEF DTyped, Write, Go
<1>5. Locked'
  BY <1>1, <1>2, <1>3 DEF Locked
<1>6. \A d \in Caller : at[d] \in {"output", "streaming"} \/ result[d] = "ok" => mine[d] # child /\ d # c
  BY <1>1 DEF Prompted, OpenUnasked, OwnProcess, KeepsNew, Apart, Returned
<1>7. Prompted'
  <2>0. OpenUnasked'
    BY <1>1, <1>2, <1>3, <1>6 DEF Prompted, OpenUnasked, DTyped
  <2>1. Apart'
    <3> SUFFICES ASSUME NEW d \in Caller, NEW e \in Caller, mine'[d] = mine'[e],
                           at'[d] = "storing", at'[e] = "storing"
                    PROVE  d = e
      BY DEF Apart
    <3> QED
      BY <1>1, <1>2, <1>3, <1>6 DEF Prompted, Apart
  <2>2. ASSUME NEW d \in Caller PROVE OwnProcess(d)'
    <3>1. CASE d = c
      BY <1>1, <1>2, <3>1 DEF OwnProcess, DTyped
    <3>2. CASE d # c
      <4>1. at'[d] = at[d] /\ mine'[d] = mine[d] /\ result'[d] = result[d] /\ at[d] # "reading"
        BY <1>1, <1>2, <1>3, <3>2
      <4>2. mine[d] \in Proc /\ mine[d] # child => asked'[mine[d]] = asked[mine[d]]
        BY <1>2
      <4> QED
        BY <1>1, <1>6, <4>1, <4>2 DEF Prompted, OwnProcess
    <3> QED
      BY <3>1, <3>2
  <2>3. ASSUME NEW d \in Caller PROVE KeepsNew(d)'
    BY <1>1, <1>2, <1>3, <1>6 DEF Prompted, KeepsNew, Apart, DTyped
  <2>4. ASSUME NEW d \in Caller PROVE Returned(d)'
    BY <1>1, <1>2, <1>3, <1>6 DEF Prompted, Returned, DTyped
  <2> QED
    BY <2>0, <2>1, <2>2, <2>3, <2>4 DEF Prompted
<1> QED
  BY <1>4, <1>5, <1>7

(* The holder finds no child that is used up: its input would be closed,   *)
(* so another chat would be reading, under the mutex.                      *)
LEMMA NotUsedUp == ASSUME DrInv, NEW c \in Caller, UsedUp(c) PROVE FALSE
<1>1. c \in guard /\ child # 0 /\ child \notin Open /\ at[c] = "writing"
  BY DEF UsedUp, DrInv, Locked, Open
<1>2. PICK d \in Caller : at[d] = "reading"
  BY <1>1 DEF DrInv, Locked
<1> QED
  BY <1>1, <1>2 DEF DrInv, Locked

(* Every step of a caller keeps the invariant.                             *)
LEMMA CallerStep ==
  ASSUME DrInv, NEW c \in Caller,
         \/ \E p \in Proc : ChatArgv(c, p) \/ StreamArgv(c, p)
         \/ ChatArgvFails(c) \/ ArgvOutput(c) \/ StreamOver(c) \/ ChatAsk(c) \/ ChatStep(c)
  PROVE  DrInv'
<1>1. ASSUME NEW p \in Proc, ChatArgv(c, p) \/ StreamArgv(c, p) \/ Start(c, p) PROVE DrInv'
  BY <1>1, SpawnStep DEF ChatArgv, StreamArgv, Start
<1>2. CASE ChatArgvFails(c) \/ ArgvOutput(c) \/ StartFails(c)
  <2>1. proc \in [Proc -> {"unborn", "running", "exited", "killed"}]
    BY DEF DrInv, DTyped
  <2> QED
    BY <1>2, <2>1, ReturnStep DEF ChatArgvFails, ArgvOutput, StartFails, procs
<1>3. CASE StreamOver(c)
  <2>1. /\ proc' \in [Proc -> {"unborn", "running", "exited", "killed"}]
        /\ \A p \in Proc : proc[p] # "unborn" => proc'[p] # "unborn"
    BY <1>3 DEF StreamOver, DrInv, DTyped
  <2> QED
    BY <1>3, <2>1, ReturnStep DEF StreamOver
<1>4. CASE ChatAsk(c) \/ ChatLock(c)
  BY <1>4, GoStep DEF ChatAsk, ChatLock
<1>5. CASE Relock(c)
  <2>1. proc \in [Proc -> {"unborn", "running", "exited", "killed"}]
    BY DEF DrInv, DTyped
  <2> QED
    BY <1>5, <2>1, GoStep, ReturnStep DEF Relock, procs
<1>6. CASE WriteFails(c) \/ Read(c)
  BY <1>6, ReleaseStep DEF WriteFails, Read
<1> QED
  BY <1>1, <1>2, <1>3, <1>4, <1>5, <1>6, StoreStep, WriteStep, NotUsedUp DEF ChatStep

(* stop(), the end of a program and what it does with its input change no  *)
(* chat's business but the child.                                          *)
LEMMA OtherStep ==
  ASSUME DrInv, Stop \/ (\E p \in Proc : Exit(p) \/ TurnsAway(p)) \/ UNCHANGED spvars
  PROVE  DrInv'
<1> USE DEF DrInv
<1>1. CASE Stop
  <2>1. /\ guard = {} /\ child' = 0
        /\ \A p \in Proc : proc'[p] = IF p = child THEN "killed" ELSE proc[p]
        /\ UNCHANGED <<guard, at, mine, asked, Open, result>>
    BY <1>1 DEF Stop, Open
  <2>2. DTyped'
    BY <1>1 DEF Stop, DTyped
  <2>3. Locked'
    BY <2>1 DEF Locked
  <2>4. \A c \in Caller : at[c] # "reading"
    BY <2>1 DEF Locked
  <2>5. Prompted'
    <3>0. OpenUnasked'
      BY <2>1, <2>4, NoProcess DEF Prompted, OpenUnasked, DTyped
    <3>1. Apart'
      <4> SUFFICES ASSUME NEW d \in Caller, NEW e \in Caller, mine'[d] = mine'[e],
                             at'[d] = "storing", at'[e] = "storing"
                      PROVE  d = e
        BY DEF Apart
      <4> QED
        BY <2>1, <2>4, NoProcess DEF Prompted, Apart
    <3>2. ASSUME NEW d \in Caller PROVE OwnProcess(d)'
      BY <2>1, <2>4, NoProcess DEF Prompted, OwnProcess, DTyped
    <3>3. ASSUME NEW d \in Caller PROVE KeepsNew(d)'
      BY <2>1, <2>4, NoProcess DEF Prompted, KeepsNew, Apart, DTyped
    <3>4. ASSUME NEW d \in Caller PROVE Returned(d)'
      BY <2>1, <2>4, NoProcess DEF Prompted, Returned, DTyped
    <3> QED
      BY <3>0, <3>1, <3>2, <3>3, <3>4 DEF Prompted
  <2> QED
    BY <2>2, <2>3, <2>5
<1>2. ASSUME NEW p \in Proc, Exit(p) PROVE DrInv'
  <2>1. /\ \A q \in Proc : proc'[q] = IF q = p THEN "exited" ELSE proc[q]
        /\ UNCHANGED <<child, guard, at, mine, asked, Open, result>>
    BY <1>2 DEF Exit, DTyped, Open
  <2>2. DTyped'
    BY <1>2 DEF Exit, DTyped
  <2>3. Locked'
    BY <2>1 DEF Locked, DTyped
  <2>4. Prompted'
    <3>0. OpenUnasked'
      BY <2>1 DEF Prompted, OpenUnasked, DTyped
    <3>1. Apart'
      <4> SUFFICES ASSUME NEW d \in Caller, NEW e \in Caller, mine'[d] = mine'[e],
                             at'[d] = "storing", at'[e] = "storing"
                      PROVE  d = e
        BY DEF Apart
      <4> QED
        BY <2>1 DEF Prompted, Apart
    <3>2. ASSUME NEW d \in Caller PROVE OwnProcess(d)'
      BY <2>1 DEF Prompted, OwnProcess, DTyped
    <3>3. ASSUME NEW d \in Caller PROVE KeepsNew(d)'
      BY <2>1 DEF Prompted, KeepsNew, Apart, DTyped
    <3>4. ASSUME NEW d \in Caller PROVE Returned(d)'
      BY <2>1 DEF Prompted, Returned, DTyped
    <3> QED
      BY <3>0, <3>1, <3>2, <3>3, <3>4 DEF Prompted
  <2> QED
    BY <2>2, <2>3, <2>4
<1>3. CASE UNCHANGED spvars
  <2>1. UNCHANGED <<child, guard, at, mine, procs, result, Open>>
    BY <1>3 DEF spvars, procs, Open
  <2>2. DTyped' /\ Locked'
    BY <2>1 DEF DTyped, Locked, procs
  <2>3. Prompted'
    BY <2>1 DEF procs, Prompted, OpenUnasked, OwnProcess, KeepsNew, Apart, Returned
  <2> QED
    BY <2>2, <2>3
<1>4. ASSUME NEW p \in Proc, TurnsAway(p) PROVE DrInv'
  <2>1. UNCHANGED <<child, guard, at, mine, proc, asked, input, result, Open>>
    BY <1>4 DEF TurnsAway, Open
  <2>2. pipe' \in [Proc -> {"read", "full", "shut"}]
    BY <1>4 DEF TurnsAway, DTyped
  <2>3. DTyped' /\ Locked'
    BY <2>1, <2>2 DEF DTyped, Locked
  <2>4. Prompted'
    BY <2>1 DEF Prompted, OpenUnasked, OwnProcess, KeepsNew, Apart, Returned
  <2> QED
    BY <2>3, <2>4
<1> QED
  BY <1>1, <1>2, <1>3, <1>4

(* The invariant holds from the start on.                                  *)
LEMMA DriverInvariant == SpSpec => []DrInv
<1>1. SpInit => DrInv
  BY NoProcess DEF SpInit, DrInv, DTyped, Locked, Prompted, OpenUnasked, OwnProcess, KeepsNew, Apart, Returned, Open
<1>2. DrInv /\ [SpNext]_spvars => DrInv'
  BY CallerStep, OtherStep DEF SpNext, SpStep
<1> QED
  BY <1>1, <1>2, PTL DEF SpSpec

(* A chat finds no child another has used, and its answer comes from a     *)
(* process that had its prompt and no other, for any callers and in        *)
(* either mode (subprocess.rs:577-660, 860-868).                           *)
THEOREM AnswersCorrect == SpSpec => []AnswerIsOwn
<1>1. DrInv => AnswerIsOwn
  BY DEF DrInv, Prompted, OpenUnasked, OwnProcess, KeepsNew, Apart, Returned, AnswerIsOwn
<1> QED
  BY <1>1, DriverInvariant, PTL


(* The mode does not change, and the counters stay within their bounds.    *)
LEMMA DriverRest ==
  SpSpec => [](/\ mode \in {"argv", "persistent"} /\ stopper \in {"idle", "done"}
               /\ trouble \in 0..MaxTrouble)
<1> DEFINE Rest == /\ mode \in {"argv", "persistent"} /\ stopper \in {"idle", "done"}
                   /\ trouble \in 0..MaxTrouble
<1>1. SpInit => Rest
  BY DriverAssumption DEF SpInit
<1>2. Rest /\ [SpNext]_spvars => Rest'
  <2> SUFFICES ASSUME Rest, [SpNext]_spvars PROVE Rest'
    OBVIOUS
  <2>1. CASE UNCHANGED spvars
    BY <2>1 DEF spvars
  <2>2. CASE SpNext
    <3>1. Fails => trouble' \in 0..MaxTrouble
      BY DriverAssumption DEF Fails
    <3>2. mode' = mode
      BY <2>2 DEF SpNext
    <3>3. stopper' = stopper \/ stopper' = "done"
      BY <2>2 DEF SpNext, SpStep, ChatStep, ChatArgv, ChatArgvFails, ArgvOutput, StreamArgv,
        StreamOver, ChatAsk, ChatLock, Start, StartFails, Store, Relock, Write, WriteFails,
        UsedUp, Read, Stop, Exit, TurnsAway
    <3>4. trouble' = trouble \/ Fails
      BY <2>2 DEF SpNext, SpStep, ChatStep, ChatArgv, ChatArgvFails, ArgvOutput, StreamArgv,
        StreamOver, ChatAsk, ChatLock, Start, StartFails, Store, Relock, Write, WriteFails,
        UsedUp, Read, Stop, Exit, TurnsAway
    <3> QED
      BY <3>1, <3>2, <3>3, <3>4
  <2> QED
    BY <2>1, <2>2
<1> QED
  BY <1>1, <1>2, PTL DEF SpSpec

(* The driver's mutex has at most one holder, and the children, their      *)
(* prompts and the chats keep their kinds, for any callers, processes and  *)
(* troubles (subprocess.rs:577-660, 860-868).                              *)
THEOREM DriverTypeCorrect == SpSpec => []DriverTypeOK
<1>1. DrInv /\ mode \in {"argv", "persistent"} /\ stopper \in {"idle", "done"}
      /\ trouble \in 0..MaxTrouble => DriverTypeOK
  <2> SUFFICES ASSUME DrInv, mode \in {"argv", "persistent"}, stopper \in {"idle", "done"},
                      trouble \in 0..MaxTrouble
               PROVE  DriverTypeOK
    OBVIOUS
  <2>1. Proc \cup {0} = 0..MaxProc
    BY DriverAssumption DEF Proc
  <2>2. Cardinality(guard) <= 1
    <3>1. CASE guard = {}
      BY <3>1, FS_EmptySet
    <3>2. ASSUME NEW c \in guard PROVE Cardinality(guard) <= 1
      <4>1. guard = {c}
        BY DEF DrInv, Locked
      <4> QED
        BY <4>1, FS_Singleton
    <3> QED
      BY <3>1, <3>2
  <2> QED
    BY <2>1, <2>2 DEF DrInv, DTyped, DriverTypeOK
<1> QED
  BY <1>1, DriverInvariant, DriverRest, PTL

-----------------------------------------------------------------------------
(* The command line of a remote agent, for any prompts.                    *)

(* The characters a command line is made of: any harmless one, the blank,  *)
(* the quote and the backslash.                                            *)
Char == {"a", " ", "'", "\\"}
Text == Seq(Char)
(* Where a shell stands in a line.                                         *)
ShellState == [words : Seq(Text), cur : Text, word : BOOLEAN, in : {"plain", "quotes", "escape"}]

(* The shell stays in its states, whatever character it reads.             *)
LEMMA ShellWordType ==
  ASSUME NEW st \in ShellState, NEW c \in Char
  PROVE  ShellWord(st, c) \in ShellState
<1>1. /\ Append(st.cur, c) \in Text /\ <<>> \in Text /\ Append(st.words, st.cur) \in Seq(Text)
      /\ TRUE \in BOOLEAN /\ FALSE \in BOOLEAN
  BY AppendProperties DEF ShellState, Text
<1> HIDE DEF Text
<1> QED BY <1>1 DEF ShellWord, ShellState

(* What the shell goes through while it reads a line.                      *)
LEMMA ReadingLoop ==
  ASSUME NEW st \in ShellState, NEW line \in Text
  PROVE  \E g : /\ Reading(st, line) = g[Len(line)] /\ g[0] = st
                /\ \A k \in 1..Len(line) : g[k] = ShellWord(g[k - 1], line[k])
                /\ \A k \in 0..Len(line) : g[k] \in ShellState
<1> DEFINE N == Len(line)
           F == [k \in 1..N |-> [x \in ShellState |-> ShellWord(x, line[k])]]
           rec(g) == [n \in 0..N |-> IF n = 0 THEN st ELSE ShellWord(g[n - 1], line[n])]
           upTo == CHOOSE g : g = rec(g)
<1>1. N \in Nat /\ \A k \in 1..N : line[k] \in Char
  BY DEF Text
<1> HIDE DEF N
<1>2. Steps(F, ShellState, N)
  <2>1. \A k \in 1..N : [x \in ShellState |-> ShellWord(x, line[k])] \in [ShellState -> ShellState]
    BY <1>1, ShellWordType
  <2> QED BY <1>1, <2>1 DEF Steps
<1>3. PICK g : Looping(g, ShellState, st, N, F)
  <2> HIDE DEF F
  <2> QED BY <1>2, LoopExists
<1>4. \A k \in 1..N : g[k] = ShellWord(g[k - 1], line[k])
  <2> TAKE k \in 1..N
  <2>1. k - 1 \in 0..N
    BY <1>1
  <2> QED BY <1>3, <2>1 DEF Looping
<1>5. g = rec(g)
  BY <1>1, <1>3, <1>4 DEF Looping
<1>6. upTo = rec(upTo)
  <2> HIDE DEF rec
  <2> QED BY <1>5
<1>7. Reading(st, line) = upTo[N]
  BY DEF Reading, N
<1> HIDE DEF upTo
<1>8. upTo[0] = st /\ \A k \in 1..N : upTo[k] = ShellWord(upTo[k - 1], line[k])
  BY <1>1, <1>6
<1>9. \A k \in 0..N : upTo[k] \in ShellState
  <2>1. ASSUME NEW k \in 1..N, upTo[k - 1] \in ShellState PROVE upTo[k] \in ShellState
    BY <1>1, <1>8, <2>1, ShellWordType
  <2> QED BY <1>1, <1>8, <2>1, Iterated
<1> QED BY <1>7, <1>8, <1>9 DEF N

(* g is what a shell goes through from st on, over the first n characters. *)
Reads(g, st, line, n) == g[0] = st /\ \A k \in 1..n : g[k] = ShellWord(g[k - 1], line[k])

(* A shell that reads the same line ends the same.                         *)
LEMMA ReadsSame ==
  ASSUME NEW st, NEW line, NEW n \in Nat, NEW g, NEW h, Reads(g, st, line, n), Reads(h, st, line, n)
  PROVE  g[n] = h[n]
<1> USE DEF Reads
<1> DEFINE T == {k \in 0..n : g[k] # h[k]}
<1>1. SUFFICES ASSUME T # {} PROVE FALSE
  OBVIOUS
<1>2. T \in SUBSET Nat
  OBVIOUS
<1>3. PICK m \in T : \A k \in T : m <= k
  <2> HIDE DEF T
  <2> QED BY <1>1, <1>2, Least
<1>4. m \in 1..n /\ m - 1 \in 0..n /\ ~(m <= m - 1)
  BY <1>3
<1>5. g[m - 1] = h[m - 1]
  <2>1. m - 1 \notin T
    <3> HIDE DEF T
    <3> QED BY <1>3, <1>4
  <2> QED BY <1>4, <2>1
<1> QED BY <1>3, <1>4, <1>5

(* Whatever the line, the shell ends in one of its states.                 *)
LEMMA ReadingType ==
  ASSUME NEW st \in ShellState, NEW line \in Text
  PROVE  Reading(st, line) \in ShellState
<1>1. Len(line) \in 0..Len(line)
  BY DEF Text
<1> QED BY <1>1, ReadingLoop

(* Nothing read, nothing changed.                                          *)
LEMMA ReadingNothing ==
  ASSUME NEW st \in ShellState
  PROVE  Reading(st, <<>>) = st
<1>1. <<>> \in Text /\ Len(<<>>) = 0
  BY DEF Text
<1> QED BY <1>1, ReadingLoop

(* One more character.                                                     *)
LEMMA ReadingAppend ==
  ASSUME NEW st \in ShellState, NEW line \in Text, NEW c \in Char
  PROVE  Reading(st, Append(line, c)) = ShellWord(Reading(st, line), c)
<1> DEFINE more == Append(line, c)
           n == Len(line)
<1>1. /\ more \in Text /\ Len(more) = n + 1 /\ n \in Nat /\ more[n + 1] = c
      /\ \A k \in 1..n : more[k] = line[k]
  BY AppendProperties DEF Text
<1> HIDE DEF more
<1>2. PICK h : /\ Reading(st, more) = h[Len(more)] /\ h[0] = st
               /\ \A k \in 1..Len(more) : h[k] = ShellWord(h[k - 1], more[k])
               /\ \A k \in 0..Len(more) : h[k] \in ShellState
  BY <1>1, ReadingLoop
<1>3. PICK g : /\ Reading(st, line) = g[Len(line)] /\ g[0] = st
               /\ \A k \in 1..Len(line) : g[k] = ShellWord(g[k - 1], line[k])
               /\ \A k \in 0..Len(line) : g[k] \in ShellState
  BY ReadingLoop
<1>4. Reads(g, st, line, n)
  BY <1>3 DEF Reads
<1>5. Reads(h, st, line, n)
  <2>1. ASSUME NEW k \in 1..n PROVE h[k] = ShellWord(h[k - 1], line[k])
    <3>1. k \in 1..Len(more) /\ more[k] = line[k]
      BY <1>1
    <3> QED BY <1>2, <3>1
  <2> QED BY <1>2, <2>1 DEF Reads
<1>6. h[n] = g[n]
  <2> HIDE DEF n
  <2> QED BY <1>1, <1>4, <1>5, ReadsSame
<1>7. ASSUME NEW k \in 1..Len(more), k = n + 1 PROVE h[k] = ShellWord(h[n], c)
  <2>1. h[k] = ShellWord(h[k - 1], more[k])
    BY <1>2, Zenon
  <2>2. k - 1 = n
    BY <1>1, <1>7
  <2> QED BY <1>1, <1>7, <2>1, <2>2
<1>8. n + 1 \in 1..Len(more)
  BY <1>1
<1> QED BY <1>1, <1>2, <1>3, <1>6, <1>7, <1>8 DEF more

(* One line after another.                                                 *)
LEMMA ReadingConcat ==
  ASSUME NEW st \in ShellState, NEW s \in Text, NEW t \in Text
  PROVE  s \o t \in Text /\ Reading(st, s \o t) = Reading(Reading(st, s), t)
<1> DEFINE T == {u \in Text : Reading(st, s \o u) # Reading(Reading(st, s), u)}
<1>1. \A u \in Text : s \o u \in Text
  BY ConcatProperties DEF Text
<1>2. T = {}
  <2>1. SUFFICES ASSUME T # {} PROVE FALSE
    OBVIOUS
  <2>2. T \in SUBSET Seq(Char)
    BY DEF Text
  <2>3. <<>> \in T \/ \E u \in Seq(Char), c \in Char : u \notin T /\ Append(u, c) \in T
    <3> HIDE DEF T
    <3> QED BY <2>1, <2>2, Shortest
  <2>4. <<>> \notin T
    <3>1. s \o <<>> = s
      BY ConcatEmptySeq DEF Text
    <3>2. Reading(Reading(st, s), <<>>) = Reading(st, s)
      BY ReadingType, ReadingNothing
    <3> QED BY <3>1, <3>2
  <2>5. PICK u \in Seq(Char), c \in Char : u \notin T /\ Append(u, c) \in T
    <3> HIDE DEF T
    <3> QED BY <2>3, <2>4
  <2>6. Append(u, c) \in Text /\ u \in Text /\ s \o u \in Text /\ Append(s \o u, c) = s \o Append(u, c)
    <3>1. Append(u, c) \in Seq(Char) /\ u \in Seq(Char) /\ s \in Seq(Char)
      BY AppendProperties DEF Text
    <3>2. Append(s \o u, c) = s \o Append(u, c)
      BY <3>1
    <3> QED BY <1>1, <3>1, <3>2 DEF Text
  <2>7. Reading(st, s \o u) = Reading(Reading(st, s), u)
    BY <2>5, <2>6
  <2>8. Reading(st, Append(s \o u, c)) = ShellWord(Reading(st, s \o u), c)
    BY <2>6, ReadingAppend
  <2>9. Reading(Reading(st, s), Append(u, c)) = ShellWord(Reading(Reading(st, s), u), c)
    BY <2>6, ReadingAppend, ReadingType
  <2> QED BY <2>5, <2>6, <2>7, <2>8, <2>9
<1> QED BY <1>1, <1>2

(* A state of the shell is its four parts.                                 *)
LEMMA SameState ==
  ASSUME NEW x \in ShellState, NEW y \in ShellState, x.words = y.words, x.cur = y.cur,
         x.word = y.word, x.in = y.in
  PROVE  x = y
BY DEF ShellState

(* A line of one character is that character.                              *)
LEMMA ReadingOne ==
  ASSUME NEW st \in ShellState, NEW c \in Char
  PROVE  <<c>> \in Text /\ Reading(st, <<c>>) = ShellWord(st, c)
<1>1. <<>> \in Text /\ <<c>> \in Text /\ Append(<<>>, c) = <<c>>
  BY DEF Text
<1>2. Reading(st, Append(<<>>, c)) = ShellWord(Reading(st, <<>>), c)
  BY <1>1, ReadingAppend
<1> QED BY <1>1, <1>2, ReadingNothing

(* A character as shell_quote writes it within quotes.                     *)
Escape(c) == IF c = "'" THEN <<"'", "\\", "'", "'">> ELSE <<c>>
(* Each character as shell_quote writes it.                                *)
Escapes(s) == [i \in DOMAIN s |-> IF s[i] = "'" THEN <<"'", "\\", "'", "'">> ELSE <<s[i]>>]

(* Within quotes the escape of a character is read as that character.      *)
LEMMA EscapeRead ==
  ASSUME NEW st \in ShellState, st.in = "quotes", st.word, NEW c \in Char
  PROVE  /\ Escape(c) \in Text
         /\ Reading(st, Escape(c)) = [st EXCEPT !.cur = Append(st.cur, c)]
<1>1. CASE c # "'"
  <2>1. ShellWord(st, c) = [st EXCEPT !.cur = Append(st.cur, c)]
    BY <1>1 DEF ShellWord
  <2> QED BY <1>1, <2>1, ReadingOne DEF Escape
<1>2. CASE c = "'"
  <2> DEFINE q == "'"
             b == "\\"
             s1 == ShellWord(st, q)
             s2 == ShellWord(s1, b)
             s3 == ShellWord(s2, q)
             s4 == ShellWord(s3, q)
  <2>1. q \in Char /\ b \in Char
    BY DEF Char
  <2>2. s1 \in ShellState /\ s2 \in ShellState /\ s3 \in ShellState /\ s4 \in ShellState
    <3> HIDE DEF q, b
    <3> QED BY <2>1, ShellWordType
  <2>3. /\ s1.words = st.words /\ s1.cur = st.cur /\ s1.word = st.word /\ s1.in = "plain"
    BY DEF ShellWord, ShellState
  <2> HIDE DEF s1
  <2>4. /\ s2.words = st.words /\ s2.cur = st.cur /\ s2.word = TRUE /\ s2.in = "escape"
    BY <2>2, <2>3 DEF ShellWord, ShellState
  <2> HIDE DEF s2
  <2>5. /\ s3.words = st.words /\ s3.cur = Append(st.cur, q) /\ s3.word = TRUE /\ s3.in = "plain"
    BY <2>2, <2>4 DEF ShellWord, ShellState
  <2> HIDE DEF s3
  <2>6. /\ s4.words = st.words /\ s4.cur = Append(st.cur, q) /\ s4.word = TRUE /\ s4.in = "quotes"
    BY <2>2, <2>5 DEF ShellWord, ShellState
  <2> HIDE DEF s4
  <2>7. /\ <<q>> \in Text /\ <<b>> \in Text /\ <<q>> \o <<b>> \in Text /\ (<<q>> \o <<b>>) \o <<q>> \in Text
        /\ ((<<q>> \o <<b>>) \o <<q>>) \o <<q>> \in Text
    BY <2>1, ConcatProperties DEF Text
  <2>8. Escape(c) = ((<<q>> \o <<b>>) \o <<q>>) \o <<q>>
    BY <1>2 DEF Escape
  <2> HIDE DEF q, b
  <2>9. Reading(st, <<q>>) = s1 /\ Reading(s1, <<b>>) = s2 /\ Reading(s2, <<q>>) = s3 /\ Reading(s3, <<q>>) = s4
    BY <2>1, <2>2, ReadingOne DEF s1, s2, s3, s4
  <2>10. Reading(st, <<q>> \o <<b>>) = s2
    BY <2>7, <2>9, ReadingConcat
  <2>11. Reading(st, (<<q>> \o <<b>>) \o <<q>>) = s3
    BY <2>7, <2>9, <2>10, ReadingConcat
  <2>12. Reading(st, ((<<q>> \o <<b>>) \o <<q>>) \o <<q>>) = s4
    BY <2>7, <2>9, <2>11, ReadingConcat
  <2>13. [st EXCEPT !.cur = Append(st.cur, c)] = s4
    <3>1. c = q /\ Append(st.cur, c) \in Text
      BY <1>2, AppendProperties DEF ShellState, Text, q
    <3> HIDE DEF Text
    <3>2. [st EXCEPT !.cur = Append(st.cur, c)] \in ShellState
      BY <3>1 DEF ShellState
    <3>3. [st EXCEPT !.cur = Append(st.cur, c)].words = st.words /\ [st EXCEPT !.cur = Append(st.cur, c)].in = "quotes"
          /\ [st EXCEPT !.cur = Append(st.cur, c)].cur = Append(st.cur, c)
          /\ [st EXCEPT !.cur = Append(st.cur, c)].word = TRUE
      BY DEF ShellState
    <3> QED BY <2>2, <2>6, <3>1, <3>2, <3>3, SameState
  <2> QED BY <2>7, <2>8, <2>12, <2>13
<1> QED BY <1>1, <1>2

(* The escape of a character is text.                                      *)
LEMMA EscapeType ==
  ASSUME NEW c \in Char
  PROVE  Escape(c) \in Text
<1>1. \A x, y \in Char : <<x, y, x, x>> \in Text /\ <<x>> \in Text
  BY DEF Text
<1>2. "'" \in Char /\ "\\" \in Char
  BY DEF Char
<1> HIDE DEF Char, Text
<1> QED BY <1>1, <1>2 DEF Escape

(* So are those of a text, put together.                                   *)
LEMMA EscapesType ==
  ASSUME NEW s \in Text
  PROVE  Escapes(s) \in Seq(Text) /\ FlattenSeq(Escapes(s)) \in Text
<1>1. \A c \in Char : Escape(c) \in Text
  BY EscapeType
<1>2. /\ Escapes(s) = [i \in 1..Len(s) |-> Escape(s[i])] /\ Len(s) \in Nat
      /\ \A i \in 1..Len(s) : s[i] \in Char
  BY DEF Escapes, Escape, Text
<1>3. Escapes(s) \in Seq(Text)
  BY <1>1, <1>2
<1> QED BY <1>3, FlattenKeeps DEF Text

(* A character more, an escape more.                                       *)
LEMMA EscapesAppend ==
  ASSUME NEW s \in Text, NEW c \in Char
  PROVE  FlattenSeq(Escapes(Append(s, c))) = FlattenSeq(Escapes(s)) \o Escape(c)
<1> DEFINE n == Len(s)
           more == Append(s, c)
<1>1. /\ n \in Nat /\ DOMAIN s = 1..n /\ DOMAIN more = 1..(n + 1) /\ more[n + 1] = c
      /\ \A i \in 1..n : more[i] = s[i]
  BY AppendProperties DEF Text
<1> HIDE DEF more
<1>2. /\ Escapes(s) = [i \in 1..n |-> Escape(s[i])]
      /\ Escapes(more) = [i \in 1..(n + 1) |-> Escape(more[i])]
  BY <1>1 DEF Escapes, Escape
<1>3. Escapes(s) \in Seq(Text) /\ Len(Escapes(s)) = n /\ Escape(c) \in Text
  <2>1. Escapes(s) \in Seq(Text) /\ Escape(c) \in Text
    BY EscapesType, EscapeType
  <2> QED BY <1>1, <1>2, <2>1
<1>4. Escapes(more) = Append(Escapes(s), Escape(c))
  <2> DEFINE e == Escapes(s)
             x == Escape(c)
  <2>1. /\ DOMAIN Append(e, x) = 1..(n + 1) /\ Append(e, x)[n + 1] = x
        /\ \A i \in 1..n : Append(e, x)[i] = e[i]
        /\ Append(e, x) = [i \in 1..(n + 1) |-> Append(e, x)[i]]
    <3> HIDE DEF e, x
    <3>1. e \in Seq(Text) /\ x \in Text /\ Len(e) = n
      BY <1>3 DEF e, x
    <3>2. /\ DOMAIN Append(e, x) = 1..(Len(e) + 1)
          /\ Append(e, x)[Len(e) + 1] = x
          /\ \A i \in 1..Len(e) : Append(e, x)[i] = e[i]
          /\ Append(e, x) = [i \in 1..(Len(e) + 1) |-> Append(e, x)[i]]
      BY <3>1, AppendShape
    <3> QED BY <3>1, <3>2
  <2>2. \A i \in 1..(n + 1) : Append(e, x)[i] = Escape(more[i])
    <3> TAKE i \in 1..(n + 1)
    <3>1. CASE i = n + 1
      BY <1>1, <2>1, <3>1
    <3>2. CASE i # n + 1
      <4>1. i \in 1..n
        BY <1>1, <3>2
      <4>2. e[i] = Escape(s[i])
        BY <1>2, <4>1
      <4> QED BY <1>1, <2>1, <4>1, <4>2
    <3> QED BY <3>1, <3>2
  <2> HIDE DEF e, x
  <2> QED BY <1>2, <2>1, <2>2 DEF e, x
<1> QED BY <1>3, <1>4, FlattenAppend DEF more, Text

(* Append at the end of a concatenation.                                   *)
LEMMA TextAppend ==
  \A w, u \in Seq(Char), c \in Char : Append(w \o u, c) = w \o Append(u, c)
<1> TAKE w, u \in Seq(Char), c \in Char
<1> QED OBVIOUS

(* Within quotes an escaped text is read as itself.                        *)
LEMMA QuotedRead ==
  ASSUME NEW st \in ShellState, st.in = "quotes", st.word, NEW s \in Text
  PROVE  LET r == Reading(st, FlattenSeq(Escapes(s))) IN
         /\ r \in ShellState /\ r.words = st.words /\ r.cur = st.cur \o s
         /\ r.word /\ r.in = "quotes"
<1> DEFINE R(u) == Reading(st, FlattenSeq(Escapes(u)))
           Good(u) == /\ R(u).words = st.words /\ R(u).cur = st.cur \o u
                      /\ R(u).word /\ R(u).in = "quotes"
           T == {u \in Text : ~Good(u)}
<1>1. \A u \in Text : R(u) \in ShellState
  BY EscapesType, ReadingType
<1>2. T = {}
  <2>1. SUFFICES ASSUME T # {} PROVE FALSE
    OBVIOUS
  <2>2. T \in SUBSET Seq(Char)
    BY DEF Text
  <2>3. <<>> \in T \/ \E u \in Seq(Char), c \in Char : u \notin T /\ Append(u, c) \in T
    <3> HIDE DEF T
    <3> QED BY <2>1, <2>2, Shortest
  <2>4. Good(<<>>)
    <3>1. Escapes(<<>>) = <<>>
      BY DEF Escapes
    <3>2. FlattenSeq(Escapes(<<>>)) = <<>>
      BY <3>1 DEF FlattenSeq
    <3>3. R(<<>>) = st
      BY <3>2, ReadingNothing
    <3>4. st.cur \o <<>> = st.cur
      BY ConcatEmptySeq DEF ShellState, Text
    <3> HIDE DEF R
    <3> QED BY <3>3, <3>4
  <2>5. PICK u \in Text, c \in Char : Good(u) /\ ~Good(Append(u, c))
    <3> HIDE DEF Good
    <3> QED BY <2>3, <2>4 DEF Text
  <2>6. R(u) \in ShellState /\ R(u).in = "quotes" /\ R(u).word
    BY <1>1, <2>5
  <2>7. R(Append(u, c)) = Reading(R(u), Escape(c))
    <3>1. FlattenSeq(Escapes(u)) \in Text /\ Escape(c) \in Text
      BY <2>6, EscapesType, EscapeRead
    <3>2. FlattenSeq(Escapes(Append(u, c))) = FlattenSeq(Escapes(u)) \o Escape(c)
      BY EscapesAppend
    <3>3. Reading(st, FlattenSeq(Escapes(u)) \o Escape(c)) = Reading(Reading(st, FlattenSeq(Escapes(u))), Escape(c))
      BY <3>1, ReadingConcat
    <3> QED BY <3>2, <3>3
  <2>8. Reading(R(u), Escape(c)) = [R(u) EXCEPT !.cur = Append(R(u).cur, c)]
    BY <2>6, EscapeRead
  <2> DEFINE r == R(u)
             x == R(Append(u, c))
  <2>9. x = [r EXCEPT !.cur = Append(r.cur, c)] /\ r \in ShellState
    BY <2>6, <2>7, <2>8
  <2>10. r.words = st.words /\ r.cur = st.cur \o u /\ r.word /\ r.in = "quotes"
    BY <2>5
  <2>11. Append(st.cur \o u, c) = st.cur \o Append(u, c)
    <3>1. st.cur \in Seq(Char) /\ u \in Seq(Char)
      BY DEF ShellState, Text
    <3> QED BY <3>1, TextAppend
  <2> HIDE DEF R
  <2>12. ~(x.words = st.words /\ x.cur = st.cur \o Append(u, c) /\ x.word /\ x.in = "quotes")
    BY <2>5
  <2> HIDE DEF x, r, Good
  <2>13. x.words = r.words /\ x.cur = Append(r.cur, c) /\ x.word = r.word /\ x.in = r.in
    BY <2>9 DEF ShellState
  <2> QED BY <2>10, <2>11, <2>12, <2>13
<1>3. Good(s)
  <2> HIDE DEF Good
  <2> QED BY <1>2
<1> QED BY <1>1, <1>3

(* A text of safe characters is read as itself outside quotes.             *)
LEMMA SafeRead ==
  ASSUME NEW st \in ShellState, st.in = "plain", NEW s \in Text, Range(s) \subseteq {"a"}
  PROVE  LET r == Reading(st, s) IN
         /\ r \in ShellState /\ r.words = st.words /\ r.cur = st.cur \o s
         /\ s # <<>> => r.word
         /\ r.in = "plain"
<1> DEFINE R(u) == Reading(st, u)
           Good(u) == /\ R(u).words = st.words /\ R(u).cur = st.cur \o u
                      /\ u # <<>> => R(u).word
                      /\ R(u).in = "plain"
           T == {u \in Text : Range(u) \subseteq {"a"} /\ ~Good(u)}
<1>1. \A u \in Text : R(u) \in ShellState
  BY ReadingType
<1>2. T = {}
  <2>1. SUFFICES ASSUME T # {} PROVE FALSE
    OBVIOUS
  <2>2. T \in SUBSET Seq(Char)
    BY DEF Text
  <2>3. <<>> \in T \/ \E u \in Seq(Char), c \in Char : u \notin T /\ Append(u, c) \in T
    <3> HIDE DEF T
    <3> QED BY <2>1, <2>2, Shortest
  <2>4. Good(<<>>)
    <3>1. R(<<>>) = st
      BY ReadingNothing
    <3>2. st.cur \o <<>> = st.cur
      BY ConcatEmptySeq DEF ShellState, Text
    <3> HIDE DEF R
    <3> QED BY <3>1, <3>2
  <2>5. PICK u \in Text, c \in Char : u \notin T /\ Append(u, c) \in T
    <3> HIDE DEF T
    <3>1. <<>> \notin T
      BY <2>4 DEF T
    <3> QED BY <2>3, <3>1 DEF Text
  <2>6. Range(Append(u, c)) \subseteq {"a"} /\ ~Good(Append(u, c))
    <3> HIDE DEF Good
    <3> QED BY <2>5
  <2>7. c = "a" /\ Range(u) \subseteq {"a"}
    <3>1. /\ Len(u) \in Nat /\ DOMAIN u = 1..Len(u) /\ DOMAIN Append(u, c) = 1..(Len(u) + 1)
          /\ Append(u, c)[Len(u) + 1] = c /\ \A i \in 1..Len(u) : Append(u, c)[i] = u[i]
      BY AppendProperties DEF Text
    <3>2. c \in Range(Append(u, c)) /\ Range(u) \subseteq Range(Append(u, c))
      BY <3>1 DEF Range
    <3> QED BY <2>6, <3>2
  <2>8. Good(u)
    <3> HIDE DEF Good
    <3> QED BY <2>5, <2>7
  <2> DEFINE r == R(u)
             x == R(Append(u, c))
  <2>9. x = ShellWord(r, c) /\ r \in ShellState /\ c \in Char
    BY <1>1, ReadingAppend
  <2>10. r.words = st.words /\ r.cur = st.cur \o u /\ r.in = "plain"
    BY <2>8
  <2>11. Append(st.cur \o u, c) = st.cur \o Append(u, c)
    <3>1. st.cur \in Seq(Char) /\ u \in Seq(Char)
      BY DEF ShellState, Text
    <3> QED BY <3>1, TextAppend
  <2>12. ~(x.words = st.words /\ x.cur = st.cur \o Append(u, c) /\ x.word /\ x.in = "plain")
    BY <2>6
  <2> HIDE DEF x, r, Good, R
  <2>13. x.words = r.words /\ x.cur = Append(r.cur, c) /\ x.word = TRUE /\ x.in = "plain"
    BY <2>7, <2>9, <2>10 DEF ShellState, ShellWord
  <2> QED BY <2>10, <2>11, <2>12, <2>13
<1>3. Good(s)
  <2> HIDE DEF Good
  <2> QED BY <1>2
<1> QED BY <1>1, <1>3

(* What needs no quoting, by place and as a set.                           *)
LEMMA RangeSafe ==
  ASSUME NEW s \in Text
  PROVE  (\A i \in DOMAIN s : s[i] = "a") => Range(s) \subseteq {"a"}
BY DEF Range

(* Whatever the text, shell_quote's form of it is read as one word.        *)
LEMMA QuoteRead ==
  ASSUME NEW st \in ShellState, st.in = "plain", NEW s \in Text
  PROVE  LET r == Reading(st, ShellQuote(s)) IN
         /\ ShellQuote(s) \in Text
         /\ r \in ShellState /\ r.words = st.words /\ r.cur = st.cur \o s /\ r.word /\ r.in = "plain"
<1> DEFINE q == "'"
           s1 == ShellWord(st, q)
<1>1. q \in Char /\ s1 \in ShellState
  BY ShellWordType DEF Char
<1>2. <<q>> \in Text /\ Reading(st, <<q>>) = s1
  <2> HIDE DEF q
  <2> QED BY <1>1, ReadingOne
<1>3. s1.words = st.words /\ s1.cur = st.cur /\ s1.word /\ s1.in = "quotes"
  BY DEF ShellWord, ShellState
<1>4. ASSUME NEW x \in ShellState, x.in = "quotes", x.word
      PROVE  LET y == ShellWord(x, q) IN
             /\ y \in ShellState /\ y.words = x.words /\ y.cur = x.cur /\ y.word /\ y.in = "plain"
  BY <1>1, <1>4, ShellWordType DEF ShellWord, ShellState
<1>5. CASE s = <<>>
  <2>1. ShellQuote(s) = <<q>> \o <<q>>
    BY <1>5 DEF ShellQuote
  <2> DEFINE y == ShellWord(s1, q)
  <2> HIDE DEF q, s1
  <2>2. y \in ShellState /\ y.words = s1.words /\ y.cur = s1.cur /\ y.word /\ y.in = "plain"
    BY <1>1, <1>3, <1>4
  <2>3. Reading(st, <<q>> \o <<q>>) = y /\ <<q>> \o <<q>> \in Text
    BY <1>1, <1>2, ReadingOne, ReadingConcat
  <2>4. st.cur \o s = st.cur
    BY <1>5, ConcatEmptySeq DEF ShellState, Text
  <2> HIDE DEF y
  <2> QED BY <1>3, <2>1, <2>2, <2>3, <2>4
<1>6. CASE s # <<>> /\ Range(s) \subseteq {"a"}
  <2>1. ShellQuote(s) = s
    BY <1>6 DEF ShellQuote
  <2> QED BY <1>6, <2>1, SafeRead
<1>7. CASE s # <<>> /\ ~(Range(s) \subseteq {"a"})
  <2> DEFINE e == FlattenSeq(Escapes(s))
             x == Reading(s1, e)
             y == ShellWord(x, q)
  <2>1. ShellQuote(s) = (<<q>> \o e) \o <<q>>
    BY <1>7 DEF ShellQuote, Escapes
  <2>2. e \in Text
    BY EscapesType
  <2> HIDE DEF q, s1
  <2>3. x \in ShellState /\ x.words = s1.words /\ x.cur = s1.cur \o s /\ x.word /\ x.in = "quotes"
    BY <1>1, <1>3, QuotedRead
  <2> HIDE DEF e
  <2>4. Reading(st, <<q>> \o e) = x /\ <<q>> \o e \in Text
    BY <1>1, <1>2, <2>2, ReadingConcat
  <2> HIDE DEF x
  <2>5. Reading(x, <<q>>) = y
    BY <1>1, <2>3, ReadingOne
  <2>6. Reading(st, (<<q>> \o e) \o <<q>>) = y /\ (<<q>> \o e) \o <<q>> \in Text
    BY <1>2, <2>4, <2>5, ReadingConcat
  <2>7. y \in ShellState /\ y.words = x.words /\ y.cur = x.cur /\ y.word /\ y.in = "plain"
    BY <1>4, <2>3
  <2> HIDE DEF y
  <2> QED BY <1>3, <2>1, <2>3, <2>6, <2>7
<1> QED BY <1>5, <1>6, <1>7

(* Words joined by blanks, one after another.                              *)
Spaced(words) == [i \in DOMAIN words |-> IF i = 1 THEN words[i] ELSE <<" ">> \o words[i]]

(* A blank is text.                                                        *)
LEMMA BlankText == <<" ">> \in Text
<1>1. \A x \in Char : <<x>> \in Text
  BY DEF Text
<1>2. " " \in Char
  BY DEF Char
<1> QED BY <1>1, <1>2

(* Words with blanks between them are text.                                *)
LEMMA SpacedType ==
  ASSUME NEW words \in Seq(Text)
  PROVE  Spaced(words) \in Seq(Text) /\ Len(Spaced(words)) = Len(words) /\ Joined(words) \in Text
<1>1. <<" ">> \in Text
  BY BlankText
<1>2. Len(words) \in Nat /\ DOMAIN words = 1..Len(words) /\ \A i \in DOMAIN words : words[i] \in Text
  OBVIOUS
<1>3. \A i \in DOMAIN words : <<" ">> \o words[i] \in Text
  BY <1>1, <1>2, ConcatProperties DEF Text
<1>4. Spaced(words) \in [1..Len(words) -> Text]
  BY <1>2, <1>3 DEF Spaced
<1>5. Spaced(words) \in Seq(Text) /\ Len(Spaced(words)) = Len(words)
  BY <1>2, <1>4
<1>6. Joined(words) = FlattenSeq(Spaced(words))
  BY DEF Joined, Spaced
<1> QED BY <1>5, <1>6, FlattenKeeps DEF Text

(* One word joined is that word.                                           *)
LEMMA JoinedOne ==
  ASSUME NEW w \in Text
  PROVE  Joined(<<w>>) = w
<1>1. Spaced(<<w>>) = <<w>>
  BY DEF Spaced
<1>2. Joined(<<w>>) = FlattenSeq(<<w>>)
  BY <1>1 DEF Joined, Spaced
<1>3. <<w>> = Append(<<>>, w) /\ <<>> \in Seq(Text)
  OBVIOUS
<1>4. FlattenSeq(Append(<<>>, w)) = FlattenSeq(<<>>) \o w
  BY <1>3, FlattenAppend DEF Text
<1>5. FlattenSeq(<<>>) = <<>>
  BY DEF FlattenSeq
<1> QED BY <1>2, <1>3, <1>4, <1>5, ConcatEmptySeq DEF Text

(* A word more comes after a blank.                                        *)
LEMMA JoinedAppend ==
  ASSUME NEW words \in Seq(Text), words # <<>>, NEW w \in Text
  PROVE  Joined(Append(words, w)) = Joined(words) \o (<<" ">> \o w)
<1> DEFINE n == Len(words)
           more == Append(words, w)
           x == <<" ">> \o w
           e == Spaced(words)
<1>1. /\ more \in Seq(Text) /\ n \in Nat /\ DOMAIN words = 1..n /\ DOMAIN more = 1..(n + 1)
      /\ more[n + 1] = w /\ \A i \in 1..n : more[i] = words[i]
  BY AppendShape
<1>2. n # 0
  BY <1>1
<1>3. x \in Text /\ e \in Seq(Text) /\ Len(e) = n
  <2>1. <<" ">> \in Text
    BY BlankText
  <2> QED BY <2>1, ConcatProperties, SpacedType DEF Text
<1>4. /\ DOMAIN Append(e, x) = 1..(Len(e) + 1)
      /\ Append(e, x)[Len(e) + 1] = x
      /\ \A i \in 1..Len(e) : Append(e, x)[i] = e[i]
      /\ Append(e, x) = [i \in 1..(Len(e) + 1) |-> Append(e, x)[i]]
  <2> HIDE DEF e, x
  <2> QED BY <1>3, AppendShape
<1> HIDE DEF more
<1>5. Spaced(more) = [i \in 1..(n + 1) |-> IF i = 1 THEN more[i] ELSE <<" ">> \o more[i]]
  BY <1>1 DEF Spaced
<1>6. \A i \in 1..(n + 1) : Append(e, x)[i] = IF i = 1 THEN more[i] ELSE <<" ">> \o more[i]
  <2> TAKE i \in 1..(n + 1)
  <2>1. CASE i = n + 1
    <3>1. Append(e, x)[i] = x
      <4> HIDE DEF e, x, n
      <4> QED BY <1>3, <1>4, <2>1
    <3>2. i # 1
      BY <1>1, <1>2, <2>1
    <3> QED BY <1>1, <2>1, <3>1, <3>2
  <2>2. CASE i # n + 1
    <3>1. i \in 1..n
      BY <1>1, <2>2
    <3>2. e[i] = IF i = 1 THEN words[i] ELSE <<" ">> \o words[i]
      BY <1>1, <3>1 DEF Spaced
    <3>3. Append(e, x)[i] = e[i]
      BY <1>3, <1>4, <3>1
    <3> QED BY <1>1, <3>1, <3>2, <3>3
  <2> QED BY <2>1, <2>2
<1>7. Spaced(more) = Append(e, x)
  <2> HIDE DEF e, x, n
  <2>1. Append(e, x) = [i \in 1..(n + 1) |-> Append(e, x)[i]]
    BY <1>3, <1>4
  <2> QED BY <1>5, <1>6, <2>1
<1>8. FlattenSeq(Append(e, x)) = FlattenSeq(e) \o x
  <2> HIDE DEF e, x
  <2> QED BY <1>3, FlattenAppend DEF Text
<1> QED BY <1>7, <1>8 DEF Joined, Spaced, more

(* A line of quoted words, read so far: the words before the last, and the *)
(* last, which is not yet finished.                                        *)
Word(r, ws, w) == r \in ShellState /\ r.words = ws /\ r.cur = w /\ r.word /\ r.in = "plain"

(* The shell starts in one of its states.                                  *)
LEMMA UnreadState == Unread \in ShellState
<1>1. /\ <<>> \in Seq(Text) /\ <<>> \in Text /\ FALSE \in BOOLEAN
      /\ "plain" \in {"plain", "quotes", "escape"}
  BY DEF Text
<1> HIDE DEF Text
<1> QED BY <1>1 DEF Unread, ShellState

(* A quoted word at the start of the line is the word under way.           *)
LEMMA FirstWord ==
  ASSUME NEW s \in Text
  PROVE  Word(Reading(Unread, ShellQuote(s)), <<>>, s)
<1>1. Unread.in = "plain" /\ Unread.words = <<>> /\ Unread.cur = <<>>
  BY DEF Unread
<1>2. <<>> \o s = s
  BY ConcatEmptySeq DEF Text
<1> HIDE DEF Unread
<1> QED BY <1>1, <1>2, UnreadState, QuoteRead DEF Word

(* A quoted word after a blank ends the one before and is under way.       *)
LEMMA NextWord ==
  ASSUME NEW r, NEW ws, NEW w, Word(r, ws, w), NEW s \in Text
  PROVE  Word(Reading(r, <<" ">> \o ShellQuote(s)), Append(ws, w), s)
<1> DEFINE blank == " "
           x == ShellWord(r, blank)
<1>1. r \in ShellState /\ r.words = ws /\ r.cur = w /\ r.word /\ r.in = "plain"
  BY DEF Word
<1>2. blank \in Char
  BY DEF Char
<1>3. x = [r EXCEPT !.words = Append(r.words, r.cur), !.cur = <<>>, !.word = FALSE]
  BY <1>1 DEF ShellWord
<1>4. x \in ShellState
  <2> HIDE DEF blank
  <2> QED BY <1>1, <1>2, ShellWordType
<1>5. x.words = Append(ws, w) /\ x.cur = <<>> /\ x.in = "plain"
  <2> HIDE DEF x
  <2> QED BY <1>1, <1>3 DEF ShellState
<1> HIDE DEF x, blank
<1>6. Reading(r, <<blank>>) = x /\ <<blank>> \in Text
  BY <1>1, <1>2, ReadingOne DEF x
<1>7. ShellQuote(s) \in Text /\ Word(Reading(x, ShellQuote(s)), Append(ws, w), s)
  <2>1. <<>> \o s = s
    BY ConcatEmptySeq DEF Text
  <2> QED BY <1>4, <1>5, <2>1, QuoteRead DEF Word
<1>8. Reading(r, <<blank>> \o ShellQuote(s)) = Reading(x, ShellQuote(s))
  BY <1>1, <1>6, <1>7, ReadingConcat
<1> QED BY <1>7, <1>8 DEF blank

(* The end of the line ends the last word.                                 *)
LEMMA LastWord ==
  ASSUME NEW line, NEW ws, NEW w, Word(Reading(Unread, line), ws, w)
  PROVE  Split(line) = Append(ws, w)
BY DEF Word, Split

(* The words of a command line, each quoted.                               *)
Quoted(args) == [i \in DOMAIN args |-> ShellQuote(args[i])]

(* A quoted word is text.                                                  *)
LEMMA QuoteText ==
  ASSUME NEW s \in Text
  PROVE  ShellQuote(s) \in Text
<1>1. Unread.in = "plain"
  BY DEF Unread
<1> QED BY <1>1, UnreadState, QuoteRead

(* Quoted words are as many words.                                         *)
LEMMA QuotedType ==
  ASSUME NEW args \in Seq(Text)
  PROVE  Quoted(args) \in Seq(Text) /\ Len(Quoted(args)) = Len(args)
<1>1. Len(args) \in Nat /\ DOMAIN args = 1..Len(args) /\ \A i \in DOMAIN args : args[i] \in Text
  OBVIOUS
<1>2. Quoted(args) \in [1..Len(args) -> Text]
  BY <1>1, QuoteText DEF Quoted
<1> QED BY <1>1, <1>2

(* A word more, a quoted word more.                                        *)
LEMMA QuotedAppend ==
  ASSUME NEW args \in Seq(Text), NEW s \in Text
  PROVE  Quoted(Append(args, s)) = Append(Quoted(args), ShellQuote(s))
<1> DEFINE n == Len(args)
           more == Append(args, s)
           e == Quoted(args)
           x == ShellQuote(s)
<1>1. /\ more \in Seq(Text) /\ n \in Nat /\ DOMAIN args = 1..n /\ DOMAIN more = 1..(n + 1)
      /\ more[n + 1] = s /\ \A i \in 1..n : more[i] = args[i]
  BY AppendShape
<1>2. e \in Seq(Text) /\ Len(e) = n /\ x \in Text
  BY QuotedType, QuoteText
<1>3. /\ Append(e, x)[n + 1] = x
      /\ \A i \in 1..n : Append(e, x)[i] = e[i]
      /\ Append(e, x) = [i \in 1..(n + 1) |-> Append(e, x)[i]]
  <2> HIDE DEF e, x, n
  <2>1. /\ Append(e, x)[Len(e) + 1] = x
        /\ \A i \in 1..Len(e) : Append(e, x)[i] = e[i]
        /\ Append(e, x) = [i \in 1..(Len(e) + 1) |-> Append(e, x)[i]]
    BY <1>2, AppendShape
  <2> QED BY <1>2, <2>1
<1>4. \A i \in 1..n : e[i] = ShellQuote(args[i])
  BY <1>1 DEF Quoted
<1> HIDE DEF more, e
<1>5. Quoted(more) = [i \in 1..(n + 1) |-> ShellQuote(more[i])]
  BY <1>1 DEF Quoted
<1>6. \A i \in 1..(n + 1) : Append(e, x)[i] = ShellQuote(more[i])
  <2> TAKE i \in 1..(n + 1)
  <2>1. CASE i = n + 1
    <3>1. Append(e, x)[i] = x
      <4> HIDE DEF x, n
      <4> QED BY <1>3, <2>1
    <3> QED BY <1>1, <2>1, <3>1
  <2>2. CASE i # n + 1
    <3>1. i \in 1..n
      BY <1>1, <2>2
    <3> QED BY <1>1, <1>3, <1>4, <3>1
  <2> QED BY <2>1, <2>2
<1> HIDE DEF x, n
<1> QED BY <1>3, <1>5, <1>6 DEF more, e, x

(* A shell makes of a line of quoted words the words that were quoted.     *)
LEMMA SplitsBack ==
  ASSUME NEW args \in Seq(Text), args # <<>>
  PROVE  Joined(Quoted(args)) \in Text /\ Split(Joined(Quoted(args))) = args
<1> DEFINE Good(a) == \E ws \in Seq(Text), w \in Text :
                         a = Append(ws, w) /\ Word(Reading(Unread, Joined(Quoted(a))), ws, w)
           T == {a \in Seq(Text) : a # <<>> /\ ~Good(a)}
<1>1. T = {}
  <2>1. SUFFICES ASSUME T # {} PROVE FALSE
    OBVIOUS
  <2>2. T \in SUBSET Seq(Text) /\ <<>> \notin T
    OBVIOUS
  <2>3. PICK a \in Seq(Text), s \in Text : a \notin T /\ Append(a, s) \in T
    <3> HIDE DEF T
    <3> QED BY <2>1, <2>2, Shortest
  <2>4. ~Good(Append(a, s)) /\ (a = <<>> \/ Good(a))
    <3> HIDE DEF Good
    <3> QED BY <2>3
  <2>5. Quoted(Append(a, s)) = Append(Quoted(a), ShellQuote(s))
    BY QuotedAppend
  <2>6. CASE a = <<>>
    <3>1. Quoted(a) = <<>>
      BY <2>6 DEF Quoted
    <3>2. Quoted(Append(a, s)) = <<ShellQuote(s)>>
      BY <2>5, <3>1
    <3>3. Joined(Quoted(Append(a, s))) = ShellQuote(s)
      BY <3>2, QuoteText, JoinedOne
    <3>4. Word(Reading(Unread, Joined(Quoted(Append(a, s)))), <<>>, s)
      BY <3>3, FirstWord
    <3>5. <<>> \in Seq(Text)
      OBVIOUS
    <3> QED BY <2>4, <2>6, <3>4, <3>5
  <2>7. CASE Good(a)
    <3>1. PICK ws \in Seq(Text), w \in Text :
             a = Append(ws, w) /\ Word(Reading(Unread, Joined(Quoted(a))), ws, w)
      BY <2>7
    <3>2. Quoted(a) \in Seq(Text) /\ Quoted(a) # <<>>
      <4>1. Len(a) # 0
        BY <3>1
      <4>2. Len(Quoted(a)) # 0 /\ Quoted(a) \in Seq(Text)
        BY <4>1, QuotedType
      <4> QED BY <4>2
    <3>3. Joined(Quoted(Append(a, s))) = Joined(Quoted(a)) \o (<<" ">> \o ShellQuote(s))
      BY <2>5, <3>2, QuoteText, JoinedAppend
    <3>4. Joined(Quoted(a)) \in Text /\ <<" ">> \o ShellQuote(s) \in Text
      BY <3>2, SpacedType, QuoteText, BlankText, ConcatProperties DEF Text
    <3> DEFINE r == Reading(Unread, Joined(Quoted(a)))
    <3>5. Word(r, ws, w)
      BY <3>1
    <3>6. Reading(Unread, Joined(Quoted(Append(a, s)))) = Reading(r, <<" ">> \o ShellQuote(s))
      <4> DEFINE line == Joined(Quoted(a))
                 more == <<" ">> \o ShellQuote(s)
      <4>1. line \in Text /\ more \in Text
        BY <3>4
      <4> HIDE DEF line, more
      <4>2. Reading(Unread, line \o more) = Reading(Reading(Unread, line), more)
        BY <4>1, UnreadState, ReadingConcat
      <4> QED BY <3>3, <4>2 DEF line, more
    <3> HIDE DEF r
    <3>7. Word(Reading(Unread, Joined(Quoted(Append(a, s)))), a, s)
      BY <3>1, <3>5, <3>6, NextWord
    <3> QED BY <2>4, <3>7
  <2> QED BY <2>4, <2>6, <2>7
<1>2. Good(args)
  <2> HIDE DEF Good
  <2> QED BY <1>1
<1>3. Joined(Quoted(args)) \in Text
  BY QuotedType, SpacedType
<1> QED BY <1>2, <1>3, LastWord

(* The four command lines the driver composes.                             *)
LEMMA SafeWord ==
  ASSUME NEW s \in Text, s # <<>>, Range(s) \subseteq {"a"}
  PROVE  ShellQuote(s) = s
BY DEF ShellQuote

(* The words of the code's own commands need no quoting.                   *)
LEMMA FixedWords ==
  \A s \in {Env, Bash, Setup, Cmd} : s \in Text /\ ShellQuote(s) = s
<1>1. "a" \in Char
  BY DEF Char
<1>2. \A x \in Char : <<x>> \in Text /\ <<x, x>> \in Text /\ <<x, x, x>> \in Text
  BY DEF Text
<1>3. Env \in Text /\ Env # <<>> /\ \A i \in DOMAIN Env : Env[i] = "a"
  <2>1. Env \in Text
    BY <1>1, <1>2, Zenon DEF Env
  <2>2. Env # <<>> /\ \A i \in DOMAIN Env : Env[i] = "a"
    BY DEF Env
  <2> QED BY <2>1, <2>2
<1>4. Bash \in Text /\ Bash # <<>> /\ \A i \in DOMAIN Bash : Bash[i] = "a"
  <2>1. Bash \in Text
    BY <1>1, <1>2, Zenon DEF Bash
  <2>2. Bash # <<>> /\ \A i \in DOMAIN Bash : Bash[i] = "a"
    BY DEF Bash
  <2> QED BY <2>1, <2>2
<1>5. Setup \in Text /\ Setup # <<>> /\ \A i \in DOMAIN Setup : Setup[i] = "a"
  <2>1. Setup \in Text
    BY <1>1, <1>2, Zenon DEF Setup
  <2>2. Setup # <<>> /\ \A i \in DOMAIN Setup : Setup[i] = "a"
    BY DEF Setup
  <2> QED BY <2>1, <2>2
<1>6. Cmd \in Text /\ Cmd # <<>> /\ \A i \in DOMAIN Cmd : Cmd[i] = "a"
  <2>1. Cmd \in Text
    BY <1>1, <1>2, Zenon DEF Cmd
  <2>2. Cmd # <<>> /\ \A i \in DOMAIN Cmd : Cmd[i] = "a"
    BY DEF Cmd
  <2> QED BY <2>1, <2>2
<1>7. ASSUME NEW s \in {Env, Bash, Setup, Cmd} PROVE s \in Text /\ s # <<>> /\ \A i \in DOMAIN s : s[i] = "a"
  <2>1. s = Env \/ s = Bash \/ s = Setup \/ s = Cmd
    OBVIOUS
  <2> QED BY <1>3, <1>4, <1>5, <1>6, <2>1
<1> QED BY <1>7, RangeSafe, SafeWord

(* How the words of a command line are put in front of one another.        *)
LEMMA InFront ==
  /\ \A y, z : <<>> \o <<y, z>> = <<y, z>>
  /\ \A x, y, z : <<x>> \o <<y, z>> = <<x, y, z>>
<1>1. \A y, z : <<>> \o <<y, z>> = <<y, z>>
  <2> TAKE y, z
  <2> DEFINE s == <<y, z>>
  <2>1. s \in Seq({y, z})
    OBVIOUS
  <2> HIDE DEF s
  <2>2. <<>> \o s = s
    BY <2>1, ConcatEmptySeq
  <2> QED BY <2>2 DEF s
<1>2. \A x, y, z : <<x>> \o <<y, z>> = <<x, y, z>>
  <2> TAKE x, y, z
  <2> DEFINE S == {x, y, z}
             r == <<x>>
             s == <<y, z>>
             t == <<x, y, z>>
  <2>1. /\ r \in Seq(S) /\ Len(r) = 1 /\ r[1] = x
        /\ s \in Seq(S) /\ Len(s) = 2 /\ s[1] = y /\ s[2] = z
        /\ t \in Seq(S) /\ Len(t) = 3 /\ t[1] = x /\ t[2] = y /\ t[3] = z
    OBVIOUS
  <2> HIDE DEF S, r, s, t
  <2>2. /\ r \o s \in Seq(S) /\ Len(r \o s) = 3
        /\ \A i \in 1..3 : (r \o s)[i] = IF i <= 1 THEN r[i] ELSE s[i - 1]
    <3>1. /\ r \o s \in Seq(S)
          /\ Len(r \o s) = Len(r) + Len(s)
          /\ \A i \in 1..Len(r) + Len(s) : (r \o s)[i] = IF i <= Len(r) THEN r[i] ELSE s[i - Len(r)]
      BY <2>1, ConcatProperties
    <3> QED BY <2>1, <3>1
  <2>3. r \o s = t
    BY <2>1, <2>2
  <2> QED BY <2>3 DEF r, s, t
<1> QED BY <1>1, <1>2

(* The command line a login shell is given.                                *)
Inner == Joined(<<Setup, ShellQuote(Cmd), ShellQuote(prompt)>>)

(* The command line, as words joined.                                      *)
LEMMA Composed ==
  LET words == IF prelude THEN <<Bash, ShellQuote(Inner)>> ELSE <<ShellQuote(Cmd), ShellQuote(prompt)>>
  IN Compose = Joined(IF withEnv THEN <<Env, words[1], words[2]>> ELSE words)
<1> DEFINE line == <<ShellQuote(Cmd), ShellQuote(prompt)>>
           words == IF prelude THEN <<Bash, ShellQuote(Inner)>> ELSE line
<1>1. <<Setup>> \o line = <<Setup, ShellQuote(Cmd), ShellQuote(prompt)>>
  BY InFront
<1>2. Compose = Joined((IF withEnv THEN <<Env>> ELSE <<>>) \o words)
  <2>1. CASE prelude
    BY <1>1, <2>1 DEF Compose, Inner
  <2>2. CASE ~prelude
    BY <2>2 DEF Compose
  <2> QED BY <2>1, <2>2
<1>3. words = <<words[1], words[2]>>
  OBVIOUS
<1> HIDE DEF words
<1>4. (IF withEnv THEN <<Env>> ELSE <<>>) \o words
         = IF withEnv THEN <<Env, words[1], words[2]>> ELSE words
  BY <1>3, InFront
<1> QED BY <1>2, <1>4 DEF words

(* The inner command line of a login shell is read as its three words.     *)
LEMMA InnerSplits ==
  ASSUME prompt \in Text
  PROVE  Inner \in Text /\ Split(Inner) = <<Setup, Cmd, prompt>>
<1> DEFINE args == <<Setup, Cmd, prompt>>
<1>1. args \in Seq(Text) /\ args # <<>>
  BY FixedWords
<1>2. Quoted(args) = <<ShellQuote(Setup), ShellQuote(Cmd), ShellQuote(prompt)>>
  BY DEF Quoted
<1>3. Inner = Joined(Quoted(args))
  BY <1>2, FixedWords DEF Inner
<1> HIDE DEF args
<1>4. Inner \in Text /\ Split(Inner) = args
  BY <1>1, <1>3, SplitsBack
<1> QED BY <1>4 DEF args

(* The line sent is read as the command the driver meant.                  *)
LEMMA OuterSplits ==
  ASSUME prompt \in Text, withEnv \in BOOLEAN, prelude \in BOOLEAN
  PROVE  LET outer == Split(Compose)
             command == IF withEnv THEN Tail(outer) ELSE outer
         IN command = IF prelude THEN <<Bash, Inner>> ELSE <<Cmd, prompt>>
<1>1. Inner \in Text /\ \A s \in {Env, Bash, Setup, Cmd} : s \in Text /\ ShellQuote(s) = s
  BY InnerSplits, FixedWords
<1>2. ASSUME NEW args \in Seq(Text), args # <<>>, Compose = Joined(Quoted(args))
      PROVE  Split(Compose) = args
  BY <1>2, SplitsBack
<1>3. CASE withEnv /\ prelude
  <2> DEFINE args == <<Env, Bash, Inner>>
  <2>1. Compose = Joined(<<Env, Bash, ShellQuote(Inner)>>)
    BY <1>3, Composed
  <2>2. Quoted(args) = <<ShellQuote(Env), ShellQuote(Bash), ShellQuote(Inner)>>
    BY DEF Quoted
  <2>3. args \in Seq(Text) /\ args # <<>> /\ Compose = Joined(Quoted(args))
    BY <1>1, <2>1, <2>2
  <2>4. Split(Compose) = args
    <3> HIDE DEF args
    <3> QED BY <1>2, <2>3
  <2>5. Tail(args) = <<Bash, Inner>>
    OBVIOUS
  <2> QED BY <1>3, <2>4, <2>5
<1>4. CASE ~withEnv /\ prelude
  <2> DEFINE args == <<Bash, Inner>>
  <2>1. Compose = Joined(<<Bash, ShellQuote(Inner)>>)
    BY <1>4, Composed
  <2>2. Quoted(args) = <<ShellQuote(Bash), ShellQuote(Inner)>>
    BY DEF Quoted
  <2>3. args \in Seq(Text) /\ args # <<>> /\ Compose = Joined(Quoted(args))
    BY <1>1, <2>1, <2>2
  <2>4. Split(Compose) = args
    <3> HIDE DEF args
    <3> QED BY <1>2, <2>3
  <2> QED BY <1>4, <2>4
<1>5. CASE withEnv /\ ~prelude
  <2> DEFINE args == <<Env, Cmd, prompt>>
  <2>1. Compose = Joined(<<Env, ShellQuote(Cmd), ShellQuote(prompt)>>)
    BY <1>5, Composed
  <2>2. Quoted(args) = <<ShellQuote(Env), ShellQuote(Cmd), ShellQuote(prompt)>>
    BY DEF Quoted
  <2>3. args \in Seq(Text) /\ args # <<>> /\ Compose = Joined(Quoted(args))
    BY <1>1, <2>1, <2>2
  <2>4. Split(Compose) = args
    <3> HIDE DEF args
    <3> QED BY <1>2, <2>3
  <2>5. Tail(args) = <<Cmd, prompt>>
    OBVIOUS
  <2> QED BY <1>5, <2>4, <2>5
<1>6. CASE ~withEnv /\ ~prelude
  <2> DEFINE args == <<Cmd, prompt>>
  <2>1. Compose = Joined(<<ShellQuote(Cmd), ShellQuote(prompt)>>)
    BY <1>6, Composed
  <2>2. Quoted(args) = <<ShellQuote(Cmd), ShellQuote(prompt)>>
    BY DEF Quoted
  <2>3. args \in Seq(Text) /\ args # <<>> /\ Compose = Joined(Quoted(args))
    BY <1>1, <2>1, <2>2
  <2>4. Split(Compose) = args
    <3> HIDE DEF args
    <3> QED BY <1>2, <2>3
  <2> QED BY <1>6, <2>4
<1> QED BY <1>3, <1>4, <1>5, <1>6

(* The inductive invariant: what was asked for stays, and what ran is it.  *)
RiInv ==
  /\ shell \in {"Native", "Wsl", "Ssh"} /\ withEnv \in BOOLEAN /\ prelude \in BOOLEAN
  /\ prompt \in Prompts
  /\ ran = <<"not yet">> \/ ran = <<Cmd, prompt>>

(* A prompt is text.                                                       *)
LEMMA PromptText == \A p \in Prompts : p \in Seq({"a", " ", "'"}) /\ p \in Text
<1>1. \A p \in Seq({"a", " ", "'"}) : p \in Seq({"a", " ", "'", "\\"})
  <2> DEFINE few == {"a", " ", "'"}
             all == {"a", " ", "'", "\\"}
  <2>1. few \subseteq all
    OBVIOUS
  <2> HIDE DEF few, all
  <2>2. ASSUME NEW p \in Seq(few) PROVE p \in Seq(all)
    <3>1. Len(p) \in Nat /\ p = [i \in 1..Len(p) |-> p[i]] /\ \A i \in 1..Len(p) : p[i] \in all
      BY <2>1
    <3>2. [i \in 1..Len(p) |-> p[i]] \in [1..Len(p) -> all]
      BY <3>1
    <3> QED BY <3>1, <3>2, SeqDef
  <2> QED BY <2>2 DEF few, all
<1> QED BY <1>1, InvocationAssumption DEF Text, Char

(* What the launch brings is the command and the prompt.                   *)
LEMMA LaunchStep ==
  ASSUME RiInv, Launch
  PROVE  RiInv'
<1>1. UNCHANGED <<shell, withEnv, prelude, prompt>>
  BY DEF Launch
<1>2. prompt \in Text
  BY PromptText DEF RiInv
<1>3. CASE shell = "Native"
  BY <1>1, <1>3 DEF RiInv, Launch, Cmd
<1>4. CASE shell # "Native"
  <2> DEFINE command == IF withEnv THEN Tail(Split(Compose)) ELSE Split(Compose)
  <2>1. command = IF prelude THEN <<Bash, Inner>> ELSE <<Cmd, prompt>>
    BY <1>2, OuterSplits DEF RiInv
  <2>2. ran' = IF ~prelude THEN command
               ELSE Tail(Split(IF Len(command) = 2 THEN command[2] ELSE <<"'">>))
    BY <1>4 DEF Launch
  <2> HIDE DEF command
  <2>3. CASE ~prelude
    BY <1>1, <2>1, <2>2, <2>3 DEF RiInv
  <2>4. CASE prelude
    <3>1. Len(command) = 2 /\ command[2] = Inner
      BY <2>1, <2>4
    <3>2. ran' = Tail(<<Setup, Cmd, prompt>>)
      BY <1>2, <2>2, <2>4, <3>1, InnerSplits
    <3>3. ran' = <<Cmd, prompt>>
      BY <3>2
    <3> QED BY <1>1, <3>3 DEF RiInv, Cmd
  <2> QED BY <2>3, <2>4
<1> QED BY <1>3, <1>4

(* The invariant holds of every behaviour.                                 *)
THEOREM RiInvCorrect == RiSpec => []RiInv
<1>1. RiInit => RiInv
  BY DEF RiInit, RiInv
<1>2. RiInv /\ [RiNext]_rivars => RiInv'
  <2> SUFFICES ASSUME RiInv, [RiNext]_rivars PROVE RiInv'
    OBVIOUS
  <2>1. CASE UNCHANGED rivars
    BY <2>1 DEF rivars, RiInv, Cmd
  <2> QED BY <2>1, LaunchStep DEF RiNext
<1> QED BY <1>1, <1>2, PTL DEF RiSpec

(* The process's argv is not there yet, or is words of a prompt's          *)
(* characters: no character of the quoting is left in them                 *)
(* (subprocess.rs:60-112).                                                 *)
THEOREM InvocationTypeCorrect == RiSpec => []InvocationTypeOK
<1>1. RiInv => InvocationTypeOK
  <2> SUFFICES ASSUME RiInv PROVE InvocationTypeOK
    OBVIOUS
  <2> DEFINE few == {"a", " ", "'"}
             Words == Seq(few)
  <2>1. \A x \in few : <<x, x, x>> \in Words
    <3> HIDE DEF few
    <3> QED OBVIOUS
  <2>2. "a" \in few
    OBVIOUS
  <2>3. Cmd \in Words
    <3> HIDE DEF Words, few
    <3> QED BY <2>1, <2>2 DEF Cmd
  <2>4. prompt \in Words
    BY PromptText DEF RiInv
  <2> HIDE DEF Words
  <2>5. \A x, y \in Words : <<x, y>> \in Seq(Words)
    OBVIOUS
  <2>6. <<Cmd, prompt>> \in Seq(Words)
    BY <2>3, <2>4, <2>5
  <2>7. ran = <<"not yet">> \/ ran \in Seq(Words)
    BY <2>6 DEF RiInv
  <2> QED BY <2>7 DEF Words, RiInv, InvocationTypeOK
<1> QED BY <1>1, RiInvCorrect, PTL

(* Whatever the prompt, and whatever shells the command line passes, the   *)
(* agent is started with its command and the prompt as one argument,       *)
(* unchanged: quoting, joining and composing undo each other               *)
(* (subprocess.rs:30-112, 147-242).                                        *)
THEOREM PromptCorrect == RiSpec => []PromptArrivesWhole
<1>1. RiInv => PromptArrivesWhole
  BY DEF RiInv, PromptArrivesWhole
<1> QED BY <1>1, RiInvCorrect, PTL

=============================================================================
