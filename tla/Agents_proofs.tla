---------------------------- MODULE Agents_proofs ----------------------------
(***************************************************************************)
(* What holds of how agents and models come to the hub, for any parameters:*)
(* the loading of plugins, the routing of models and the setup wizard; and *)
(* of the fleet these make up with the drivers.                            *)
(***************************************************************************)
EXTENDS MCFleet, Drivers_proofs

-----------------------------------------------------------------------------
(* The loading of agents, for any plugin directories, in any order, and    *)
(* any number of directories that bring the same name.                     *)

(* Identities are given out one after the other.                           *)
Numbered == \E k \in Nat : subs = 1..k

(* What the three maps, the handlers and the bus know of each other.       *)
Entered ==
  /\ subs = {h.id : h \in handlers}
  /\ \A h \in handlers : h.name \in AgentNames => h.id <= ids[h.name]
  /\ \A n \in AgentNames : agents[n] # Absent =>
       /\ ids[n] = agents[n].id /\ n \in acts
       /\ [id |-> ids[n], name |-> n, dir |-> agents[n].dir] \in handlers

LoadInv ==
  /\ ids \in [AgentNames -> Nat]
  /\ \A n \in AgentNames : ids[n] \in subs \cup {0}
  /\ DOMAIN agents = AgentNames
  /\ \A n \in AgentNames : agents[n] = [id |-> agents[n].id, dir |-> agents[n].dir,
                                        state |-> agents[n].state]
  /\ Numbered
  /\ Entered

(* The next identity is above all that were given out.                     *)
LEMMA NextIdentity ==
  ASSUME Numbered
  PROVE  /\ Cardinality(subs) \in Nat
         /\ subs = 1..Cardinality(subs)
         /\ subs \cup {Cardinality(subs) + 1} = 1..(Cardinality(subs) + 1)
<1>1. PICK k \in Nat : subs = 1..k
  BY DEF Numbered
<1>2. Cardinality(1..k) = k
  <2>1. Cardinality(1..k) = IF 1 > k THEN 0 ELSE k - 1 + 1
    BY FS_Interval
  <2> QED
    BY <2>1
<1>3. 1..k \cup {k + 1} = 1..(k + 1)
  OBVIOUS
<1> QED
  BY <1>1, <1>2, <1>3

(* The entry of an agent into the maps, under one lock each, comes out     *)
(* whole, also over an older agent of the name.                            *)
LEMMA InstallStep == LoadInv /\ Install => LoadInv'
<1> SUFFICES ASSUME LoadInv, Install PROVE LoadInv'
  OBVIOUS
<1> DEFINE p == Head(queue)
           i == Cardinality(subs) + 1
           new == [id |-> i, name |-> p.name, dir |-> p.dir]
<1>1. i \in Nat /\ subs = 1..Cardinality(subs) /\ subs \cup {i} = 1..i
  BY NextIdentity DEF LoadInv
<1>2. \A h \in handlers : h.id \in 1..Cardinality(subs)
  BY <1>1 DEF LoadInv, Entered
<1>3. /\ subs' = subs \cup {i}
      /\ ids' = [ids EXCEPT ![p.name] = i]
      /\ agents' = [agents EXCEPT ![p.name] = [id |-> i, dir |-> p.dir, state |-> "ready"]]
      /\ acts' = acts \cup {p.name}
      /\ handlers' = handlers \cup {new}
  BY DEF Install, EnterId
<1>4. new.id = i /\ new.name = p.name /\ new.dir = p.dir
  OBVIOUS
<1>a. i \notin subs /\ \A h \in handlers : h.id <= i
  BY <1>1, <1>2, NextIdentity DEF LoadInv
<1> HIDE DEF i, new
<1>5. ids' \in [AgentNames -> Nat] /\ DOMAIN agents' = AgentNames /\ Numbered'
  BY <1>1, <1>3 DEF LoadInv, Numbered
<1>6. \A n \in AgentNames :
        agents'[n] = IF n = p.name THEN [id |-> i, dir |-> p.dir, state |-> "ready"] ELSE agents[n]
  BY <1>3 DEF LoadInv
<1>7. \A n \in AgentNames : ids'[n] = IF n = p.name THEN i ELSE ids[n]
  BY <1>3 DEF LoadInv
<1>8. subs' = {h.id : h \in handlers'}
  BY <1>3, <1>4 DEF LoadInv, Entered
<1>9. \A h \in handlers' : h.name \in AgentNames => h.id <= ids'[h.name]
  BY <1>1, <1>3, <1>4, <1>7, <1>a DEF LoadInv, Entered
<1>10. ASSUME NEW n \in AgentNames, agents'[n] # Absent
       PROVE  /\ ids'[n] = agents'[n].id /\ n \in acts'
              /\ [id |-> ids'[n], name |-> n, dir |-> agents'[n].dir] \in handlers'
  <2>1. CASE n = p.name
    BY <2>1, <1>3, <1>6, <1>7, <1>10 DEF new
  <2>2. CASE n # p.name
    BY <2>2, <1>3, <1>6, <1>7, <1>10 DEF LoadInv, Entered
  <2> QED
    BY <2>1, <2>2
<1>11. \A n \in AgentNames : agents'[n] = [id |-> agents'[n].id, dir |-> agents'[n].dir,
                                           state |-> agents'[n].state]
  BY <1>6 DEF LoadInv
<1>12. \A n \in AgentNames : ids'[n] \in subs' \cup {0}
  BY <1>3, <1>7 DEF LoadInv
<1> QED
  BY <1>5, <1>8, <1>9, <1>10, <1>11, <1>12 DEF LoadInv, Entered

(* Stopping agents changes none of what leads to them.                     *)
LEMMA StopStep ==
  ASSUME LoadInv,
         (\E n \in AgentNames, stopped \in BOOLEAN : StopAgent(n, stopped)) \/ StopAll
  PROVE  LoadInv'
<1>1. UNCHANGED <<ids, acts, handlers, subs>>
  BY DEF StopAgent, StopAll
<1>2. DOMAIN agents' = AgentNames
  BY DEF LoadInv, StopAgent, StopAll
<1>3. \A m \in AgentNames :
        \/ agents'[m] = Absent
        \/ agents'[m] = agents[m]
        \/ /\ agents[m] # Absent
           /\ agents'[m] = [id |-> agents[m].id, dir |-> agents[m].dir, state |-> "stopped"]
  <2>1. CASE StopAll
    BY <2>1 DEF StopAll
  <2>2. ASSUME NEW n \in AgentNames, NEW stopped, StopAgent(n, stopped)
        PROVE  \A m \in AgentNames :
                 \/ agents'[m] = agents[m]
                 \/ /\ agents[m] # Absent
                    /\ agents'[m] = [id |-> agents[m].id, dir |-> agents[m].dir, state |-> "stopped"]
    <3>1. CASE agents' = agents
      BY <3>1
    <3>2. CASE agents[n] # Absent /\ agents' = [agents EXCEPT ![n].state = "stopped"]
      <4>1. \A m \in AgentNames : m # n => agents'[m] = agents[m]
        BY <3>2 DEF LoadInv
      <4>2. agents'[n] = [id |-> agents[n].id, dir |-> agents[n].dir, state |-> "stopped"]
        BY <3>2 DEF LoadInv
      <4> QED
        BY <3>2, <4>1, <4>2
    <3> QED
      BY <2>2, <3>1, <3>2 DEF StopAgent
  <2> QED
    BY <2>1, <2>2
<1>4. ASSUME NEW n \in AgentNames
      PROVE  agents'[n] = [id |-> agents'[n].id, dir |-> agents'[n].dir, state |-> agents'[n].state]
  <2>1. CASE agents'[n] = Absent
    BY <2>1 DEF Absent
  <2>2. CASE agents'[n] = agents[n]
    BY <2>2 DEF LoadInv
  <2>3. CASE agents'[n] = [id |-> agents[n].id, dir |-> agents[n].dir, state |-> "stopped"]
    BY <2>3
  <2> QED
    BY <1>3, <2>1, <2>2, <2>3
<1>5. Numbered'
  BY <1>1 DEF LoadInv, Numbered
<1>6. ASSUME NEW n \in AgentNames, agents'[n] # Absent
      PROVE  agents[n] # Absent /\ agents'[n].id = agents[n].id /\ agents'[n].dir = agents[n].dir
  <2>1. CASE agents'[n] = agents[n]
    BY <1>6, <2>1
  <2>2. CASE agents[n] # Absent
             /\ agents'[n] = [id |-> agents[n].id, dir |-> agents[n].dir, state |-> "stopped"]
    BY <2>2
  <2> QED
    BY <1>3, <1>6, <2>1, <2>2
<1>7. Entered'
  BY <1>1, <1>6 DEF LoadInv, Entered
<1> QED
  BY <1>1, <1>2, <1>4, <1>5, <1>7 DEF LoadInv

(* The invariant holds from the start on.                                  *)
LEMMA LoadInvariant == AlSpec => []LoadInv
<1>1. AlInit => LoadInv
  <2> SUFFICES ASSUME AlInit PROVE LoadInv
    OBVIOUS
  <2>1. subs = 1..0
    BY DEF AlInit
  <2> QED
    BY <2>1 DEF AlInit, LoadInv, Numbered, Entered, Absent
<1>2. LoadInv /\ [AlNext]_alvars => LoadInv'
  <2> SUFFICES ASSUME LoadInv, [AlNext]_alvars PROVE LoadInv'
    OBVIOUS
  <2>1. CASE UNCHANGED runtime
    BY <2>1 DEF runtime, LoadInv, Numbered, Entered
  <2> QED
    BY <2>1, InstallStep, StopStep
    DEF AlNext, alvars, runtime, Scan, Warmed, BuildDriver, EnvReady, Loaded, ProbeEnds
<1> QED
  BY <1>1, <1>2, PTL DEF AlSpec

(* A name leads to one agent whole, the newest of that name, whatever      *)
(* directories bring it and whatever is stopped (runtime.rs:166-236,       *)
(* 508-530).                                                               *)
THEOREM NamesCorrect == AlSpec => []NamesLeadToOneAgent
<1>1. LoadInv => NamesLeadToOneAgent
  BY DEF LoadInv, Entered, NamesLeadToOneAgent
<1> QED
  BY <1>1, LoadInvariant, PTL

(* The plugins a scan keeps.                                               *)
Plugins == {d \in PluginDirs : Kept(d)}

(* What the cache holds or a probe under way will bring it.                *)
Coming == envs \cup {p.host : p \in probing}

(* A host is probed once it is known or on its way, and once only; after   *)
(* the warming nothing that will be loaded is missing.                     *)
ProbeInv ==
  /\ listing \in Seq(PluginDirs) /\ queue \in Seq(Plugins)
  /\ probing \subseteq [for : {0, 1}, host : EnvHosts] /\ envs \subseteq EnvHosts
  /\ probes \in [EnvHosts -> {0, 1}]
  /\ \A h \in EnvHosts : probes[h] = 1 => h \in Coming
  /\ phase = "scan" => probes = [h \in EnvHosts |-> 0] /\ envs = {} /\ probing = {}
  /\ phase # "scan" => \A i \in DOMAIN queue : "subprocess" \in queue[i].sections => queue[i].host \in Coming
  /\ phase \notin {"scan", "warm"} => probing = {}
  /\ phase \in {"probe", "join"} => queue # <<>>
  /\ phase \in {"scan", "warm", "load", "probe", "join", "up", "down"}

(* The invariant of the probes holds at the start.                         *)
LEMMA ProbeInitInv == AlInit => ProbeInv
<1> SUFFICES ASSUME AlInit PROVE ProbeInv
  OBVIOUS
<1>1. PICK n \in 0..MaxDirs : listing \in [1..n -> PluginDirs]
  BY DEF AlInit
<1>2. listing \in Seq(PluginDirs)
  BY <1>1, LoadingAssumption
<1>3. queue \in Seq(Plugins)
  BY DEF AlInit
<1>4. probes = [h \in EnvHosts |-> 0] /\ probing = {} /\ envs = {} /\ phase = "scan"
  BY DEF AlInit
<1> QED BY <1>2, <1>3, <1>4 DEF ProbeInv

(* What a scan finds, it found among the directories.                      *)
LEMMA ScannedPlugins ==
  ASSUME NEW ds \in Seq(PluginDirs)
  PROVE  Scanned(ds) \in Seq(Plugins)
<1> DEFINE I == {i \in DOMAIN ds : Kept(ds[i])}
<1>1. I \in SUBSET DOMAIN ds
  OBVIOUS
<1>2. \A i \in I : ds[i] \in Plugins
  BY DEF Plugins
<1>3. Scanned(ds) = Selected(ds, I)
  BY DEF Scanned
<1> HIDE DEF I
<1>4. /\ Selected(ds, I) \in Seq(PluginDirs)
      /\ \A k \in DOMAIN Selected(ds, I) : PlaceOf(I, k) \in I /\ Selected(ds, I)[k] = ds[PlaceOf(I, k)]
  BY <1>1, SelectedKeeps
<1>5. \A k \in DOMAIN Selected(ds, I) : Selected(ds, I)[k] \in Plugins
  BY <1>2, <1>4
<1> HIDE DEF Plugins
<1>6. Selected(ds, I) \in Seq(Plugins)
  BY <1>4, <1>5
<1> QED BY <1>3, <1>6

(* After the scan every host is known or being probed once.                *)
LEMMA ScanProbes == ProbeInv /\ Scan => ProbeInv'
<1> SUFFICES ASSUME ProbeInv, Scan PROVE ProbeInv'
  OBVIOUS
<1> DEFINE ps == Scanned(listing)
           wanted == HostsToWarm(ps)
           missing == {p \in wanted : p.host \notin envs}
<1>1. ps \in Seq(Plugins)
  BY ScannedPlugins DEF ProbeInv
<1>2. /\ listing' = listing /\ queue' = ps /\ phase' = "warm" /\ envs' = envs /\ envs = {}
      /\ probing' = missing
      /\ probes' = [h \in EnvHosts |-> probes[h] + Cardinality({p \in missing : p.host = h})]
      /\ \A h \in EnvHosts : probes[h] = 0
  BY DEF Scan, StartProbes, ProbeInv
<1>3. \A i \in DOMAIN ps : ps[i] \in Plugins
  BY <1>1
<1>4. wanted = {[for |-> 0, host |-> ps[i].host] : i \in {j \in DOMAIN ps : "subprocess" \in ps[j].sections}}
  BY DEF HostsToWarm
<1> HIDE DEF ps
<1>5. /\ wanted \subseteq [for : {0, 1}, host : EnvHosts]
      /\ \A p \in wanted : p = [for |-> 0, host |-> p.host]
      /\ \A i \in DOMAIN ps : "subprocess" \in ps[i].sections => \E p \in wanted : p.host = ps[i].host
  <2>1. \A i \in DOMAIN ps : ps[i].host \in EnvHosts
    BY <1>3 DEF Plugins, EnvHosts
  <2>2. \A p \in wanted : p = [for |-> 0, host |-> p.host]
    BY <1>4
  <2>3. wanted \subseteq [for : {0, 1}, host : EnvHosts]
    BY <1>4, <2>1
  <2>4. \A i \in DOMAIN ps : "subprocess" \in ps[i].sections => [for |-> 0, host |-> ps[i].host] \in wanted
    BY <1>4
  <2> HIDE DEF wanted
  <2> QED BY <2>2, <2>3, <2>4
<1> HIDE DEF wanted
<1>6. missing = wanted
  BY <1>2
<1>7. ASSUME NEW h \in EnvHosts
      PROVE  /\ probes'[h] \in {0, 1}
             /\ probes'[h] = 1 => h \in {p.host : p \in missing}
  <2>1. probes'[h] = 0 + Cardinality({p \in missing : p.host = h})
    BY <1>2
  <2>2. CASE h \in {p.host : p \in missing}
    <3>1. {p \in missing : p.host = h} = {[for |-> 0, host |-> h]}
      BY <1>5, <2>2
    <3>2. Cardinality({p \in missing : p.host = h}) = 1
      BY <3>1, FS_Singleton
    <3> QED BY <2>1, <2>2, <3>2
  <2>3. CASE h \notin {p.host : p \in missing}
    <3>1. {p \in missing : p.host = h} = {}
      BY <2>3
    <3>2. Cardinality({p \in missing : p.host = h}) = 0
      BY <3>1, FS_EmptySet
    <3> QED BY <2>1, <3>2
  <2> QED BY <2>2, <2>3
<1>8. probes' \in [EnvHosts -> {0, 1}]
  <2>1. DOMAIN probes' = EnvHosts
    BY <1>2
  <2> QED BY <1>2, <1>7
<1>9. \A h \in EnvHosts : probes'[h] = 1 => h \in Coming'
  BY <1>2, <1>7 DEF Coming
<1>10. \A i \in DOMAIN queue' : "subprocess" \in queue'[i].sections => queue'[i].host \in Coming'
  BY <1>2, <1>5, <1>6 DEF Coming
<1> QED BY <1>1, <1>2, <1>5, <1>6, <1>8, <1>9, <1>10 DEF ProbeInv

(* A probe that ends leaves its host known.                                *)
LEMMA ProbeEndsProbes == \A p \in probing : ProbeInv /\ ProbeEnds(p) => ProbeInv'
<1> SUFFICES ASSUME NEW p \in probing, ProbeInv, ProbeEnds(p) PROVE ProbeInv'
  OBVIOUS
<1>1. /\ UNCHANGED <<listing, phase, queue, probes>>
      /\ probing' = probing \ {p} /\ envs' = envs \cup {p.host} /\ p.host \in EnvHosts
  BY DEF ProbeEnds, ProbeInv
<1>2. Coming' = Coming
  BY <1>1 DEF Coming
<1>3. phase # "scan"
  BY DEF ProbeInv
<1> QED BY <1>1, <1>2, <1>3 DEF ProbeInv

(* A load that asks again for a host that is known starts no probe.        *)
LEMMA NothingMissing ==
  ASSUME probes \in [EnvHosts -> {0, 1}], NEW ps, \A p \in ps : p.host \in envs, StartProbes(ps)
  PROVE  probing' = {} /\ probes' = probes
<1> DEFINE missing == {p \in ps : p.host \notin envs}
<1>1. /\ probing' = missing
      /\ probes' = [h \in EnvHosts |-> probes[h] + Cardinality({p \in missing : p.host = h})]
  BY DEF StartProbes
<1>2. missing = {}
  OBVIOUS
<1> HIDE DEF missing
<1>3. \A h \in EnvHosts : Cardinality({p \in missing : p.host = h}) = 0
  <2> TAKE h \in EnvHosts
  <2>1. {p \in missing : p.host = h} = {}
    BY <1>2
  <2> QED BY <2>1, FS_EmptySet
<1>4. probes' = [h \in EnvHosts |-> probes[h]]
  BY <1>1, <1>3
<1> QED BY <1>1, <1>2, <1>4

(* A driver built finds its host known.                                    *)
LEMMA BuildProbes == ProbeInv /\ BuildDriver => ProbeInv'
<1> SUFFICES ASSUME ProbeInv, BuildDriver PROVE ProbeInv'
  OBVIOUS
<1>1. /\ phase = "load" /\ queue # <<>> /\ queue \in Seq(Plugins) /\ probing = {}
      /\ UNCHANGED <<listing, envs>>
      /\ Coming = envs
  BY DEF BuildDriver, ProbeInv, Coming
<1>2. /\ Head(queue) \in Plugins /\ Head(queue) = queue[1] /\ 1 \in DOMAIN queue
      /\ Tail(queue) \in Seq(Plugins)
      /\ DOMAIN Tail(queue) = 1..(Len(queue) - 1)
      /\ \A i \in DOMAIN Tail(queue) : i + 1 \in DOMAIN queue /\ Tail(queue)[i] = queue[i + 1]
  BY <1>1
<1>3. CASE Head(queue).driver = "mcp"
  <2>1. queue' = Tail(queue) /\ UNCHANGED <<phase, probing, probes>>
    BY <1>3 DEF BuildDriver
  <2>2. \A i \in DOMAIN queue' : "subprocess" \in queue'[i].sections => queue'[i].host \in Coming'
    BY <1>1, <1>2, <2>1 DEF ProbeInv, Coming
  <2> QED BY <1>1, <1>2, <2>1, <2>2 DEF ProbeInv, Coming
<1>4. CASE Head(queue).driver = "subprocess"
  <2>1. Head(queue).host \in envs
    BY <1>1, <1>2, <1>4 DEF ProbeInv, Plugins, Kept, Validates
  <2>2. /\ phase' = "probe" /\ queue' = queue
        /\ StartProbes({[for |-> 1, host |-> Head(queue).host]})
    BY <1>4 DEF BuildDriver
  <2>3. \A p \in {[for |-> 1, host |-> Head(queue).host]} : p.host \in envs
    BY <2>1
  <2>4. probing' = {} /\ probes' = probes
    BY <2>2, <2>3, NothingMissing DEF ProbeInv
  <2> QED BY <1>1, <2>2, <2>4 DEF ProbeInv, Coming
<1>5. CASE Head(queue).driver \notin {"mcp", "subprocess"}
  <2>1. phase' = "join" /\ UNCHANGED <<queue, probing, probes>>
    BY <1>5 DEF BuildDriver
  <2> QED BY <1>1, <2>1 DEF ProbeInv, Coming
<1> QED BY <1>3, <1>4, <1>5

(* Every step preserves the invariant.                                     *)
LEMMA ProbeStepInv == ProbeInv /\ [AlNext]_alvars => ProbeInv'
<1> SUFFICES ASSUME ProbeInv, [AlNext]_alvars PROVE ProbeInv'
  OBVIOUS
<1>1. CASE Install
  <2>1. /\ phase = "join" /\ phase' = "load" /\ queue' = Tail(queue) /\ queue # <<>> /\ queue \in Seq(Plugins)
        /\ UNCHANGED <<listing, envs, probing, probes>>
    BY <1>1 DEF Install, ProbeInv
  <2>2. /\ Tail(queue) \in Seq(Plugins)
        /\ \A i \in DOMAIN Tail(queue) : i + 1 \in DOMAIN queue /\ Tail(queue)[i] = queue[i + 1]
    BY <2>1
  <2> QED BY <2>1, <2>2 DEF ProbeInv, Coming
<1>2. CASE Warmed \/ EnvReady \/ Loaded \/ StopAll
  BY <1>2 DEF Warmed, EnvReady, Loaded, StopAll, ProbeInv, Coming
<1>3. CASE \E n \in AgentNames, stopped \in BOOLEAN : StopAgent(n, stopped)
  BY <1>3 DEF StopAgent, ProbeInv, Coming
<1>4. CASE UNCHANGED alvars
  BY <1>4 DEF alvars, ProbeInv, Coming
<1> QED BY <1>1, <1>2, <1>3, <1>4, ScanProbes, ProbeEndsProbes, BuildProbes DEF AlNext

(* The invariant holds of every behaviour.                                 *)
LEMMA ProbeInvCorrect == AlSpec => []ProbeInv
BY ProbeInitInv, ProbeStepInv, PTL DEF AlSpec

(* No host is probed twice by one load, however many agents share it, and  *)
(* whatever agents are built while the probes run (runtime.rs:88-106,      *)
(* 143-153).                                                               *)
THEOREM OneProbeCorrect == AlSpec => []OneProbePerHost
<1>1. ProbeInv => OneProbePerHost
  BY DEF ProbeInv, OneProbePerHost
<1> QED BY <1>1, ProbeInvCorrect, PTL

(* An agent installed has the name of its plugin.                          *)
LEMMA InstallNames == ProbeInv /\ Install => acts' = acts \cup {Head(queue).name} /\ Head(queue).name \in AgentNames
<1> SUFFICES ASSUME ProbeInv, Install PROVE acts' = acts \cup {Head(queue).name} /\ Head(queue).name \in AgentNames
  OBVIOUS
<1>1. Head(queue) \in Plugins
  BY DEF Install, ProbeInv
<1> QED BY <1>1 DEF Install, Plugins, AgentNames

(* What is stopped has a name.                                             *)
LEMMA ActsNamed == AlSpec => [](acts \subseteq AgentNames)
<1>1. AlInit => acts \subseteq AgentNames
  BY DEF AlInit
<1>2. acts \subseteq AgentNames /\ ProbeInv /\ [AlNext]_alvars => (acts \subseteq AgentNames)'
  <2> SUFFICES ASSUME acts \subseteq AgentNames, ProbeInv, [AlNext]_alvars PROVE acts' \subseteq AgentNames
    OBVIOUS
  <2>1. CASE Install
    BY <2>1, InstallNames
  <2>2. CASE acts' = acts
    BY <2>2
  <2> QED BY <2>1, <2>2
    DEF AlNext, alvars, runtime, Scan, Warmed, BuildDriver, EnvReady, Loaded, StopAgent, StopAll, ProbeEnds
<1> QED BY <1>1, <1>2, ProbeInvCorrect, PTL DEF AlSpec

(* The loader's queue, maps and probes keep their kinds, and an agent      *)
(* loaded under a name that was there takes its place                      *)
(* (runtime.rs:166-236).                                                   *)
THEOREM LoadingTypeCorrect == AlSpec => []LoadingTypeOK
<1>1. ProbeInv /\ acts \subseteq AgentNames /\ LoadInv => LoadingTypeOK
  <2> SUFFICES ASSUME ProbeInv, acts \subseteq AgentNames, LoadInv PROVE LoadingTypeOK
    OBVIOUS
  <2>1. ASSUME NEW n \in AgentNames PROVE ids[n] \in subs \cup {0} /\ agents[n].id \in subs \cup {0}
    <3>1. ids[n] \in subs \cup {0}
      BY DEF LoadInv
    <3>2. CASE agents[n] = Absent
      <4>1. Absent.id = 0
        BY DEF Absent
      <4>2. agents[n].id = 0
        BY <3>2, <4>1
      <4> QED BY <3>1, <4>2
    <3>3. CASE agents[n] # Absent
      BY <3>1, <3>3 DEF LoadInv, Entered
    <3> QED BY <3>1, <3>2, <3>3
  <2> QED BY <2>1 DEF LoadingTypeOK, ProbeInv
<1> QED BY <1>1, ProbeInvCorrect, ActsNamed, LoadInvariant, PTL

-----------------------------------------------------------------------------
(* The routing of models, for any backends, ports and models.              *)

(* The stages of each operation on the registry.                           *)
Stages == [register |-> {"listing", "index", "info", "store"},
           refresh |-> {"listing", "retain", "index", "info"},
           remove |-> {"retain", "drop", "dropinfo"}]

(* An operation under way is at a stage it has.                            *)
OpTypeOK ==
    \/ op = NoOp
    \/ /\ op \in [kind : DOMAIN Stages, at : UNION {Stages[k] : k \in DOMAIN Stages},
                  backend : AllBackends \cup {NoBackend}, name : Names, models : SUBSET ModelId]
       /\ op.at \in Stages[op.kind]
       /\ op.kind # "remove" => op.backend \in AllBackends
       /\ op.at = "listing" => op.models = {}

(* The full name of a model leads to its backend, unless some server lists *)
(* it as a bare id.                                                        *)
Leads(n, m) == Qualified(n, m) \notin ModelId => index[Qualified(n, m)] = n

(* What the router needs to find a model of a backend.                     *)
Routable(n, m) == Leads(n, m) /\ backends[n] # NoBackend

(* An operation is changing a backend, and no longer waiting for its       *)
(* listing.                                                                *)
BusyWith(n) == op.name = n /\ ~(op.kind = "refresh" /\ op.at = "listing")

(* The inductive invariant: what the maps owe one another, by the stage of *)
(* the operation that is changing them.                                    *)
MrInv ==
    /\ RoutingTypeOK
    /\ OpTypeOK
    /\ \A n \in Names : ~info[n].known => info[n].models = {}
    /\ \A n \in Names : ~BusyWith(n) => \A m \in info[n].models : Routable(n, m)
    /\ op.kind = "refresh" => backends[op.name] # NoBackend
    /\ op.at \in {"info", "store"} => \A m \in op.models : Leads(op.name, m)
    /\ op.at = "store" => info[op.name].models = op.models

-----------------------------------------------------------------------------
(* Names of backends are not the empty name.                               *)
LEMMA BackendNames ==
    /\ "" \notin Names
    /\ NoBackend \notin AllBackends
    /\ \A b \in AllBackends : BackendName(b) \in Names
<1>1. \A b \in AllBackends : b \in [kind : {"ollama", "openai", "anthropic", "mock"}, port : Nat]
  BY RoutingAssumption DEF AllBackends, Discovered
<1>2. \A b \in AllBackends : BackendName(b) # ""
  <2> SUFFICES ASSUME NEW b \in AllBackends PROVE BackendName(b) # ""
    OBVIOUS
  <2>1. b.kind \in {"ollama", "openai", "anthropic", "mock"}
    BY <1>1
  <2>2. CASE b.kind = "ollama"
    BY <2>2 DEF BackendName
  <2>3. CASE b.kind = "openai"
    BY <2>3 DEF BackendName
  <2>4. CASE b.kind \in {"anthropic", "mock"}
    BY <2>4 DEF BackendName
  <2> QED BY <2>1, <2>2, <2>3, <2>4
<1>3. NoBackend \notin AllBackends
  BY <1>1 DEF NoBackend
<1> QED BY <1>2, <1>3 DEF Names

(* A full name has one backend and one model.                              *)
LEMMA QualifiedOnce ==
    ASSUME NEW n, NEW m \in Seq(STRING), NEW n2, NEW m2 \in Seq(STRING),
           Qualified(n, m) = Qualified(n2, m2)
    PROVE  n = n2 /\ m = m2
<1> DEFINE S == STRING \cup {n, n2}
<1>1. <<n>> \in Seq(S) /\ <<n2>> \in Seq(S) /\ m \in Seq(S) /\ m2 \in Seq(S)
  OBVIOUS
<1>2. <<n>> \o m = <<n2>> \o m2
  BY DEF Qualified
<1> HIDE DEF S
<1>3. /\ Len(<<n>> \o m) = 1 + Len(m) /\ (<<n>> \o m)[1] = n
      /\ \A i \in 1..Len(m) : (<<n>> \o m)[i + 1] = m[i]
  BY <1>1
<1>4. /\ Len(<<n2>> \o m2) = 1 + Len(m2) /\ (<<n2>> \o m2)[1] = n2
      /\ \A i \in 1..Len(m2) : (<<n2>> \o m2)[i + 1] = m2[i]
  BY <1>1
<1>5. n = n2
  BY <1>2, <1>3, <1>4, Zenon
<1>6. Len(m) \in Nat /\ Len(m2) \in Nat /\ 1 + Len(m) = 1 + Len(m2)
  BY <1>1, <1>2, <1>3, <1>4
<1>7. Len(m) = Len(m2)
  BY <1>6
<1>8. \A i \in 1..Len(m) : m[i] = m2[i]
  BY <1>2, <1>3, <1>4, <1>7, Zenon
<1>9. m = m2
  BY <1>1, <1>7, <1>8, SeqEqual
<1> QED BY <1>5, <1>9

(* Unless it is also a bare id, it is indexed for that one alone.          *)
LEMMA QualifiedKeys ==
    ASSUME NEW n \in Names, NEW m \in ModelId
    PROVE  /\ Qualified(n, m) \in Keys
           /\ Qualified(n, m) \notin ModelId =>
                \A n2 \in Names, ms \in SUBSET ModelId :
                  Qualified(n, m) \in KeysOf(n2, ms) <=> n = n2 /\ m \in ms
<1>1. Qualified(n, m) \in Keys
  BY DEF Keys
<1>2. ASSUME Qualified(n, m) \notin ModelId, NEW n2 \in Names, NEW ms \in SUBSET ModelId
      PROVE  Qualified(n, m) \in KeysOf(n2, ms) <=> n = n2 /\ m \in ms
  <2>1. ASSUME Qualified(n, m) \in KeysOf(n2, ms) PROVE n = n2 /\ m \in ms
    <3>1. PICK m2 \in ms : Qualified(n, m) = Qualified(n2, m2)
      BY <1>2, <2>1 DEF KeysOf
    <3> QED BY <3>1, QualifiedOnce, RoutingAssumption
  <2>2. m \in ms => Qualified(n, m) \in KeysOf(n, ms)
    BY DEF KeysOf
  <2> QED BY <2>1, <2>2
<1> QED BY <1>1, <1>2

(* The invariant holds at the start.                                       *)
LEMMA MrInitInv == MrInit => MrInv
<1> SUFFICES ASSUME MrInit PROVE MrInv
  OBVIOUS
<1>1. RoutingTypeOK
  BY DEF MrInit, RoutingTypeOK
<1>2. \A n \in Names : info[n] = [known |-> FALSE, models |-> {}]
  BY DEF MrInit
<1>3. op = NoOp /\ op.kind = "none" /\ op.at = "idle"
  BY DEF MrInit, NoOp
<1>4. \A n \in Names : info[n].models = {}
  BY <1>2
<1> QED BY <1>1, <1>3, <1>4 DEF MrInv, OpTypeOK

(* Starting an operation changes no map, and the name it is busy with was  *)
(* not one of its own before.                                              *)
LEMMA StartPreserves ==
    ASSUME MrInv, op = NoOp, OpTypeOK',
           ports' \subseteq Port,
           UNCHANGED <<backends, info, index>>,
           op'.at \in {"idle", "listing", "retain"},
           op'.kind = "refresh" => op'.at = "listing" /\ backends[op'.name] # NoBackend
    PROVE  MrInv'
<1>1. \A n \in Names : op.name # n
  BY BackendNames DEF NoOp
<1>2. RoutingTypeOK'
  BY DEF MrInv, RoutingTypeOK
<1>3. \A n \in Names : \A m \in info[n].models : Routable(n, m)
  BY <1>1 DEF MrInv, BusyWith
<1>4. \A n \in Names : ~BusyWith(n)' => \A m \in info'[n].models : Routable(n, m)'
  BY <1>3 DEF Routable, Leads
<1>5. op'.at \notin {"info", "store"}
  OBVIOUS
<1> QED BY <1>2, <1>4, <1>5 DEF MrInv

(* One that is over leaves nothing under way.                              *)
LEMMA OpDone ==
    ASSUME op' = NoOp
    PROVE  OpTypeOK' /\ op'.at = "idle" /\ op'.kind = "none" /\ op'.name = ""
<1>1. OpTypeOK'
  BY DEF OpTypeOK
<1> QED BY <1>1 DEF NoOp

(* A probed port begins a registration, or nothing;                        *)
LEMMA ProbePreserves ==
    ASSUME MrInv, NEW p \in Port, NEW kind \in {"ollama", "openai", "none"}, Probe(p, kind)
    PROVE  MrInv'
<1>1. ports' \subseteq Port
  BY DEF Probe, MrInv, RoutingTypeOK
<1>2. CASE kind = "none"
  <2>1. op' = NoOp /\ op' = op
    BY <1>2 DEF Probe
  <2>2. OpTypeOK' /\ op'.at = "idle" /\ op'.kind = "none"
    BY <2>1, OpDone
  <2> QED BY <2>1, <2>2, <1>1, StartPreserves DEF Probe
<1>3. CASE kind # "none"
  <2> DEFINE b == [kind |-> kind, port |-> p]
  <2>1. b \in AllBackends
    BY <1>3 DEF AllBackends, Discovered
  <2>2. op' = [kind |-> "register", at |-> "listing", backend |-> b, name |-> BackendName(b),
               models |-> {}]
    BY <1>3 DEF Probe, NoOp
  <2>3. BackendName(b) \in Names
    BY <2>1, BackendNames
  <2>4. OpTypeOK'
    <3> HIDE DEF b
    <3> QED BY <2>1, <2>2, <2>3 DEF OpTypeOK, Stages
  <2> QED BY <2>2, <2>4, <1>1, StartPreserves DEF Probe
<1> QED BY <1>2, <1>3

(* so does a backend added by hand,                                        *)
LEMMA RegisterPreserves ==
    ASSUME MrInv, NEW b \in ByHand, Register(b)
    PROVE  MrInv'
<1>1. b \in AllBackends /\ BackendName(b) \in Names
  BY BackendNames DEF AllBackends
<1>2. op' = [kind |-> "register", at |-> "listing", backend |-> b, name |-> BackendName(b),
             models |-> {}]
  BY DEF Register, NoOp
<1>3. OpTypeOK'
  BY <1>1, <1>2 DEF OpTypeOK, Stages
<1> QED BY <1>2, <1>3, StartPreserves DEF Register, MrInv, RoutingTypeOK

(* and a refresh,                                                          *)
LEMMA RefreshPreserves ==
    ASSUME MrInv, NEW n \in Names, Refresh(n)
    PROVE  MrInv'
<1>1. backends[n] \in AllBackends
  BY DEF MrInv, RoutingTypeOK, Refresh
<1>2. op' = [kind |-> "refresh", at |-> "listing", backend |-> backends[n], name |-> n,
             models |-> {}]
  BY DEF Refresh, NoOp
<1>3. OpTypeOK'
  BY <1>1, <1>2 DEF OpTypeOK, Stages
<1> QED BY <1>2, <1>3, StartPreserves DEF Refresh, MrInv, RoutingTypeOK

(* and a removal.                                                          *)
LEMMA RemovePreserves ==
    ASSUME MrInv, NEW n \in Names, RemoveBackend(n)
    PROVE  MrInv'
<1>1. op' = [kind |-> "remove", at |-> "retain", backend |-> NoBackend, name |-> n,
             models |-> {}]
  BY DEF RemoveBackend, NoOp
<1>2. OpTypeOK'
  BY <1>1 DEF OpTypeOK, Stages
<1> QED BY <1>1, <1>2, StartPreserves DEF RemoveBackend, MrInv, RoutingTypeOK

-----------------------------------------------------------------------------
(* Where an operation is under way, its record is whole.                   *)
LEMMA OpUnderWay ==
    ASSUME OpTypeOK, op.at # "idle"
    PROVE  /\ op.name \in Names /\ op.models \in SUBSET ModelId
           /\ op.kind \in {"register", "refresh", "remove"} /\ op.at \in Stages[op.kind]
           /\ op.kind # "remove" => op.backend \in AllBackends
           /\ op.at = "listing" => op.models = {}
           /\ op = [kind |-> op.kind, at |-> op.at, backend |-> op.backend, name |-> op.name,
                    models |-> op.models]
           /\ op.backend \in AllBackends \cup {NoBackend}
<1>1. NoOp.at = "idle"
  BY DEF NoOp
<1>2. op # NoOp
  BY <1>1
<1> QED BY <1>2 DEF OpTypeOK, Stages

(* The next stage of an operation, with the models it has by then.         *)
LEMMA NextStage ==
    ASSUME OpTypeOK, op.at # "idle", NEW after \in Stages[op.kind] \ {"listing"}, NEW ms \in SUBSET ModelId,
           op' = [kind |-> op.kind, at |-> after, backend |-> op.backend, name |-> op.name,
                  models |-> ms]
    PROVE  OpTypeOK'
BY OpUnderWay DEF OpTypeOK, Stages

(* The listing of a backend arrives, or fails.                             *)
LEMMA ListingPreserves ==
    ASSUME MrInv, NEW answer \in [ok : BOOLEAN, models : SUBSET ModelId], ListingArrives(answer)
    PROVE  MrInv'
<1> USE DEF Stages
<1>1. /\ op.at = "listing" /\ op.kind \in {"register", "refresh"} /\ op.name \in Names
      /\ OpTypeOK /\ op.models \in SUBSET ModelId
  BY OpUnderWay DEF MrInv, ListingArrives
<1>2. RoutingTypeOK'
  BY DEF MrInv, RoutingTypeOK, ListingArrives
<1>3. UNCHANGED <<backends, info, index>>
  BY DEF ListingArrives
<1>4. CASE op.kind = "refresh" /\ ~answer.ok
  <2>1. op' = NoOp
    BY <1>4 DEF ListingArrives
  <2>2. OpTypeOK' /\ op'.at = "idle" /\ op'.kind = "none"
    BY <2>1, OpDone
  <2>3. \A n \in Names : \A m \in info[n].models : Routable(n, m)
    BY <1>1, <1>4 DEF MrInv, BusyWith
  <2> QED BY <1>2, <1>3, <2>2, <2>3 DEF MrInv, Routable, Leads
<1>5. CASE op.kind = "refresh" /\ answer.ok
  <2>1. op' = [op EXCEPT !.at = "retain", !.models = answer.models]
    BY <1>5 DEF ListingArrives
  <2>2. op' = [kind |-> op.kind, at |-> "retain", backend |-> op.backend, name |-> op.name,
               models |-> answer.models]
    BY <2>1, OpUnderWay, <1>1
  <2>3. OpTypeOK'
    BY <2>2, <1>1, <1>5, NextStage
  <2>4. op'.at = "retain" /\ op'.kind = "refresh" /\ op'.name = op.name
    BY <2>2, <1>5
  <2>5. \A n \in Names : ~BusyWith(n)' => \A m \in info'[n].models : Routable(n, m)'
    BY <2>4, <1>3 DEF MrInv, BusyWith, Routable, Leads
  <2> QED BY <1>2, <1>3, <1>5, <2>3, <2>4, <2>5 DEF MrInv
<1>6. CASE op.kind = "register" /\ ~answer.ok
  <2>1. op' = [op EXCEPT !.at = "info"]
    BY <1>6 DEF ListingArrives
  <2>2. op' = [kind |-> op.kind, at |-> "info", backend |-> op.backend, name |-> op.name,
               models |-> {}]
    BY <2>1, OpUnderWay, <1>1
  <2>3. OpTypeOK'
    BY <2>2, <1>1, <1>6, NextStage
  <2>4. op'.at = "info" /\ op'.kind = "register" /\ op'.name = op.name /\ op'.models = {}
    BY <2>2, <1>6
  <2>5. \A n \in Names : ~BusyWith(n)' => \A m \in info'[n].models : Routable(n, m)'
    BY <2>4, <1>3 DEF MrInv, BusyWith, Routable, Leads
  <2> QED BY <1>2, <1>3, <1>6, <2>3, <2>4, <2>5 DEF MrInv
<1>7. CASE op.kind = "register" /\ answer.ok
  <2>1. op' = [op EXCEPT !.at = "index", !.models = answer.models]
    BY <1>7 DEF ListingArrives
  <2>2. op' = [kind |-> op.kind, at |-> "index", backend |-> op.backend, name |-> op.name,
               models |-> answer.models]
    BY <2>1, OpUnderWay, <1>1
  <2>3. OpTypeOK'
    BY <2>2, <1>1, <1>7, NextStage
  <2>4. op'.at = "index" /\ op'.kind = "register" /\ op'.name = op.name
    BY <2>2, <1>7
  <2>5. \A n \in Names : ~BusyWith(n)' => \A m \in info'[n].models : Routable(n, m)'
    BY <2>4, <1>3 DEF MrInv, BusyWith, Routable, Leads
  <2> QED BY <1>2, <1>3, <1>7, <2>3, <2>4, <2>5 DEF MrInv
<1> QED BY <1>1, <1>4, <1>5, <1>6, <1>7

(* retain takes every key of the backend from the index.                   *)
LEMMA RetainPreserves == MrInv /\ Retain => MrInv'
<1> SUFFICES ASSUME MrInv, Retain PROVE MrInv'
  OBVIOUS
<1> USE DEF Stages
<1>1. /\ op.at = "retain" /\ op.kind \in {"remove", "refresh"} /\ op.name \in Names
      /\ op.models \in SUBSET ModelId /\ OpTypeOK
  <2>1. op.at = "retain" /\ OpTypeOK
    BY DEF MrInv, Retain
  <2>2. op.kind # "register"
    BY <2>1, OpUnderWay
  <2> QED BY <2>1, <2>2, OpUnderWay
<1>2. UNCHANGED <<backends, info, ports>>
  BY DEF Retain
<1>3. index' = [k \in Keys |-> IF index[k] = op.name THEN "" ELSE index[k]]
  BY DEF Retain
<1>4. RoutingTypeOK'
  BY <1>2, <1>3 DEF MrInv, RoutingTypeOK
<1> DEFINE after == IF op.kind = "remove" THEN "drop" ELSE "index"
<1>5. op' = [kind |-> op.kind, at |-> after, backend |-> op.backend, name |-> op.name,
             models |-> op.models]
  BY <1>1, OpUnderWay DEF Retain
<1>6. OpTypeOK'
  BY <1>1, <1>5, NextStage
<1>7. op'.kind = op.kind /\ op'.name = op.name /\ op'.at \in {"drop", "index"}
  BY <1>5
<1>8. ASSUME NEW n \in Names, ~BusyWith(n)', NEW m \in info'[n].models
      PROVE  Routable(n, m)'
  <2>1. n # op.name /\ m \in info[n].models /\ m \in ModelId
    BY <1>2, <1>7, <1>8 DEF BusyWith, MrInv, RoutingTypeOK
  <2>2. Routable(n, m)
    BY <2>1 DEF MrInv, BusyWith
  <2> QED BY <1>2, <1>3, <2>1, <2>2, QualifiedKeys DEF Routable, Leads
<1> QED BY <1>1, <1>2, <1>4, <1>6, <1>7, <1>8 DEF MrInv

(* Then the keys of the listed models are entered.                         *)
LEMMA IndexPreserves == MrInv /\ IndexModels => MrInv'
<1> SUFFICES ASSUME MrInv, IndexModels PROVE MrInv'
  OBVIOUS
<1> USE DEF Stages
<1>1. /\ op.at = "index" /\ op.kind \in {"register", "refresh"} /\ op.name \in Names
      /\ op.models \in SUBSET ModelId /\ OpTypeOK
  BY OpUnderWay DEF MrInv, IndexModels
<1>2. UNCHANGED <<backends, info, ports>>
  BY DEF IndexModels
<1>3. index' = [k \in Keys |-> IF k \in KeysOf(op.name, op.models) THEN op.name ELSE index[k]]
  BY DEF IndexModels, Indexed
<1>4. RoutingTypeOK'
  BY <1>1, <1>2, <1>3 DEF MrInv, RoutingTypeOK
<1>5. op' = [kind |-> op.kind, at |-> "info", backend |-> op.backend, name |-> op.name,
             models |-> op.models]
  BY <1>1, OpUnderWay DEF IndexModels
<1>6. OpTypeOK'
  BY <1>1, <1>5, NextStage
<1>7. op'.kind = op.kind /\ op'.name = op.name /\ op'.at = "info" /\ op'.models = op.models
  BY <1>5
<1>8. ASSUME NEW n \in Names, ~BusyWith(n)', NEW m \in info'[n].models
      PROVE  Routable(n, m)'
  <2>1. n # op.name /\ m \in info[n].models /\ m \in ModelId
    BY <1>2, <1>7, <1>8 DEF BusyWith, MrInv, RoutingTypeOK
  <2>2. Routable(n, m)
    BY <2>1 DEF MrInv, BusyWith
  <2> QED BY <1>1, <1>2, <1>3, <2>1, <2>2, QualifiedKeys DEF Routable, Leads
<1>9. \A m \in op.models : Qualified(op.name, m) \notin ModelId => index'[Qualified(op.name, m)] = op.name
  BY <1>1, <1>3, QualifiedKeys
<1> QED BY <1>1, <1>2, <1>4, <1>6, <1>7, <1>8, <1>9 DEF MrInv, Leads

(* What the listing becomes: nothing where the name had no info.           *)
LEMMA InfoWritten ==
    ASSUME MrInv, WriteInfo
    PROVE  /\ op.name \in Names /\ op.models \in SUBSET ModelId
           /\ RoutingTypeOK'
           /\ \A n \in Names : ~info'[n].known => info'[n].models = {}
           /\ \A n \in Names : n # op.name => info'[n] = info[n]
           /\ info'[op.name].models \subseteq op.models
           /\ op.kind = "register" => info'[op.name].models = op.models
<1>1. op.name \in Names /\ op.models \in SUBSET ModelId
  BY OpUnderWay DEF MrInv, WriteInfo
<1>2. UNCHANGED <<backends, index, ports>> /\ info \in [Names -> [known : BOOLEAN, models : SUBSET ModelId]]
  BY DEF WriteInfo, MrInv, RoutingTypeOK
<1>3. \A n \in Names : ~info[n].known => info[n].models = {}
  BY DEF MrInv
<1>4. CASE op.kind = "refresh" /\ ~info[op.name].known
  <2>1. info' = info
    BY <1>4 DEF WriteInfo
  <2>2. RoutingTypeOK'
    BY <1>2, <2>1 DEF MrInv, RoutingTypeOK
  <2> QED BY <1>1, <1>3, <1>4, <2>1, <2>2
<1>5. CASE ~(op.kind = "refresh" /\ ~info[op.name].known)
  <2>1. info' = [info EXCEPT ![op.name] = [known |-> TRUE, models |-> op.models]]
    BY <1>5 DEF WriteInfo
  <2>2. info' \in [Names -> [known : BOOLEAN, models : SUBSET ModelId]]
    BY <1>1, <1>2, <2>1
  <2>3. RoutingTypeOK'
    BY <1>2, <2>2 DEF MrInv, RoutingTypeOK
  <2>4. info'[op.name].known /\ info'[op.name].models = op.models
    BY <1>1, <1>2, <2>1
  <2>5. \A n \in Names : n # op.name => info'[n] = info[n]
    BY <1>2, <2>1
  <2> QED BY <1>1, <1>3, <2>3, <2>4, <2>5
<1> QED BY <1>4, <1>5

(* So what it shows the index finds.                                       *)
LEMMA InfoPreserves == MrInv /\ WriteInfo => MrInv'
<1> SUFFICES ASSUME MrInv, WriteInfo PROVE MrInv'
  OBVIOUS
<1> USE DEF Stages
<1>1. /\ op.at = "info" /\ OpTypeOK
      /\ \A m \in op.models : Leads(op.name, m)
  BY DEF MrInv, WriteInfo
<1>2. op.kind \in {"register", "refresh"}
  <2>1. op.kind # "remove"
    BY <1>1, OpUnderWay
  <2> QED BY <1>1, <2>1, OpUnderWay
<1>3. UNCHANGED <<backends, index, ports>>
  BY DEF WriteInfo
<1>6. ASSUME NEW n \in Names, n # op.name, NEW m \in info'[n].models
      PROVE  Routable(n, m)'
  BY <1>3, <1>6, InfoWritten DEF MrInv, BusyWith, Routable, Leads
<1>7. CASE op.kind = "refresh"
  <2>1. op' = NoOp
    BY <1>7 DEF WriteInfo
  <2>2. OpTypeOK' /\ op'.at = "idle" /\ op'.kind = "none"
    BY <2>1, OpDone
  <2>3. ASSUME NEW n \in Names, n = op.name, NEW m \in info'[n].models
        PROVE  Routable(n, m)'
    <3>1. m \in op.models
      BY <2>3, InfoWritten
    <3>2. Leads(n, m) /\ backends[n] # NoBackend
      BY <1>1, <1>7, <2>3, <3>1 DEF MrInv
    <3> QED BY <1>3, <3>2 DEF Routable, Leads
  <2> QED BY <1>6, <2>2, <2>3, InfoWritten DEF MrInv
<1>8. CASE op.kind = "register"
  <2>1. op' = [kind |-> op.kind, at |-> "store", backend |-> op.backend, name |-> op.name,
               models |-> op.models]
    BY <1>1, <1>8, OpUnderWay DEF WriteInfo
  <2>2. OpTypeOK'
    BY <1>1, <1>8, <2>1, InfoWritten, NextStage
  <2>3. op'.kind = "register" /\ op'.name = op.name /\ op'.at = "store" /\ op'.models = op.models
    BY <1>8, <2>1
  <2>4. \A n \in Names : ~BusyWith(n)' => n # op.name
    BY <2>3 DEF BusyWith
  <2> QED BY <1>1, <1>3, <1>6, <1>8, <2>2, <2>3, <2>4, InfoWritten DEF MrInv, Leads
<1> QED BY <1>2, <1>7, <1>8

(* The backend is stored last.                                             *)
LEMMA StorePreserves == MrInv /\ StoreBackend => MrInv'
<1> SUFFICES ASSUME MrInv, StoreBackend PROVE MrInv'
  OBVIOUS
<1> USE DEF Stages
<1>1. /\ op.at = "store" /\ op.name \in Names /\ OpTypeOK
      /\ \A m \in op.models : Leads(op.name, m)
      /\ info[op.name].models = op.models
  BY OpUnderWay DEF MrInv, StoreBackend
<1>2. op.backend \in AllBackends
  <2>1. op.kind # "remove"
    BY <1>1, OpUnderWay
  <2> QED BY <1>1, <2>1, OpUnderWay
<1>3. UNCHANGED <<info, index, ports>> /\ backends' = [backends EXCEPT ![op.name] = op.backend]
  BY DEF StoreBackend
<1>4. RoutingTypeOK'
  BY <1>1, <1>2, <1>3 DEF MrInv, RoutingTypeOK
<1>5. OpTypeOK' /\ op'.at = "idle" /\ op'.kind = "none"
  BY OpDone DEF StoreBackend
<1>6. \A n \in Names : \A m \in info'[n].models : Routable(n, m)'
  <2> SUFFICES ASSUME NEW n \in Names, NEW m \in info'[n].models PROVE Routable(n, m)'
    OBVIOUS
  <2>1. CASE n = op.name
    <3>1. Leads(n, m)
      BY <1>1, <1>3, <2>1
    <3>2. backends' = [backends EXCEPT ![n] = op.backend] /\ op.backend # NoBackend
      BY <1>2, <1>3, <2>1, BackendNames
    <3>3. backends'[n] # NoBackend
      BY <3>2 DEF MrInv, RoutingTypeOK
    <3> QED BY <1>3, <3>1, <3>3 DEF Routable, Leads
  <2>2. CASE n # op.name
    BY <1>3, <2>2 DEF Routable, Leads, MrInv, BusyWith, RoutingTypeOK
  <2> QED BY <2>1, <2>2
<1> QED BY <1>3, <1>4, <1>5, <1>6 DEF MrInv

(* A removal takes the backend,                                            *)
LEMMA DropPreserves == MrInv /\ DropBackend => MrInv'
<1> SUFFICES ASSUME MrInv, DropBackend PROVE MrInv'
  OBVIOUS
<1> USE DEF Stages
<1>1. /\ op.at = "drop" /\ op.name \in Names /\ OpTypeOK /\ op.models \in SUBSET ModelId
  BY OpUnderWay DEF MrInv, DropBackend
<1>2. op.kind = "remove"
  BY <1>1, OpUnderWay
<1>3. UNCHANGED <<info, index, ports>> /\ backends' = [backends EXCEPT ![op.name] = NoBackend]
  BY DEF DropBackend
<1>4. RoutingTypeOK'
  BY <1>1, <1>3 DEF MrInv, RoutingTypeOK
<1>5. op' = [kind |-> op.kind, at |-> "dropinfo", backend |-> op.backend, name |-> op.name,
             models |-> op.models]
  BY <1>1, OpUnderWay DEF DropBackend
<1>6. OpTypeOK'
  BY <1>1, <1>2, <1>5, NextStage
<1>7. op'.kind = "remove" /\ op'.name = op.name /\ op'.at = "dropinfo"
  BY <1>2, <1>5
<1>8. ASSUME NEW n \in Names, ~BusyWith(n)', NEW m \in info'[n].models
      PROVE  Routable(n, m)'
  <2>1. n # op.name /\ m \in info[n].models
    BY <1>3, <1>7, <1>8 DEF BusyWith
  <2> QED BY <1>3, <2>1 DEF Routable, Leads, MrInv, BusyWith, RoutingTypeOK
<1> QED BY <1>3, <1>4, <1>6, <1>7, <1>8 DEF MrInv

(* then its info.                                                          *)
LEMMA DropInfoPreserves == MrInv /\ DropInfo => MrInv'
<1> SUFFICES ASSUME MrInv, DropInfo PROVE MrInv'
  OBVIOUS
<1>1. op.name \in Names
  BY OpUnderWay DEF MrInv, DropInfo
<1>2. /\ UNCHANGED <<backends, index, ports>>
      /\ info' = [info EXCEPT ![op.name] = [known |-> FALSE, models |-> {}]]
  BY DEF DropInfo
<1>3. RoutingTypeOK'
  BY <1>1, <1>2 DEF MrInv, RoutingTypeOK
<1>6. \A n \in Names : ~info'[n].known => info'[n].models = {}
  BY <1>1, <1>2 DEF MrInv, RoutingTypeOK
<1>4. OpTypeOK' /\ op'.at = "idle" /\ op'.kind = "none"
  BY OpDone DEF DropInfo
<1>5. ASSUME NEW n \in Names, NEW m \in info'[n].models
      PROVE  Routable(n, m)'
  <2>1. n # op.name /\ m \in info[n].models
    BY <1>1, <1>2, <1>5 DEF MrInv, RoutingTypeOK
  <2> QED BY <1>2, <2>1 DEF Routable, Leads, MrInv, BusyWith
<1> QED BY <1>2, <1>3, <1>4, <1>5, <1>6 DEF MrInv

(* A prompt touches nothing of the registry.                               *)
LEMMA RequestPreserves ==
    ASSUME MrInv, UNCHANGED <<backends, info, index, ports, op>>
    PROVE  MrInv'
<1>1. RoutingTypeOK'
  BY DEF MrInv, RoutingTypeOK
<1>2. OpTypeOK'
  BY DEF MrInv, OpTypeOK
<1>3. \A n \in Names : ~BusyWith(n)' => \A m \in info'[n].models : Routable(n, m)'
  BY DEF MrInv, BusyWith, Routable, Leads
<1> QED BY <1>1, <1>2, <1>3 DEF MrInv, Leads

(* Every step preserves the invariant.                                     *)
LEMMA MrStepInv == MrInv /\ [MrNext]_mrvars => MrInv'
<1> SUFFICES ASSUME MrInv, [MrNext]_mrvars PROVE MrInv'
  OBVIOUS
<1>1. ASSUME NEW p \in Port, NEW kind \in {"ollama", "openai", "none"}, Probe(p, kind)
      PROVE  MrInv'
  BY <1>1, ProbePreserves
<1>2. ASSUME NEW b \in ByHand, Register(b) PROVE MrInv'
  BY <1>2, RegisterPreserves
<1>3. ASSUME NEW n \in Names, Refresh(n) PROVE MrInv'
  BY <1>3, RefreshPreserves
<1>4. ASSUME NEW n \in Names, RemoveBackend(n) PROVE MrInv'
  BY <1>4, RemovePreserves
<1>5. CASE OpStep
  BY <1>5, ListingPreserves, RetainPreserves, IndexPreserves, InfoPreserves, StorePreserves,
     DropPreserves, DropInfoPreserves DEF OpStep
<1>6. ASSUME NEW a \in Asker, Reply(a) PROVE MrInv'
  BY <1>6, RequestPreserves DEF Reply
<1>7. ASSUME NEW a \in Asker, NEW k \in Keys, Ask(a, k) PROVE MrInv'
  BY <1>7, RequestPreserves DEF Ask
<1>8. CASE UNCHANGED mrvars
  BY <1>8, RequestPreserves DEF mrvars
<1> QED BY <1>1, <1>2, <1>3, <1>4, <1>5, <1>6, <1>7, <1>8 DEF MrNext

(* The invariant holds of every behaviour.                                 *)
LEMMA MrInvCorrect == MrSpec => []MrInv
BY MrInitInv, MrStepInv, PTL DEF MrSpec

(* The registry's three maps and the operation under way keep their kinds  *)
(* (registry.rs:11-90).                                                    *)
THEOREM RoutingTypeCorrect == MrSpec => []RoutingTypeOK
<1>1. MrInv => RoutingTypeOK
  BY DEF MrInv
<1> QED BY <1>1, MrInvCorrect, PTL

(* A model shown of a backend is one the router finds under its full name, *)
(* except while that backend is being changed, unless some server lists    *)
(* that name as a bare id of its own: no order of registrations,           *)
(* refreshes, removals and failing listings leaves one behind              *)
(* (registry.rs:31-102, 150-180).                                          *)
THEOREM RoutableCorrect == MrSpec => []ShownIsRoutable
<1>1. MrInv => ShownIsRoutable
  <2> SUFFICES ASSUME MrInv, NEW n \in Names, NEW m \in ModelId, m \in info[n].models, op.name # n,
                      Qualified(n, m) \notin ModelId
               PROVE  index[Qualified(n, m)] = n /\ FindBackend(Qualified(n, m)) # NoBackend
    BY DEF ShownIsRoutable
  <2>1. Routable(n, m)
    BY DEF MrInv, BusyWith
  <2> QED BY <2>1, BackendNames DEF Routable, Leads, FindBackend
<1> QED BY <1>1, MrInvCorrect, PTL

-----------------------------------------------------------------------------
(* The setup wizard, for any environments and agents found in them.        *)

(* The environments there are.                                             *)
WizardEnv == Remote \cup {Local[j] : j \in DOMAIN Local}
RowType == [bin : Present, env : WizardEnv, selected : BOOLEAN]
(* The manifests of the agents ticked.                                     *)
Picked == {Manifest(agentRows[i]) : i \in {j \in DOMAIN agentRows : agentRows[j].selected}}
(* An environment picked.                                                  *)
Targeted(e) == \E i \in DOMAIN targets : targets[i] = e
Screens == {"start", "local", "ssh", "scan", "pick", "write", "over", "exited", "failed"}

(* What the wizard holds of environments and agents.                       *)
RowsOK ==
  /\ targets \in Seq(WizardEnv) /\ unscanned \in Seq(WizardEnv) /\ agentRows \in Seq(RowType)
  /\ \A i \in DOMAIN unscanned : Targeted(unscanned[i])
  /\ \A i \in DOMAIN agentRows : Targeted(agentRows[i].env)
  /\ screen \in {"start", "local", "ssh", "exited"} => unscanned = <<>> /\ agentRows = <<>>

(* Where the wizard stands.                                                *)
ScreenOK ==
  /\ screen \in Screens /\ terminal \in {"cooked", "raw"}
  /\ screen = "local" => caret \in DOMAIN Detected /\ ticked \in [DOMAIN Detected -> BOOLEAN]
  /\ screen = "pick" => caret \in DOMAIN agentRows

(* A file the wizard has written, and has not written over since.          *)
HasNew(name) == \E g \in written : g \in disk /\ g.name = name

(* What it has written, and what it has yet to write.                      *)
WritingOK ==
  /\ \A f \in written : f \in Picked \/ (screen = "failed" /\ \E g \in Picked : f = Half(g))
  /\ disk \subseteq before \cup written
  /\ \A f \in before : f \in disk \/ HasNew(f.name)
  /\ screen \notin {"write", "over", "failed"} => written = {} /\ unwritten = <<>>
  /\ Picked # {} /\ screen \in {"write", "over", "failed"} => confirmed
  /\ unwritten \in Seq(RowType)
  /\ \A i \in DOMAIN unwritten : \E j \in DOMAIN agentRows : agentRows[j] = unwritten[i]
  /\ screen = "write" =>
       \A j \in DOMAIN agentRows : agentRows[j].selected =>
         \/ \E i \in DOMAIN unwritten : unwritten[i] = agentRows[j]
         \/ HasNew(ManifestName(agentRows[j]))
  /\ screen = "over" => \A j \in DOMAIN agentRows : agentRows[j].selected =>
                           HasNew(ManifestName(agentRows[j]))

(* The inductive invariant.                                                *)
SuInv == RowsOK /\ ScreenOK /\ WritingOK

(* The machine's environments begin with its native one (setup.rs:50-56).  *)
LEMMA LocalEnvs == Local \in Seq(WizardEnv) /\ 1 \in DOMAIN Local /\ Local[1].kind # "wsl"
BY SetupAssumption DEF WizardEnv

(* The native environment is always there to be picked.                    *)
LEMMA DetectedSome == Detected \in Seq(WizardEnv) /\ 1 \in DOMAIN Detected
<1> DEFINE I == {i \in DOMAIN Local : Local[i].kind # "wsl" \/ os = "windows"}
<1>1. I \in SUBSET DOMAIN Local /\ 1 \in I
  BY LocalEnvs
<1>2. Detected = Selected(Local, I)
  BY DEF Detected
<1> HIDE DEF I
<1>3. /\ Selected(Local, I) \in Seq(WizardEnv)
      /\ \A i \in I : \E k \in DOMAIN Selected(Local, I) : PlaceOf(I, k) = i
  <2>1. Local \in Seq(WizardEnv)
    BY LocalEnvs
  <2> QED
    BY <1>1, <2>1, SelectedKeeps
<1>4. DOMAIN Detected # {}
  BY <1>1, <1>2, <1>3
<1> QED BY <1>2, <1>3, <1>4

(* The invariant holds at the start.                                       *)
LEMMA SuInitInv == SuInit => SuInv
BY DEF SuInit, SuInv, RowsOK, ScreenOK, WritingOK, Screens, Picked, HasNew

(* Before anything is picked nothing is written, nor about to be.          *)
LEMMA Unwritten ==
  ASSUME WritingOK, screen \notin {"write", "over", "failed"},
         UNCHANGED <<unwritten, disk, before, written>>, screen' \notin {"write", "over", "failed"}
  PROVE  WritingOK'
<1>1. written = {} /\ unwritten = <<>> /\ disk \subseteq before /\ before \subseteq disk
  BY DEF WritingOK, HasNew
<1> QED BY <1>1 DEF WritingOK

(* The wizard starts,                                                      *)
LEMMA WizardStarts == SuInv /\ (\E want \in BOOLEAN : StartWizard(want)) /\ UNCHANGED before => SuInv'
<1> SUFFICES ASSUME SuInv, NEW want \in BOOLEAN, StartWizard(want), UNCHANGED before PROVE SuInv'
  OBVIOUS
<1>1. /\ screen = "start" /\ screen' = "local" /\ terminal' = "raw" /\ caret' = 1
      /\ ticked' = [i \in DOMAIN Detected |-> TRUE]
      /\ UNCHANGED <<os, targets, unscanned, agentRows, unwritten, disk, confirmed, written>>
  BY DEF StartWizard
<1>2. Detected' = Detected
  BY <1>1 DEF Detected
<1>3. RowsOK'
  BY <1>1 DEF SuInv, RowsOK, Targeted
<1>4. ScreenOK'
  BY <1>1, <1>2, DetectedSome DEF ScreenOK, Screens
<1>5. WritingOK'
  BY <1>1, Unwritten DEF SuInv
<1> QED BY <1>3, <1>4, <1>5 DEF SuInv

(* ticks an environment                                                    *)
LEMMA LocalKeyPreserves == SuInv /\ LocalKey /\ UNCHANGED before => SuInv'
<1> SUFFICES ASSUME SuInv, LocalKey, UNCHANGED before PROVE SuInv'
  OBVIOUS
<1>1. /\ screen = "local"
      /\ UNCHANGED <<screen, terminal, os, targets, unscanned, agentRows, unwritten, disk,
                     confirmed, written>>
  BY DEF LocalKey
<1>2. Detected' = Detected /\ Len(Detected) \in Nat /\ DOMAIN Detected = 1..Len(Detected)
  BY <1>1, DetectedSome DEF Detected
<1>3. caret' \in DOMAIN Detected /\ ticked' \in [DOMAIN Detected -> BOOLEAN]
  <2>1. caret \in DOMAIN Detected /\ ticked \in [DOMAIN Detected -> BOOLEAN]
    BY <1>1 DEF SuInv, ScreenOK
  <2>2. CASE MoveCaret(Len(Detected)) /\ UNCHANGED ticked
    BY <1>2, <2>1, <2>2 DEF MoveCaret
  <2>3. CASE ticked' = [ticked EXCEPT ![caret] = ~@] /\ UNCHANGED caret
    <3>1. (~ticked[caret]) \in BOOLEAN
      OBVIOUS
    <3>2. ticked' = [ticked EXCEPT ![caret] = ~ticked[caret]]
      BY <2>3
    <3> QED BY <2>1, <2>3, <3>1, <3>2
  <2> QED BY <2>2, <2>3 DEF LocalKey
<1>4. RowsOK'
  BY <1>1 DEF SuInv, RowsOK, Targeted
<1>5. ScreenOK'
  BY <1>1, <1>2, <1>3 DEF SuInv, ScreenOK
<1>6. WritingOK'
  BY <1>1, Unwritten DEF SuInv
<1> QED BY <1>4, <1>5, <1>6 DEF SuInv

(* and takes those ticked, or leaves.                                      *)
LEMMA LeaveLocalPreserves == SuInv /\ (\E key \in {"enter", "esc"} : LeaveLocal(key)) /\ UNCHANGED before => SuInv'
<1> SUFFICES ASSUME SuInv, NEW key \in {"enter", "esc"}, LeaveLocal(key), UNCHANGED before PROVE SuInv'
  OBVIOUS
<1>1. /\ screen = "local" /\ screen' = "ssh"
      /\ targets' = IF key = "enter" THEN Chosen(ticked, Detected) ELSE <<>>
      /\ UNCHANGED <<terminal, os, ticked, caret, unscanned, agentRows, unwritten, disk,
                     confirmed, written>>
      /\ unscanned = <<>> /\ agentRows = <<>>
  BY DEF LeaveLocal, SuInv, RowsOK
<1>2. Chosen(ticked, Detected) \in Seq(WizardEnv)
  <2> DEFINE I == {i \in DOMAIN Detected : ticked[i]}
  <2>1. I \in SUBSET DOMAIN Detected
    OBVIOUS
  <2>2. Chosen(ticked, Detected) = Selected(Detected, I)
    BY DEF Chosen
  <2> HIDE DEF I
  <2>3. Selected(Detected, I) \in Seq(WizardEnv)
    BY <2>1, DetectedSome, SelectedKeeps
  <2> QED BY <2>2, <2>3
<1>3. RowsOK'
  BY <1>1, <1>2 DEF SuInv, RowsOK
<1>4. ScreenOK'
  BY <1>1 DEF SuInv, ScreenOK, Screens
<1>5. WritingOK'
  BY <1>1, Unwritten DEF SuInv
<1> QED BY <1>3, <1>4, <1>5 DEF SuInv

(* Remote environments are added to them.                                  *)
LEMMA SshPreserves ==
  SuInv /\ ((\E e \in Remote : AddRemote(e)) \/ LeaveSsh \/ ExitFromSsh) /\ UNCHANGED before => SuInv'
<1> SUFFICES ASSUME SuInv, (\E e \in Remote : AddRemote(e)) \/ LeaveSsh \/ ExitFromSsh,
                    UNCHANGED before
             PROVE  SuInv'
  OBVIOUS
<1>1. /\ screen = "ssh" /\ screen' \in {"ssh", "scan", "exited"} /\ terminal' \in {"cooked", "raw"}
      /\ UNCHANGED <<agentRows, unwritten, disk, written>>
      /\ unscanned = <<>> /\ agentRows = <<>>
  BY DEF AddRemote, LeaveSsh, ExitFromSsh, SuInv, RowsOK, ScreenOK
<1>2. RowsOK'
  <2>1. CASE LeaveSsh
    BY <1>1, <2>1 DEF LeaveSsh, SuInv, RowsOK, Targeted
  <2>2. CASE ExitFromSsh
    BY <1>1, <2>2 DEF ExitFromSsh, SuInv, RowsOK
  <2>3. ASSUME NEW e \in Remote, AddRemote(e) PROVE RowsOK'
    <3>1. targets' \in Seq(WizardEnv) /\ unscanned' = unscanned /\ screen' = "ssh"
      BY <2>3 DEF AddRemote, SuInv, RowsOK, WizardEnv
    <3> QED BY <1>1, <3>1 DEF SuInv, RowsOK
  <2> QED BY <2>1, <2>2, <2>3
<1>3. ScreenOK'
  BY <1>1 DEF ScreenOK, Screens
<1>4. WritingOK'
  BY <1>1, Unwritten DEF SuInv
<1> QED BY <1>2, <1>3, <1>4 DEF SuInv

(* A scan finds rows of its own environment.                               *)
LEMMA FoundRows ==
  ASSUME NEW e \in WizardEnv, NEW bins \in SUBSET Present
  PROVE  /\ Found(e, bins) \in Seq(RowType)
         /\ \A i \in DOMAIN Found(e, bins) : Found(e, bins)[i].env = e
<1> DEFINE I == {i \in DOMAIN KnownAgents : KnownAgents[i] \in bins}
           here == Selected(KnownAgents, I)
<1>1. /\ Len(KnownAgents) \in Nat /\ I \in SUBSET (1..Len(KnownAgents))
      /\ \A i \in I : KnownAgents[i] \in Present
  BY SetupAssumption
<1>2. Found(e, bins) = [i \in DOMAIN here |-> [bin |-> here[i], env |-> e, selected |-> FALSE]]
  BY DEF Found
<1> HIDE DEF I
<1>3. Cardinality(I) \in Nat /\ \A k \in 1..Cardinality(I) : PlaceOf(I, k) \in I
  <2>1. I \in SUBSET Nat /\ IsFiniteSet(I)
    BY <1>1, PlacesFinite
  <2> QED BY <2>1, Places
<1>4. /\ DOMAIN here = 1..Cardinality(I)
      /\ \A k \in 1..Cardinality(I) : here[k] = KnownAgents[PlaceOf(I, k)]
  BY DEF Selected
<1>5. \A k \in DOMAIN here : here[k] \in Present
  BY <1>1, <1>3, <1>4
<1> HIDE DEF here
<1>6. \A k \in DOMAIN here : [bin |-> here[k], env |-> e, selected |-> FALSE] \in RowType
  BY <1>5 DEF RowType
<1>7. Found(e, bins) \in [1..Cardinality(I) -> RowType]
  BY <1>2, <1>4, <1>6
<1>8. Found(e, bins) \in Seq(RowType)
  BY <1>3, <1>7
<1> QED BY <1>2, <1>8

(* It adds them to the others',                                            *)
LEMMA ScanTargetPreserves == SuInv /\ (\E bins \in SUBSET Present : ScanTarget(bins)) /\ UNCHANGED before => SuInv'
<1> SUFFICES ASSUME SuInv, NEW bins \in SUBSET Present, ScanTarget(bins), UNCHANGED before PROVE SuInv'
  OBVIOUS
<1> DEFINE e == Head(unscanned)
           new == Found(e, bins)
<1>1. /\ screen = "scan" /\ screen' = "scan" /\ unscanned # <<>>
      /\ agentRows' = agentRows \o new /\ unscanned' = Tail(unscanned)
      /\ UNCHANGED <<terminal, os, ticked, caret, targets, unwritten, disk, confirmed, written>>
      /\ unscanned \in Seq(WizardEnv) /\ agentRows \in Seq(RowType)
  BY DEF ScanTarget, SuInv, RowsOK
<1>2. e \in WizardEnv /\ Targeted(e)
  BY <1>1 DEF SuInv, RowsOK
<1>3. new \in Seq(RowType) /\ \A i \in DOMAIN new : new[i].env = e
  BY <1>2, FoundRows
<1> HIDE DEF new, e
<1>4. agentRows' \in Seq(RowType)
  BY <1>1, <1>3
<1>5. \A i \in DOMAIN agentRows' : Targeted(agentRows'[i].env)
  <2> TAKE i \in DOMAIN agentRows'
  <2>1. CASE i \in DOMAIN agentRows
    BY <1>1, <1>3, <2>1 DEF SuInv, RowsOK
  <2>2. CASE i \notin DOMAIN agentRows
    <3>1. i - Len(agentRows) \in DOMAIN new /\ agentRows'[i] = new[i - Len(agentRows)]
      BY <1>1, <1>3, <2>2
    <3> QED BY <1>2, <1>3, <3>1
  <2> QED BY <2>1, <2>2
<1>6. /\ Tail(unscanned) \in Seq(WizardEnv)
      /\ \A i \in DOMAIN Tail(unscanned) : i + 1 \in DOMAIN unscanned /\ Tail(unscanned)[i] = unscanned[i + 1]
  BY <1>1
<1>7. \A i \in DOMAIN unscanned' : Targeted(unscanned'[i])
  BY <1>1, <1>6 DEF SuInv, RowsOK
<1>8. RowsOK'
  BY <1>1, <1>4, <1>5, <1>6, <1>7 DEF SuInv, RowsOK, Targeted
<1>9. ScreenOK'
  BY <1>1 DEF SuInv, ScreenOK
<1>10. WritingOK'
  BY <1>1, Unwritten DEF SuInv
<1> QED BY <1>8, <1>9, <1>10 DEF SuInv

(* until no environment is left.                                           *)
LEMMA ScanOverPreserves == SuInv /\ ScanOver /\ UNCHANGED before => SuInv'
<1> SUFFICES ASSUME SuInv, ScanOver, UNCHANGED before PROVE SuInv'
  OBVIOUS
<1>1. /\ screen = "scan" /\ caret' = 1
      /\ UNCHANGED <<os, ticked, targets, unscanned, agentRows, unwritten, disk, confirmed, written>>
      /\ agentRows \in Seq(RowType)
  BY DEF ScanOver, SuInv, RowsOK
<1>2. RowsOK'
  BY <1>1 DEF ScanOver, SuInv, RowsOK, Targeted
<1>3. CASE agentRows = <<>>
  <2>1. screen' = "over" /\ terminal' = terminal
    BY <1>3 DEF ScanOver
  <2>2. ScreenOK'
    BY <2>1 DEF SuInv, ScreenOK, Screens
  <2>3. Picked' = {} /\ written' = {} /\ unwritten' = <<>>
        /\ disk' \subseteq before' /\ before' \subseteq disk'
    BY <1>1, <1>3 DEF SuInv, WritingOK, Picked, HasNew
  <2>4. DOMAIN agentRows' = {}
    BY <1>1, <1>3
  <2>5. WritingOK'
    BY <2>1, <2>3, <2>4 DEF WritingOK
  <2> QED BY <1>2, <2>2, <2>5 DEF SuInv
<1>4. CASE agentRows # <<>>
  <2>1. screen' = "pick" /\ terminal' = "raw"
    BY <1>4 DEF ScanOver
  <2>2. 1 \in DOMAIN agentRows
    BY <1>1, <1>4
  <2>3. ScreenOK'
    BY <1>1, <2>1, <2>2 DEF ScreenOK, Screens
  <2>4. WritingOK'
    BY <1>1, <2>1, Unwritten DEF SuInv
  <2> QED BY <1>2, <2>3, <2>4 DEF SuInv
<1> QED BY <1>3, <1>4

(* Ticking agents or none changes nothing else about them.                 *)
LEMMA SetAllRows ==
  ASSUME agentRows \in Seq(RowType), NEW b \in BOOLEAN
  PROVE  /\ SetAll(agentRows, b) \in Seq(RowType)
         /\ DOMAIN SetAll(agentRows, b) = DOMAIN agentRows
         /\ \A i \in DOMAIN agentRows : /\ SetAll(agentRows, b)[i].env = agentRows[i].env
                                        /\ SetAll(agentRows, b)[i].selected = b
<1>1. SetAll(agentRows, b) = [i \in DOMAIN agentRows |-> [agentRows[i] EXCEPT !.selected = b]]
  BY DEF SetAll
<1>2. \A i \in DOMAIN agentRows :
        LET r == [agentRows[i] EXCEPT !.selected = b]
        IN  r \in RowType /\ r.env = agentRows[i].env /\ r.selected = b
  <2> TAKE i \in DOMAIN agentRows
  <2>1. agentRows[i] \in RowType
    OBVIOUS
  <2> QED BY <2>1 DEF RowType
<1>3. DOMAIN agentRows = 1..Len(agentRows) /\ Len(agentRows) \in Nat
  OBVIOUS
<1>4. SetAll(agentRows, b) \in [1..Len(agentRows) -> RowType]
  BY <1>1, <1>2, <1>3
<1>5. SetAll(agentRows, b) \in Seq(RowType)
  BY <1>3, <1>4
<1> QED BY <1>1, <1>2, <1>5

(* A key in the list ticks one, all or none.                               *)
LEMMA PickKeyPreserves == SuInv /\ PickKey /\ UNCHANGED before => SuInv'
<1> SUFFICES ASSUME SuInv, PickKey, UNCHANGED before PROVE SuInv'
  OBVIOUS
<1>1. /\ screen = "pick" /\ caret \in DOMAIN agentRows
      /\ UNCHANGED <<screen, terminal, os, ticked, targets, unscanned, unwritten, disk, confirmed,
                     written>>
      /\ agentRows \in Seq(RowType) /\ DOMAIN agentRows = 1..Len(agentRows) /\ Len(agentRows) \in Nat
  BY DEF PickKey, SuInv, RowsOK, ScreenOK
<1>2. /\ agentRows' \in Seq(RowType) /\ DOMAIN agentRows' = DOMAIN agentRows
      /\ caret' \in DOMAIN agentRows
      /\ \A i \in DOMAIN agentRows : agentRows'[i].env = agentRows[i].env
  <2>1. CASE MoveCaret(Len(agentRows)) /\ UNCHANGED agentRows
    BY <1>1, <2>1 DEF MoveCaret
  <2>2. CASE agentRows' = [agentRows EXCEPT ![caret].selected = ~@] /\ UNCHANGED caret
    <3>1. agentRows[caret] \in RowType /\ (~agentRows[caret].selected) \in BOOLEAN
      BY <1>1
    <3>2. [agentRows[caret] EXCEPT !.selected = ~agentRows[caret].selected] \in RowType
      BY <3>1 DEF RowType
    <3>3. agentRows' = [agentRows EXCEPT ![caret] = [agentRows[caret] EXCEPT !.selected = ~agentRows[caret].selected]]
      BY <1>1, <2>2
    <3>4. [agentRows[caret] EXCEPT !.selected = ~agentRows[caret].selected].env = agentRows[caret].env
      BY <3>1 DEF RowType
    <3> HIDE DEF RowType
    <3> QED BY <1>1, <2>2, <3>2, <3>3, <3>4
  <2>3. ASSUME NEW b \in BOOLEAN, agentRows' = SetAll(agentRows, b), UNCHANGED caret
        PROVE  /\ agentRows' \in Seq(RowType) /\ DOMAIN agentRows' = DOMAIN agentRows
               /\ caret' \in DOMAIN agentRows
               /\ \A i \in DOMAIN agentRows : agentRows'[i].env = agentRows[i].env
    BY <1>1, <2>3, SetAllRows
  <2>4. (\E i \in DOMAIN agentRows : ~agentRows[i].selected) \in BOOLEAN
    OBVIOUS
  <2> QED BY <2>1, <2>2, <2>3, <2>4 DEF PickKey
<1>3. RowsOK'
  BY <1>1, <1>2 DEF SuInv, RowsOK, Targeted
<1>4. ScreenOK'
  BY <1>1, <1>2 DEF SuInv, ScreenOK
<1>5. WritingOK'
  BY <1>1, Unwritten DEF SuInv
<1> QED BY <1>3, <1>4, <1>5 DEF SuInv

(* Then the ticked ones are to be written,                                 *)
LEMMA LeavePickPreserves == SuInv /\ (\E key \in {"enter", "esc"} : LeavePick(key)) /\ UNCHANGED before => SuInv'
<1> SUFFICES ASSUME SuInv, NEW key \in {"enter", "esc"}, LeavePick(key), UNCHANGED before PROVE SuInv'
  OBVIOUS
<1>1. /\ screen = "pick" /\ screen' = "write" /\ terminal' = "cooked"
      /\ agentRows' = TicksKept(key) /\ unwritten' = TicksKept(key) /\ confirmed' = (key = "enter")
      /\ UNCHANGED <<os, ticked, caret, targets, unscanned, disk, written>>
      /\ agentRows \in Seq(RowType)
  BY DEF LeavePick, SuInv, RowsOK
<1>2. /\ agentRows' \in Seq(RowType) /\ DOMAIN agentRows' = DOMAIN agentRows
      /\ \A i \in DOMAIN agentRows : agentRows'[i].env = agentRows[i].env
      /\ key # "enter" => \A i \in DOMAIN agentRows : agentRows'[i].selected = FALSE
  BY <1>1, SetAllRows DEF TicksKept
<1>3. RowsOK'
  BY <1>1, <1>2 DEF SuInv, RowsOK, Targeted
<1>4. ScreenOK'
  BY <1>1 DEF ScreenOK, Screens
<1>5. Picked' # {} => confirmed'
  BY <1>1, <1>2 DEF Picked
<1>6. WritingOK'
  <2>1. written' = {} /\ disk' \subseteq before' /\ before' \subseteq disk'
    BY <1>1 DEF SuInv, WritingOK, HasNew
  <2>2. unwritten' = agentRows'
    BY <1>1
  <2>3. \A i \in DOMAIN unwritten' : \E k \in DOMAIN agentRows' : agentRows'[k] = unwritten'[i]
    BY <2>2
  <2>4. \A k \in DOMAIN agentRows' : \E i \in DOMAIN unwritten' : unwritten'[i] = agentRows'[k]
    BY <2>2
  <2> QED BY <1>1, <1>2, <1>5, <2>1, <2>2, <2>3, <2>4 DEF WritingOK
<1> QED BY <1>3, <1>4, <1>6 DEF SuInv

(* one after the other, each once, or the write fails                      *)
LEMMA WriteManifestPreserves ==
  SuInv /\ (\E outcome \in {"written", "torn", "refused"} : WriteManifest(outcome)) /\ UNCHANGED before
    => SuInv'
<1> SUFFICES ASSUME SuInv, NEW outcome \in {"written", "torn", "refused"}, WriteManifest(outcome),
                    UNCHANGED before
             PROVE  SuInv'
  OBVIOUS
<1>1. PICK a : a = Head(unwritten)
  OBVIOUS
<1>2. /\ screen = "write" /\ unwritten # <<>> /\ unwritten \in Seq(RowType)
      /\ unwritten' = Tail(unwritten)
      /\ UNCHANGED <<terminal, os, ticked, caret, targets, unscanned, agentRows, confirmed>>
      /\ \/ ~a.selected /\ UNCHANGED <<disk, written, screen>>
         \/ a.selected /\ screen' = "write" /\ Replace(Manifest(a))
         \/ a.selected /\ screen' = "failed" /\ Replace(Half(Manifest(a)))
         \/ a.selected /\ screen' = "failed" /\ UNCHANGED <<disk, written>>
  <2>1. /\ screen = "write" /\ unwritten # <<>> /\ unwritten \in Seq(RowType)
        /\ unwritten' = Tail(unwritten)
        /\ UNCHANGED <<terminal, os, ticked, caret, targets, unscanned, agentRows, confirmed>>
    BY DEF WriteManifest, SuInv, WritingOK
  <2>2. \/ ~a.selected /\ UNCHANGED <<disk, written, screen>>
        \/ a.selected /\ Replace(Manifest(a)) /\ screen' = screen
        \/ a.selected /\ Replace(Half(Manifest(a))) /\ screen' = "failed"
        \/ a.selected /\ UNCHANGED <<disk, written>> /\ screen' = "failed"
    <3>1. \/ ~Head(unwritten).selected /\ UNCHANGED <<disk, written, screen>>
          \/ Head(unwritten).selected /\ Replace(Manifest(Head(unwritten))) /\ UNCHANGED screen
          \/ Head(unwritten).selected /\ Replace(Half(Manifest(Head(unwritten)))) /\ screen' = "failed"
          \/ Head(unwritten).selected /\ UNCHANGED <<disk, written>> /\ screen' = "failed"
      BY Zenon DEF WriteManifest
    <3> QED BY <1>1, <3>1
  <2> QED BY <2>1, <2>2
<1>3. /\ a = unwritten[1] /\ a \in RowType /\ 1 \in DOMAIN unwritten
      /\ Tail(unwritten) \in Seq(RowType)
      /\ \A i \in DOMAIN Tail(unwritten) : i + 1 \in DOMAIN unwritten /\ Tail(unwritten)[i] = unwritten[i + 1]
      /\ \A i \in DOMAIN unwritten : i # 1 => i - 1 \in DOMAIN Tail(unwritten) /\ Tail(unwritten)[i - 1] = unwritten[i]
  BY <1>1, <1>2
<1>4. RowsOK'
  BY <1>2 DEF SuInv, RowsOK, Targeted
<1>5. ScreenOK' /\ screen' \in {"write", "failed"}
  BY <1>2 DEF SuInv, ScreenOK, Screens
<1>6. PICK j0 \in DOMAIN agentRows : agentRows[j0] = a
  BY <1>2, <1>3 DEF SuInv, WritingOK
<1>7. Manifest(a).name = ManifestName(a) /\ Half(Manifest(a)).name = ManifestName(a)
  BY DEF Manifest, Half
<1>8. Picked' = Picked
  BY <1>2 DEF Picked
<1>9. a.selected => Manifest(a) \in Picked
  BY <1>6 DEF Picked
<1>10. \/ UNCHANGED <<disk, written>>
       \/ \E f : /\ a.selected /\ f.name = ManifestName(a)
                 /\ f = Manifest(a) \/ (screen' = "failed" /\ f = Half(Manifest(a)))
                 /\ disk' = {g \in disk : g.name # f.name} \cup {f}
                 /\ written' = written \cup {f}
  <2>1. CASE a.selected /\ Replace(Manifest(a))
    BY <1>7, <2>1, Zenon DEF Replace
  <2>2. CASE a.selected /\ screen' = "failed" /\ Replace(Half(Manifest(a)))
    BY <1>7, <2>2, Zenon DEF Replace
  <2> QED BY <1>2, <2>1, <2>2
<1>11. /\ \A f \in written' : f \in Picked' \/ (screen' = "failed" /\ \E g \in Picked' : f = Half(g))
       /\ disk' \subseteq before' \cup written'
  BY <1>2, <1>8, <1>9, <1>10 DEF SuInv, WritingOK
<1>12. \A name : HasNew(name) => HasNew(name)'
  BY <1>10 DEF HasNew
<1>13. \A f \in before' : f \in disk' \/ HasNew(f.name)'
  <2> TAKE f \in before'
  <2>1. f \in before /\ (f \in disk \/ HasNew(f.name))
    BY DEF SuInv, WritingOK
  <2>2. CASE HasNew(f.name)
    BY <1>12, <2>2
  <2>3. CASE f \in disk
    BY <1>10, <2>3 DEF HasNew
  <2> QED BY <2>1, <2>2, <2>3
<1>14. Picked' # {} => confirmed'
  BY <1>2, <1>8 DEF SuInv, WritingOK
<1>15. \A i \in DOMAIN unwritten' : \E k \in DOMAIN agentRows' : agentRows'[k] = unwritten'[i]
  <2> TAKE i \in DOMAIN unwritten'
  <2>1. i + 1 \in DOMAIN unwritten /\ unwritten'[i] = unwritten[i + 1]
    BY <1>2, <1>3
  <2>2. \E k \in DOMAIN agentRows : agentRows[k] = unwritten[i + 1]
    BY <2>1 DEF SuInv, WritingOK
  <2> QED BY <1>2, <2>1, <2>2
<1>16. ASSUME NEW k \in DOMAIN agentRows, agentRows[k].selected, screen' = "write"
       PROVE  \/ \E i \in DOMAIN unwritten' : unwritten'[i] = agentRows'[k]
              \/ HasNew(ManifestName(agentRows[k]))'
  <2>0. agentRows' = agentRows
    BY <1>2
  <2>1. CASE agentRows[k] = a
    <3>1. Replace(Manifest(a))
      BY <1>2, <1>16, <2>1
    <3>2. Manifest(a) \in written' /\ Manifest(a) \in disk'
      BY <3>1 DEF Replace
    <3>3. Manifest(a).name = ManifestName(agentRows'[k])
      BY <1>7, <2>0, <2>1
    <3> QED BY <3>2, <3>3, Zenon DEF HasNew
  <2>2. ASSUME NEW i \in DOMAIN unwritten, unwritten[i] = agentRows[k], agentRows[k] # a
        PROVE  \E m \in DOMAIN unwritten' : unwritten'[m] = agentRows'[k]
    <3>1. i # 1
      BY <1>3, <2>2
    <3>2. i - 1 \in DOMAIN unwritten' /\ unwritten'[i - 1] = unwritten[i]
      BY <1>2, <1>3, <3>1
    <3> QED BY <2>0, <2>2, <3>2
  <2>3. CASE HasNew(ManifestName(agentRows[k]))
    BY <1>10, <2>0, <2>3 DEF HasNew
  <2> QED BY <1>2, <1>16, <2>1, <2>2, <2>3 DEF SuInv, WritingOK
<1>17. WritingOK'
  BY <1>2, <1>3, <1>5, <1>11, <1>13, <1>14, <1>15, <1>16 DEF WritingOK
<1> QED BY <1>4, <1>5, <1>17 DEF SuInv

(* and the wizard is over.                                                 *)
LEMMA WrittenPreserves == SuInv /\ Written /\ UNCHANGED before => SuInv'
<1> SUFFICES ASSUME SuInv, Written, UNCHANGED before PROVE SuInv'
  OBVIOUS
<1>1. /\ screen = "write" /\ screen' = "over" /\ unwritten = <<>>
      /\ UNCHANGED <<terminal, os, ticked, caret, targets, unscanned, agentRows, unwritten, disk,
                     confirmed, written>>
  BY DEF Written
<1>2. RowsOK' /\ ScreenOK'
  BY <1>1 DEF SuInv, RowsOK, Targeted, ScreenOK, Screens
<1>3. DOMAIN unwritten = {}
  BY <1>1
<1>4. WritingOK'
  BY <1>1, <1>3 DEF SuInv, WritingOK, Picked, HasNew
<1> QED BY <1>2, <1>4 DEF SuInv

(* Every step preserves the invariant.                                     *)
LEMMA SuStepInv == SuInv /\ [SuNext]_suvars => SuInv'
<1> SUFFICES ASSUME SuInv, [SuNext]_suvars PROVE SuInv'
  OBVIOUS
<1>1. CASE UNCHANGED suvars
  BY <1>1 DEF suvars, SuInv, RowsOK, Targeted, ScreenOK, Detected, WritingOK, Picked, HasNew
<1> QED
  BY <1>1, WizardStarts, LocalKeyPreserves, LeaveLocalPreserves, SshPreserves,
     ScanTargetPreserves, ScanOverPreserves, PickKeyPreserves, LeavePickPreserves,
     WriteManifestPreserves, WrittenPreserves
  DEF SuNext, SuStep

(* The invariant holds of every behaviour.                                 *)
LEMMA SuInvCorrect == SuSpec => []SuInv
BY SuInitInv, SuStepInv, PTL DEF SuSpec

(* The wizard's lists keep their kinds and its screens are those there are *)
(* (setup.rs:39-118).                                                      *)
THEOREM SetupTypeCorrect == SuSpec => []SetupTypeOK
<1>1. SuInv => SetupTypeOK
  <2> SUFFICES ASSUME SuInv PROVE SetupTypeOK
    OBVIOUS
  <2>1. \A i \in DOMAIN targets : targets[i] \in WizardEnv
    BY DEF SuInv, RowsOK
  <2>2. \A i \in DOMAIN agentRows : agentRows[i] \in RowType
    BY DEF SuInv, RowsOK
  <2>3. \A i \in DOMAIN agentRows : agentRows[i].bin \in Present
    BY <2>2 DEF RowType
  <2>4. WizardEnv = Remote \cup {Local[j] : j \in DOMAIN Local}
    BY DEF WizardEnv
  <2> QED BY <2>1, <2>3, <2>4 DEF SuInv, ScreenOK, SetupTypeOK
<1> QED BY <1>1, SuInvCorrect, PTL

(* The manifests written are of agents ticked, in environments picked, and *)
(* when the wizard is over all of them; a write that fails leaves at most  *)
(* a torn manifest of a ticked agent, and no file but those of its own     *)
(* names is gone, whatever was scanned, ticked and unticked before         *)
(* (setup.rs:72-118, 325-459, scanner.rs:682-695).                         *)
THEOREM SetupCorrect == SuSpec => []WritesWhatWasPicked
<1>1. SuInv => WritesWhatWasPicked
  <2> SUFFICES ASSUME SuInv PROVE WritesWhatWasPicked
    OBVIOUS
  <2>1. /\ \A f \in written : f \in Picked \/ (screen = "failed" /\ \E g \in Picked : f = Half(g))
        /\ disk \subseteq before \cup written
        /\ \A f \in before \ disk : \E g \in written \cap disk : g.name = f.name
    BY DEF SuInv, WritingOK, HasNew
  <2>2. ASSUME NEW f \in Picked
        PROVE  /\ \E i \in DOMAIN targets : targets[i] = f.env
               /\ Half(f).env = f.env
               /\ screen = "over" => f.name \in {g.name : g \in written \cap disk}
    <3>1. PICK j \in DOMAIN agentRows : agentRows[j].selected /\ f = Manifest(agentRows[j])
      BY DEF Picked
    <3>2. f.env = agentRows[j].env /\ f.name = ManifestName(agentRows[j])
      BY <3>1 DEF Manifest
    <3>3. \E i \in DOMAIN targets : targets[i] = f.env
      BY SMTT(30), <3>1, <3>2 DEF SuInv, RowsOK, Targeted
    <3>4. screen = "over" => f.name \in {g.name : g \in written \cap disk}
      BY SMTT(30), <3>1, <3>2 DEF SuInv, WritingOK, HasNew
    <3> QED BY <3>3, <3>4 DEF Half
  <2>3. Picked = {Manifest(agentRows[i]) : i \in {j \in DOMAIN agentRows : agentRows[j].selected}}
    BY DEF Picked
  <2>4. written # {} => confirmed
    <3>1. ASSUME NEW f \in written PROVE Picked # {}
      BY <2>1
    <3> QED BY <3>1 DEF SuInv, WritingOK
  <2>5. \A f \in written : \E i \in DOMAIN targets : targets[i] = f.env
    BY <2>1, <2>2
  <2> HIDE DEF Picked
  <2> QED BY <2>1, <2>2, <2>3, <2>4, <2>5 DEF WritesWhatWasPicked
<1> QED BY <1>1, SuInvCorrect, PTL

-----------------------------------------------------------------------------
(* The fleet.                                                              *)

(* A step of the whole is a step of each component, or leaves it alone: so *)
(* the whole does what each of them does.                                  *)
LEMMA FleetParts == Spec => RiSpec /\ SpSpec /\ HeSpec /\ AlSpec /\ MrSpec /\ SuSpec
<1>1. Init => RiInit /\ SpInit /\ HeInit /\ AlInit /\ MrInit /\ SuInit
  BY DEF Init
<1>2. [Next]_fleetvars => [RiNext]_rivars
  BY DEF Next, fleetvars
<1>3. [Next]_fleetvars => [SpNext]_spvars
  BY DEF Next, fleetvars
<1>4. [Next]_fleetvars => [HeNext]_hevars
  BY DEF Next, fleetvars
<1>5. [Next]_fleetvars => [AlNext]_alvars
  BY DEF Next, fleetvars
<1>6. [Next]_fleetvars => [MrNext]_mrvars
  BY DEF Next, fleetvars
<1>7. [Next]_fleetvars => [SuNext]_suvars
  BY DEF Next, fleetvars
<1> QED
  BY <1>1, <1>2, <1>3, <1>4, <1>5, <1>6, <1>7, PTL
     DEF Spec, RiSpec, SpSpec, HeSpec, AlSpec, MrSpec, SuSpec

(* Every component between the hub and its agents keeps its kinds in the   *)
(* composition, whichever of them moves.                                   *)
THEOREM FleetTypeCorrect == Spec => []FleetTypeOK
<1>1. InvocationTypeOK /\ DriverTypeOK /\ CacheTypeOK /\ LoadingTypeOK /\ RoutingTypeOK
      /\ SetupTypeOK => FleetTypeOK
  BY DEF FleetTypeOK
<1> QED
  BY <1>1, FleetParts, InvocationTypeCorrect, DriverTypeCorrect, CacheTypeCorrect,
     LoadingTypeCorrect, RoutingTypeCorrect, SetupTypeCorrect, PTL

(* And every one keeps its promises there.                                 *)
THEOREM FleetCorrect ==
  Spec => /\ [](PromptArrivesWhole /\ AnswerIsOwn /\ InvalidatedIsGone)
          /\ [](OneProbePerHost /\ NamesLeadToOneAgent)
          /\ [](ShownIsRoutable /\ WritesWhatWasPicked)
BY FleetParts, PromptCorrect, AnswersCorrect, InvalidatedCorrect, OneProbeCorrect, NamesCorrect,
   RoutableCorrect, SetupCorrect, PTL

=============================================================================
