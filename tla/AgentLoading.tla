---------------------------- MODULE AgentLoading ----------------------------
(***************************************************************************)
(* How agents come to exist (ch-agent: loader.rs, manifest.rs, and         *)
(* load_all, load_plugin, stop_agent and stop_all of runtime.rs).          *)
(*                                                                         *)
(* load_all scans the plugin directories, warms the host environment cache *)
(* with one blocking task per host, and then loads plugin after plugin:    *)
(* builds the driver (a subprocess agent first needs its host's            *)
(* environment), subscribes to the bus, and enters the agent into three    *)
(* maps by NAME.  A name is what a manifest says, not its directory, so    *)
(* two directories may bring the same one.  The bus and the drivers are    *)
(* modelled in modules of their own; here a subscription is its identity.  *)
(***************************************************************************)
EXTENDS Naturals, Sequences, FiniteSets, Selections

CONSTANTS PluginDirs,  \* directory records: see DirType
          MaxDirs,     \* bound on the directories present
          MaxStops     \* bound on calls of stop_agent

VARIABLES
    listing,    \* the directories in the order read_dir gives them
    phase,      \* "scan" | "warm" | "load" | "probe" | "join" | "up" | "down"
    queue,      \* the plugins not loaded yet
    envs,       \* the host environment cache: the hosts whose result it holds
    probing,    \* the probes under way: [for, host]
    probes,     \* per host: the probes started
    ids,        \* DashMap agent_ids: name -> bus identity
    agents,     \* DashMap agents: name -> [id, dir, state], or Absent
    acts,       \* DashMap activities: the names in it
    handlers,   \* the message handlers spawned: [id, name, dir]
    subs,       \* the bus identities subscribed
    stops

alvars == <<listing, phase, queue, envs, probing, probes, ids, agents, acts, handlers, subs, stops>>

\* A directory: whether it holds an agent.toml that parses, and what that says.
DirType == [dir : STRING, file : {"none", "broken", "toml"}, name : STRING,
            driver : {"api", "subprocess", "tmux", "mcp"},
            sections : SUBSET {"model", "subprocess", "tmux"}, host : STRING]

ASSUME LoadingAssumption == PluginDirs \subseteq DirType /\ MaxDirs \in Nat /\ MaxStops \in Nat

AgentNames == {d.name : d \in PluginDirs}
EnvHosts == {d.host : d \in PluginDirs}
Absent == [id |-> 0, dir |-> "", state |-> "absent"]

\* AgentManifest::validate: a name, and the section its driver needs; nothing for MCP.
Validates(d) ==
    /\ d.name # ""
    /\ d.driver = "api" => "model" \in d.sections
    /\ d.driver = "subprocess" => "subprocess" \in d.sections
    /\ d.driver = "tmux" => "tmux" \in d.sections

\* scan: a directory without a manifest, or with one that does not parse or
\* validate, is passed over.
Kept(d) == d.file = "toml" /\ Validates(d)
Scanned(ds) == Selected(ds, {i \in DOMAIN ds : Kept(ds[i])})

\* Mutant: the warming asks once per plugin.
WarmPerPlugin(ps) == {[for |-> i, host |-> ps[i].host] :
                        i \in {j \in DOMAIN ps : "subprocess" \in ps[j].sections}}

\* The hosts load_all warms: those of every [subprocess] section, whatever
\* the agent's driver; a set, so each is probed by one task.
HostsToWarm(ps) == {[for |-> 0, host |-> ps[i].host] :
                        i \in {j \in DOMAIN ps : "subprocess" \in ps[j].sections}}

AlInit ==
    /\ listing \in UNION {{s \in [1..n -> PluginDirs] :
                              \A i, j \in 1..n : s[i].dir = s[j].dir => i = j} : n \in 0..MaxDirs}
    /\ phase = "scan" /\ queue = <<>>
    /\ envs = {} /\ probing = {} /\ probes = [h \in EnvHosts |-> 0]
    /\ ids = [n \in AgentNames |-> 0]
    /\ agents = [n \in AgentNames |-> Absent]
    /\ acts = {} /\ handlers = {} /\ subs = {} /\ stops = 0

runtime == <<ids, agents, acts, handlers, subs, stops>>

\* get_or_probe by any task: a hit is at once, a miss starts a probe.
StartProbes(ps) ==
    LET missing == {p \in ps : p.host \notin envs} IN
    /\ probing' = missing
    /\ probes' = [h \in EnvHosts |-> probes[h] + Cardinality({p \in missing : p.host = h})]

Scan ==
    /\ phase = "scan"
    /\ phase' = "warm"
    /\ queue' = Scanned(listing)
    /\ StartProbes(HostsToWarm(Scanned(listing)))
    /\ UNCHANGED <<listing, envs, runtime>>

\* A probe ends; its result is kept even when it failed.
ProbeEnds(p) ==
    /\ p \in probing
    /\ probing' = probing \ {p}
    /\ envs' = envs \cup {p.host}
    /\ UNCHANGED <<listing, phase, queue, probes, runtime>>

\* Every warming task has been joined.
Warmed ==
    /\ phase = "warm" /\ probing = {}
    /\ phase' = "load"
    /\ UNCHANGED <<listing, queue, envs, probing, probes, runtime>>

\* load_plugin, up to its first await: an MCP agent is an error, which
\* load_all logs before it goes on with the next.
BuildDriver ==
    /\ phase = "load" /\ queue # <<>>
    /\ IF Head(queue).driver = "mcp"
       THEN /\ queue' = Tail(queue)
            /\ UNCHANGED <<phase, probing, probes>>
       ELSE /\ IF Head(queue).driver = "subprocess"
               THEN phase' = "probe" /\ StartProbes({[for |-> 1, host |-> Head(queue).host]})
               ELSE phase' = "join" /\ UNCHANGED <<probing, probes>>
            /\ UNCHANGED queue
    /\ UNCHANGED <<listing, envs, runtime>>

\* The environment is there and the driver is built with it.
EnvReady ==
    /\ phase = "probe" /\ probing = {}
    /\ phase' = "join"
    /\ UNCHANGED <<listing, queue, envs, probing, probes, runtime>>

\* Mutant: the first identity of a name stays.
KeepFirstId(n, id) == IF ids[n] # 0 THEN ids ELSE [ids EXCEPT ![n] = id]

\* The rest of load_plugin: a fresh identity subscribes and joins the
\* channels, the three maps take the name, and the handler starts.
EnterId(n, id) == [ids EXCEPT ![n] = id]

Install ==
    /\ phase = "join"
    /\ LET p == Head(queue)
           id == Cardinality(subs) + 1 IN
       /\ subs' = subs \cup {id}
       /\ ids' = EnterId(p.name, id)
       /\ agents' = [agents EXCEPT ![p.name] = [id |-> id, dir |-> p.dir, state |-> "ready"]]
       /\ acts' = acts \cup {p.name}
       /\ handlers' = handlers \cup {[id |-> id, name |-> p.name, dir |-> p.dir]}
    /\ queue' = Tail(queue)
    /\ phase' = "load"
    /\ UNCHANGED <<listing, envs, probing, probes, stops>>

Loaded ==
    /\ phase = "load" /\ queue = <<>>
    /\ phase' = "up"
    /\ UNCHANGED <<listing, queue, envs, probing, probes, runtime>>

\* stop_agent: an agent that is not loaded is an error, and a driver that
\* does not stop leaves the state alone.
StopAgent(n, stopped) ==
    /\ phase = "up" /\ stops < MaxStops
    /\ stops' = stops + 1
    /\ agents' = IF agents[n] = Absent \/ ~stopped THEN agents
                 ELSE [agents EXCEPT ![n].state = "stopped"]
    /\ UNCHANGED <<listing, phase, queue, envs, probing, probes, ids, acts, handlers, subs>>

\* stop_all, on the way out: every driver is stopped, failures are logged,
\* and the agents are dropped; identities, activities and handlers stay.
StopAll ==
    /\ phase = "up"
    /\ phase' = "down"
    /\ agents' = [n \in AgentNames |-> Absent]
    /\ UNCHANGED <<listing, queue, envs, probing, probes, ids, acts, handlers, subs, stops>>

AlNext == \/ Scan \/ Warmed \/ BuildDriver \/ EnvReady \/ Install \/ Loaded \/ StopAll
          \/ \E p \in probing : ProbeEnds(p)
          \/ \E n \in AgentNames, stopped \in BOOLEAN : StopAgent(n, stopped)

AlSpec == AlInit /\ [][AlNext]_alvars

----------------------------------------------------------------------------
LoadingTypeOK ==
    /\ phase \in {"scan", "warm", "load", "probe", "join", "up", "down"}
    /\ envs \subseteq EnvHosts /\ acts \subseteq AgentNames
    /\ \A n \in AgentNames : ids[n] \in subs \cup {0} /\ agents[n].id \in subs \cup {0}

\* Loading probes a host once, however many agents live there and in whatever
\* order they come: the warming tasks never ask for one host twice, and no
\* load misses what they left (runtime.rs, "Two agents that share a HostKey
\* share one probe").
OneProbePerHost == \A h \in EnvHosts : probes[h] <= 1

\* A name leads to one agent whole: the identity the hub addresses, the entry
\* it stops and the handler that answers are those of one load, the newest of
\* that name, though an older handler of the name may still listen; a load
\* that failed has left no subscription behind.
NamesLeadToOneAgent ==
    /\ \A n \in AgentNames :
          agents[n] # Absent =>
              /\ ids[n] = agents[n].id /\ n \in acts
              /\ [id |-> ids[n], name |-> n, dir |-> agents[n].dir] \in handlers
              /\ \A h \in handlers : h.name = n => h.id <= ids[n]
    /\ subs = {h.id : h \in handlers}
=============================================================================
