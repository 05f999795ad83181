---------------------------- MODULE ModelRouting ----------------------------
(***************************************************************************)
(* Model routing (crates/ch-model): the registry of model backends, the    *)
(* router that picks a backend for a model, the discovery that fills the   *)
(* registry, the four kinds of backend, and the API driver of ch-agent     *)
(* that sends an agent's prompts through the router.                       *)
(*                                                                         *)
(* The registry is three concurrent maps, written one after the other with *)
(* no lock around them and an await before them.  One task (the hub's      *)
(* start) runs discovery and then the registry's public operations, one at *)
(* a time; any number of agents route prompts meanwhile, on other threads. *)
(* What the network answers is external: any listing, any reply.           *)
(***************************************************************************)
EXTENDS Naturals, Sequences, FiniteSets

CONSTANTS Port,      \* the ports discovery probes on a host
          ByHand,    \* backends registered by hand: [kind, port] records
          ModelId,   \* the bare ids that backends list, cut at their slashes
          Asker,     \* the agents with an API driver
          MaxCalls   \* bound: operations after discovery

ASSUME RoutingAssumption ==
    /\ Port \subseteq Nat
    /\ ByHand \subseteq [kind : {"ollama", "openai", "anthropic", "mock"}, port : Nat]
    /\ ModelId \subseteq Seq(STRING)

VARIABLES
    backends,   \* DashMap: backend name -> backend
    info,       \* DashMap backend_info: name -> the models of its last listing
    index,      \* DashMap model_index: model name -> backend name
    ports,      \* the ports discovery has not probed yet
    op,         \* the operation under way: the awaits and map writes to come
    request,      \* per API agent: the model its prompt names, and what came of it
    calls       \* operations begun after discovery (bounded)

mrvars == <<backends, info, index, ports, op, request, calls>>

NoBackend == [kind |-> "none", port |-> 0]
Discovered == [kind : {"ollama", "openai"}, port : Port]
AllBackends == Discovered \cup ByHand

\* What the discovery calls a backend: the server's name hint.  A mock or a
\* cloud backend brings its own name.
BackendName(b) ==
    CASE b.kind = "ollama" -> "ollama"
      [] b.kind = "openai" -> IF b.port = 1234 THEN "lm-studio"
                              ELSE IF b.port = 8000 THEN "vllm" ELSE "openai-compat"
      [] OTHER -> b.kind
Names == {BackendName(b) : b \in AllBackends}

\* A model is indexed under its bare id and under "backend/id": both are
\* Strings of one map, so that a server whose bare ids hold slashes may list
\* what is another backend's full name of a model.
Qualified(n, m) == <<n>> \o m
Keys == ModelId \cup {Qualified(n, m) : n \in Names, m \in ModelId}
KeysOf(n, ms) == ms \cup {Qualified(n, m) : m \in ms}

----------------------------------------------------------------------------
(* The replies of the four kinds of backend. *)

Replies == [link : BOOLEAN, status : {"200", "401", "429", "500"},
            body : {"garbled", "empty", "text"}]

OpenAIChat(r) ==
    IF ~r.link THEN "Connection"
    ELSE IF r.status # "200" THEN "Backend"
    ELSE IF r.body # "text" THEN "InvalidResponse" ELSE "answer"

\* Only the Anthropic backend tells the causes of a refusal apart; an answer
\* without a text part is an empty answer there, not an error.
AnthropicChat(r) ==
    IF ~r.link THEN "Connection"
    ELSE IF r.status = "401" THEN "Authentication"
    ELSE IF r.status = "429" THEN "RateLimit"
    ELSE IF r.status # "200" THEN "Backend"
    ELSE IF r.body = "garbled" THEN "InvalidResponse" ELSE "answer"

\* Ollama answers one message, never a list of choices.
OllamaChat(r) ==
    IF ~r.link THEN "Connection"
    ELSE IF r.status # "200" THEN "Backend"
    ELSE IF r.body = "garbled" THEN "InvalidResponse" ELSE "answer"

\* A mock answers from its queue, or with its default: it never fails.
MockChat(r) == "answer"

ChatOutcomes(b) ==
    { CASE b.kind = "openai" -> OpenAIChat(r) [] b.kind = "anthropic" -> AnthropicChat(r)
        [] b.kind = "ollama" -> OllamaChat(r) [] OTHER -> MockChat(r) : r \in Replies }

\* list_models: servers answer any list, or fail; the other two kinds list
\* what they were built with.
Listings(b) == IF b.kind \in {"anthropic", "mock"}
               THEN {[ok |-> TRUE, models |-> ModelId]}
               ELSE {[ok |-> FALSE, models |-> {}]} \cup [ok : {TRUE}, models : SUBSET ModelId]

----------------------------------------------------------------------------
NoOp == [kind |-> "none", at |-> "idle", backend |-> NoBackend, name |-> "", models |-> {}]
NotAsked == [at |-> "idle", to |-> NoBackend, got |-> ""]

MrInit ==
    /\ backends = [n \in Names |-> NoBackend]
    /\ info = [n \in Names |-> [known |-> FALSE, models |-> {}]]
    /\ index = [k \in Keys |-> ""]
    /\ ports = Port
    /\ op = NoOp
    /\ request = [a \in Asker |-> NotAsked]
    /\ calls = 0

\* discover, one port: Ollama's endpoint is tried first, then the
\* OpenAI-compatible one; a port where neither answers is passed over.
Probe(p, kind) ==
    /\ op = NoOp
    /\ p \in ports
    /\ \A q \in ports : p <= q
    /\ ports' = ports \ {p}
    /\ op' = IF kind = "none" THEN NoOp
             ELSE [NoOp EXCEPT !.kind = "register", !.at = "listing",
                               !.backend = [kind |-> kind, port |-> p],
                               !.name = BackendName([kind |-> kind, port |-> p])]
    /\ UNCHANGED <<backends, info, index, request, calls>>

\* The public register, for a backend made by hand.
Register(b) ==
    /\ op = NoOp /\ ports = {} /\ calls < MaxCalls
    /\ calls' = calls + 1
    /\ op' = [NoOp EXCEPT !.kind = "register", !.at = "listing", !.backend = b,
                          !.name = BackendName(b)]
    /\ UNCHANGED <<backends, info, index, ports, request>>

\* The public refresh: the name must be registered; the backend is held from here on.
Refresh(n) ==
    /\ op = NoOp /\ ports = {} /\ calls < MaxCalls
    /\ backends[n] # NoBackend
    /\ calls' = calls + 1
    /\ op' = [NoOp EXCEPT !.kind = "refresh", !.at = "listing", !.backend = backends[n],
                          !.name = n]
    /\ UNCHANGED <<backends, info, index, ports, request>>

\* The public remove; its three writes follow.
RemoveBackend(n) ==
    /\ op = NoOp /\ ports = {} /\ calls < MaxCalls
    /\ calls' = calls + 1
    /\ op' = [NoOp EXCEPT !.kind = "remove", !.at = "retain", !.name = n]
    /\ UNCHANGED <<backends, info, index, ports, request>>

\* The listing arrives.  A registration goes on without models when it fails,
\* a refresh gives up and leaves every map as it was.
ListingArrives(answer) ==
    /\ op.at = "listing"
    /\ answer \in Listings(op.backend)
    /\ op' = CASE op.kind = "refresh" /\ ~answer.ok -> NoOp
               [] op.kind = "refresh" /\ answer.ok -> [op EXCEPT !.at = "retain", !.models = answer.models]
               [] op.kind = "register" /\ ~answer.ok -> [op EXCEPT !.at = "info"]
               [] op.kind = "register" /\ answer.ok -> [op EXCEPT !.at = "index", !.models = answer.models]
    /\ UNCHANGED <<backends, info, index, ports, request, calls>>

\* refresh and remove: every index entry of this backend goes.
Retain ==
    /\ op.at = "retain"
    /\ index' = [k \in Keys |-> IF index[k] = op.name THEN "" ELSE index[k]]
    /\ op' = [op EXCEPT !.at = IF op.kind = "remove" THEN "drop" ELSE "index"]
    /\ UNCHANGED <<backends, info, ports, request, calls>>

\* register and refresh: both names of every listed model, over whatever the
\* bare name pointed to before.
Indexed(old, n, ms) == [k \in Keys |-> IF k \in KeysOf(n, ms) THEN n ELSE old[k]]

IndexModels ==
    /\ op.at = "index"
    /\ index' = Indexed(index, op.name, op.models)
    /\ op' = [op EXCEPT !.at = "info"]
    /\ UNCHANGED <<backends, info, ports, request, calls>>

\* Mutant: a refresh adds what it found to what it knew.
MergeInfo ==
    /\ op.at = "info"
    /\ info' = [info EXCEPT ![op.name] = [known |-> TRUE, models |-> @.models \cup op.models]]
    /\ op' = IF op.kind = "refresh" THEN NoOp ELSE [op EXCEPT !.at = "store"]
    /\ UNCHANGED <<backends, index, ports, request, calls>>

\* The listing becomes the backend's info; refresh leaves alone a backend that has none.
WriteInfo ==
    /\ op.at = "info"
    /\ info' = IF op.kind = "refresh" /\ ~info[op.name].known THEN info
               ELSE [info EXCEPT ![op.name] = [known |-> TRUE, models |-> op.models]]
    /\ op' = IF op.kind = "refresh" THEN NoOp ELSE [op EXCEPT !.at = "store"]
    /\ UNCHANGED <<backends, index, ports, request, calls>>

\* register, last: the backend itself, over one of the same name.
StoreBackend ==
    /\ op.at = "store"
    /\ backends' = [backends EXCEPT ![op.name] = op.backend]
    /\ op' = NoOp
    /\ UNCHANGED <<info, index, ports, request, calls>>

DropBackend ==
    /\ op.at = "drop"
    /\ backends' = [backends EXCEPT ![op.name] = NoBackend]
    /\ op' = [op EXCEPT !.at = "dropinfo"]
    /\ UNCHANGED <<info, index, ports, request, calls>>

DropInfo ==
    /\ op.at = "dropinfo"
    /\ info' = [info EXCEPT ![op.name] = [known |-> FALSE, models |-> {}]]
    /\ op' = NoOp
    /\ UNCHANGED <<backends, index, ports, request, calls>>

\* find_backend_for_model: the index entry is held while its backend is read,
\* so the two reads are one step.
FindBackend(key) == IF index[key] = "" THEN NoBackend ELSE backends[index[key]]

\* An API agent sends a prompt for a model (its default when the prompt names
\* none) once discovery is over, and waits for the backend found.
Ask(a, key) ==
    /\ ports = {} /\ request[a].at = "idle"
    /\ request' = [request EXCEPT ![a] =
                    IF FindBackend(key) = NoBackend
                    THEN [at |-> "done", to |-> NoBackend, got |-> "ModelNotFound"]
                    ELSE [at |-> "sent", to |-> FindBackend(key), got |-> ""]]
    /\ UNCHANGED <<backends, info, index, ports, op, calls>>

\* The backend's reply, or its error, is the driver's.
Reply(a) ==
    /\ request[a].at = "sent"
    /\ \E got \in ChatOutcomes(request[a].to) :
          request' = [request EXCEPT ![a] = [@ EXCEPT !.at = "done", !.got = got]]
    /\ UNCHANGED <<backends, info, index, ports, op, calls>>

OpStep == \/ \E l \in [ok : BOOLEAN, models : SUBSET ModelId] : ListingArrives(l)
          \/ Retain \/ IndexModels \/ WriteInfo \/ StoreBackend \/ DropBackend \/ DropInfo

MrNext == \/ \E p \in Port, kind \in {"ollama", "openai", "none"} : Probe(p, kind)
          \/ \E b \in ByHand : Register(b)
          \/ \E n \in Names : Refresh(n) \/ RemoveBackend(n)
          \/ OpStep
          \/ \E a \in Asker : Reply(a) \/ \E k \in Keys : Ask(a, k)

MrSpec == MrInit /\ [][MrNext]_mrvars

----------------------------------------------------------------------------
RoutingTypeOK ==
    /\ backends \in [Names -> AllBackends \cup {NoBackend}]
    /\ info \in [Names -> [known : BOOLEAN, models : SUBSET ModelId]]
    /\ index \in [Keys -> Names \cup {""}]
    /\ ports \subseteq Port

\* A backend that no operation is busy with can be reached under the full name
\* of every model that list_models (router.rs, list_models, which the API
\* driver's health check trusts) shows for it, whatever the other backends
\* listed, however a listing failed and whichever server took over its name:
\* the qualified entry points to it, and it is there to be found.  A full name
\* that some server lists as a bare id of its own is left out: like any bare
\* name it goes to whoever listed it last, and goes with that backend
\* (registry.rs:43-46, 89, 163-165).
ShownIsRoutable ==
    \A n \in Names, m \in ModelId :
        m \in info[n].models /\ op.name # n /\ Qualified(n, m) \notin ModelId =>
            /\ index[Qualified(n, m)] = n
            /\ FindBackend(Qualified(n, m)) # NoBackend
=============================================================================
