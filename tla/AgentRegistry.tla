---------------------------- MODULE AgentRegistry ----------------------------
(***************************************************************************)
(* The agent registry of the core (crates/ch-core/src/registry.rs): two    *)
(* concurrent maps, agents by id and ids by name, that are not changed     *)
(* together.  register looks a name up and inserts into one map after the  *)
(* other; unregister removes from one and then from the other.  Ids are    *)
(* fresh for each registration (AgentId::new) and an agent is unregistered *)
(* only after its registration returned.                                   *)
(***************************************************************************)
EXTENDS Naturals, FiniteSets, Functions

CONSTANTS
  RegId,     (* ids, each registered at most once                           *)
  RegName    (* agent names                                                 *)

VARIABLES
  agents,     (* the map agents: from registered ids to names               *)
  nameIndex,  (* the map name_index: from names to ids                      *)
  regPc,      (* where the calls about an id stand                          *)
  regName     (* the name an id was registered under                        *)

rgvars == <<agents, nameIndex, regPc, regName>>

RegPc == {"new", "free", "inserted", "registered", "refused", "removing", "gone"}

RgInit ==
  /\ agents = <<>>
  /\ nameIndex = <<>>
  /\ regPc = [i \in RegId |-> "new"]
  /\ regName \in [RegId -> RegName]

Put(f, k, v) == [x \in DOMAIN f \cup {k} |-> IF x = k THEN v ELSE f[x]]
Without(f, k) == Restrict(f, DOMAIN f \ {k})

(* register: the name is looked up ...                                     *)
LookUpName(i) ==
  /\ regPc[i] = "new"
  /\ regPc' = [regPc EXCEPT ![i] = IF regName[i] \in DOMAIN nameIndex
                                   THEN "refused" ELSE "free"]
  /\ UNCHANGED <<agents, nameIndex, regName>>

(* ... and inserted later, whatever happened in between.                   *)
InsertAgent(i) ==
  /\ regPc[i] = "free"
  /\ agents' = Put(agents, i, regName[i])
  /\ regPc' = [regPc EXCEPT ![i] = "inserted"]
  /\ UNCHANGED <<nameIndex, regName>>

IndexName(i) ==
  /\ regPc[i] = "inserted"
  /\ nameIndex' = Put(nameIndex, regName[i], i)
  /\ regPc' = [regPc EXCEPT ![i] = "registered"]
  /\ UNCHANGED <<agents, regName>>

RemoveAgent(i) ==
  /\ regPc[i] = "registered"
  /\ agents' = Without(agents, i)
  /\ regPc' = [regPc EXCEPT ![i] = "removing"]
  /\ UNCHANGED <<nameIndex, regName>>

(* Mutant: the index is forgotten.                                         *)
KeepName(i) ==
  /\ regPc[i] = "removing"
  /\ regPc' = [regPc EXCEPT ![i] = "gone"]
  /\ UNCHANGED <<agents, nameIndex, regName>>

(* The name goes, whoever it points at by now.                             *)
RemoveName(i) ==
  /\ regPc[i] = "removing"
  /\ nameIndex' = Without(nameIndex, regName[i])
  /\ regPc' = [regPc EXCEPT ![i] = "gone"]
  /\ UNCHANGED <<agents, regName>>

RgNext ==
  \E i \in RegId :
    \/ LookUpName(i)
    \/ InsertAgent(i)
    \/ IndexName(i)
    \/ RemoveAgent(i)
    \/ RemoveName(i)

RgSpec == RgInit /\ [][RgNext]_rgvars

-----------------------------------------------------------------------------
RegistryTypeOK ==
  /\ DOMAIN agents \subseteq RegId
  /\ \A i \in DOMAIN agents : agents[i] = regName[i]
  /\ DOMAIN nameIndex \subseteq RegName
  /\ \A n \in DOMAIN nameIndex : nameIndex[n] \in RegId
  /\ regPc \in [RegId -> RegPc]
  /\ regName \in [RegId -> RegName]

(* A name in the index leads to an agent of that name that is registered,  *)
(* or is just being unregistered, even if two registrations both found the *)
(* name free and one of the agents has gone since: no name stays taken for *)
(* nobody, and get_by_name never finds another's agent                     *)
(* (registry.rs:41-94).                                                    *)
IndexedAgentsExist ==
  \A n \in DOMAIN nameIndex :
    /\ regName[nameIndex[n]] = n
    /\ \/ nameIndex[n] \in DOMAIN agents
       \/ regPc[nameIndex[n]] = "removing"

=============================================================================
