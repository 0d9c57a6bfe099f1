------------------------------- MODULE Atlas -------------------------------
(***************************************************************************)
(* The daemon as src/src/main.rs puts it together: the proxy's handlers    *)
(* read the TLD registry, which the updater replaces under them, and ask   *)
(* the swarm manager (module SwarmManager) for a node.  The manager knows  *)
(* a node by its TLD alone; a node runs with the configuration of the      *)
(* request that started it, for as long as it runs.                        *)
(***************************************************************************)
EXTENDS SwarmManager

CONSTANTS
  Configs,     \* network configurations
  ConfigsOf,   \* [Tlds -> SUBSET Configs]: those whose field tld is the TLD
  NoConfig

ASSUME AtlasAssumption ==
  /\ ConfigsOf \in [Tlds -> SUBSET Configs]
  /\ NoConfig \notin Configs

\* What load_from_dir can make of a directory: it enters a configuration under
\* its own TLD.
Registries ==
  {f \in [Tlds -> Configs \cup {NoConfig}] : \A t \in Tlds : f[t] \in ConfigsOf[t] \cup {NoConfig}}

VARIABLES
  registry,   \* [Tlds -> Configs or NoConfig]: the TldRegistry behind the RwLock
  config,     \* [Requests -> Configs or NoConfig]: the copy a handler took
  bound       \* [Nodes -> Configs or NoConfig]: what a running node was started with

atlas == <<registry, config, bound>>
avars == <<vars, atlas>>

AtlasInit ==
  /\ Init
  /\ registry \in Registries
  /\ config = [r \in Requests |-> NoConfig]
  /\ bound = [n \in Nodes |-> NoConfig]

-----------------------------------------------------------------------------
(* A request.                                                              *)

\* Mutant: the handler does not stop at a TLD the registry does not know.
AdmitUnlisted(r) ==
  /\ Begin(r)
  /\ \E c \in Configs :
       /\ registry[tld'[r]] \in {c, NoConfig}
       /\ config' = [config EXCEPT ![r] = c]
  /\ UNCHANGED <<registry, bound>>

\* get_config clones the entry under the read lock; an unknown TLD ends the
\* request there.
Admit(r) ==
  /\ Begin(r)
  /\ registry[tld'[r]] # NoConfig
  /\ config' = [config EXCEPT ![r] = registry[tld'[r]]]
  /\ UNCHANGED <<registry, bound>>

\* The steps of get_or_spawn_swarm that start no node read no configuration.
Acquire(r) ==
  /\ LookupHit(r) \/ LookupMiss(r) \/ ResolveSeed(r) \/ RecheckHit(r)
  /\ UNCHANGED atlas

\* Mutant: the new node takes over the settings of one that still runs.
SpawnAlike(r) ==
  /\ Spawn(r)
  /\ \E c \in Configs :
       /\ IF running = {} THEN c = config[r] ELSE \E n \in running : bound[n] = c
       /\ bound' = [bound EXCEPT ![tx'[r]] = c]
  /\ UNCHANGED <<registry, config>>

\* Mutant: the settings come from a cache of the TLD's configurations.
SpawnCached(r) ==
  /\ Spawn(r)
  /\ \E c \in ConfigsOf[tld[r]] : bound' = [bound EXCEPT ![tx'[r]] = c]
  /\ UNCHANGED <<registry, config>>

\* KineticAtlasNode::new takes network_id and bootstrap nodes from the copy.
SpawnBound(r) ==
  /\ Spawn(r)
  /\ bound' = [bound EXCEPT ![tx'[r]] = config[r]]
  /\ UNCHANGED <<registry, config>>

\* Mutant: the handler's future is dropped, its copy kept.
QuitKeeping(r) == (SpawnFails(r) \/ Finish(r) \/ Abandon(r)) /\ UNCHANGED atlas

\* The handler returns, with a response or an error, or is dropped.
Quit(r) ==
  /\ SpawnFails(r) \/ Finish(r) \/ Abandon(r)
  /\ config' = [config EXCEPT ![r] = NoConfig]
  /\ UNCHANGED <<registry, bound>>

-----------------------------------------------------------------------------
(* The nodes, the updater and the manager's own tasks.                     *)

EndBound(n) ==
  /\ ChannelCloses(n) \/ HearShutdown(n)
  /\ bound' = [bound EXCEPT ![n] = NoConfig]
  /\ UNCHANGED <<registry, config>>

\* The updater replaces the registry under the write lock.
Reload ==
  /\ registry' \in Registries
  /\ registry' # registry
  /\ UNCHANGED <<vars, config, bound>>

AtlasRequest(r) == Admit(r) \/ Acquire(r) \/ SpawnBound(r) \/ Quit(r)

AtlasNext ==
  \/ /\ stage # "exited"
     /\ \/ \E r \in Requests : AtlasRequest(r)
        \/ \E n \in Nodes : EndBound(n)
        \/ Reload
        \/ (Minute \/ CollectGarbage \/ CtrlC \/ Exit) /\ UNCHANGED atlas
  \/ stage = "exited" /\ UNCHANGED avars

\* The fairness is the manager's: the updater need not find anything new.
AtlasSpec == AtlasInit /\ [][AtlasNext]_avars /\ Fairness

-----------------------------------------------------------------------------
(* Properties.                                                             *)

\* Every variable has its type; a handler has a copy exactly while it runs, and
\* what runs was started with a configuration.
AtlasTypeOK ==
  /\ TypeOK
  /\ registry \in Registries
  /\ config \in [Requests -> Configs \cup {NoConfig}]
  /\ bound \in [Nodes -> Configs \cup {NoConfig}]
  /\ \A r \in Requests : (config[r] = NoConfig) = (pc[r] = "idle")
  /\ \A n \in Nodes : (bound[n] = NoConfig) = (n \notin running)

\* Until Ctrl-C, a request for a TLD is only ever given a node that was started
\* with a configuration of that TLD, and holds a copy of one itself, whatever
\* reloads and other requests come between.
NodeOfItsTld ==
  stage = "up" => \A r \in Requests : pc[r] # "idle" =>
    /\ config[r] \in ConfigsOf[tld[r]]
    /\ tx[r] # NoNode => bound[tx[r]] \in ConfigsOf[tld[r]]

\* Once the registry's entry of a TLD is final, no request whose copy was taken
\* before can leave a node of another behind: a TLD that falls idle now and then
\* ends up with nodes of the final configuration only (proxy.rs:90,
\* swarm_manager.rs:71-106).
FreshAfterIdle ==
  \A t \in Tlds :
    <>[][registry'[t] = registry[t]]_registry /\ []<>(swarms[t] = NoNode) =>
      <>[](swarms[t] = NoNode \/ bound[swarms[t]] = registry[t] \/ stage # "up")

\* Every copy that is held of t's configuration, and the node in the map, is of
\* the registry's entry; without an entry there is neither.
Fresh(t) ==
  /\ \A r \in Requests : tld[r] = t => config[r] = registry[t]
  /\ swarms[t] # NoNode => bound[swarms[t]] = registry[t]

\* Until Ctrl-C, a TLD that has caught up with its entry of the registry stays
\* so until the entry changes again: no request that resolves a seed, fails or
\* is dropped while others come and go brings an older configuration back, or a
\* node for a TLD that was removed (proxy.rs:90, swarm_manager.rs:58-118).
StaysFresh ==
  [][\A t \in Tlds :
       Fresh(t) /\ registry'[t] = registry[t] /\ stage' = "up" => Fresh(t)']_avars

\* A TLD that the updater removed for good loses its node, whatever the
\* requests under way still do with it.
RemovedReclaimed ==
  \A t \in Tlds :
    <>[](registry[t] = NoConfig) => <>[](swarms[t] = NoNode \/ stage = "exited")

\* ARCHITECTURE.md:105: an update of a configuration is hot-reloaded without
\* requiring a restart.  It is not while requests keep the old node from
\* falling idle.
ReloadTakesEffect ==
  \A t \in Tlds : \A c \in ConfigsOf[t] :
    <>[](registry[t] = c) =>
      <>[](swarms[t] = NoNode \/ bound[swarms[t]] = c \/ stage # "up")
=============================================================================
