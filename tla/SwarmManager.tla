---------------------------- MODULE SwarmManager ----------------------------
(***************************************************************************)
(* src/src/swarm_manager.rs with the part of src/src/main.rs that shuts it *)
(* down.  Requests of the HTTP proxy share one libp2p node per TLD.        *)
(* get_or_spawn_swarm looks in a map under a mutex, lets the mutex go to   *)
(* resolve the seed domain, takes it again, looks a second time and only   *)
(* then starts a node.  A garbage collector drops the map's handle of a    *)
(* TLD unused for IdleTimeout minutes.  A node's task ends when the last   *)
(* sender of its channel is dropped, or when the shutdown broadcast        *)
(* reaches it.                                                             *)
(*                                                                         *)
(* Each critical section of the mutex contains no await and is one action. *)
(* One unit of time is the collector's period, one minute.                 *)
(***************************************************************************)
EXTENDS Naturals

CONSTANTS
  Tlds,          \* the TLDs the registry lets through
  Requests,      \* concurrent executions of handle_proxy_request
  Nodes,         \* identities of node tasks, reused once unreferenced
  Seeded,        \* the TLDs whose configuration has a seed_domain
  IdleTimeout,   \* minutes without use after which a handle is dropped (10)
  NoTld, NoNode

ASSUME ConstantsAssumption ==
  /\ Seeded \subseteq Tlds
  /\ IdleTimeout \in Nat
  /\ NoTld \notin Tlds
  /\ NoNode \notin Nodes

VARIABLES
  swarms,   \* [Tlds -> Nodes or NoNode]: the node of each SwarmHandle's tx
  idle,     \* [Tlds -> Nat]: minutes since the handle's last_used
  gcDue,    \* the collector's interval has ticked and the sweep is to come
  running,  \* nodes whose task has not ended
  told,     \* nodes with the shutdown message unread in their receiver
  stage,    \* "up", then "signalled" by Ctrl-C, then "exited"
  pc,       \* [Requests -> where get_or_spawn_swarm and its caller stand]
  tld,      \* [Requests -> Tlds or NoTld]: the TLD asked for
  tx        \* [Requests -> Nodes or NoNode]: the sender clone the request owns

clocks == <<idle, gcDue>>
tasks  == <<running, told>>
calls  == <<pc, tld, tx>>
vars   == <<swarms, clocks, tasks, stage, calls>>

Acquiring == {"lookup", "resolving", "recheck"}
PCs       == {"idle", "using"} \cup Acquiring

\* Someone owns a sender of n's channel: its receiver is not closed.
HasSender(n) == (\E t \in Tlds : swarms[t] = n) \/ (\E r \in Requests : tx[r] = n)
Unused(n)    == n \notin running /\ ~HasSender(n)

Init ==
  /\ swarms  = [t \in Tlds |-> NoNode]
  /\ idle    = [t \in Tlds |-> 0]
  /\ gcDue   = TRUE                 \* an interval's first tick is immediate
  /\ running = {}
  /\ told    = {}
  /\ stage   = "up"
  /\ pc      = [r \in Requests |-> "idle"]
  /\ tld     = [r \in Requests |-> NoTld]
  /\ tx      = [r \in Requests |-> NoNode]

-----------------------------------------------------------------------------
(* A request.                                                              *)

Begin(r) ==
  /\ pc[r] = "idle"
  /\ \E t \in Tlds : tld' = [tld EXCEPT ![r] = t]
  /\ pc' = [pc EXCEPT ![r] = "lookup"]
  /\ UNCHANGED <<swarms, clocks, tasks, stage, tx>>

\* The map has a handle: refresh last_used and clone its sender.
TakeHandle(r) ==
  /\ swarms[tld[r]] # NoNode
  /\ idle' = [idle EXCEPT ![tld[r]] = 0]
  /\ tx' = [tx EXCEPT ![r] = swarms[tld[r]]]
  /\ pc' = [pc EXCEPT ![r] = "using"]
  /\ UNCHANGED <<swarms, gcDue, tasks, stage, tld>>

LookupHit(r) == pc[r] = "lookup" /\ TakeHandle(r)

LookupMiss(r) ==
  /\ pc[r] = "lookup"
  /\ swarms[tld[r]] = NoNode
  /\ pc' = [pc EXCEPT ![r] = IF tld[r] \in Seeded THEN "resolving" ELSE "recheck"]
  /\ UNCHANGED <<swarms, clocks, tasks, stage, tld, tx>>

\* Mutant: after the seed lookup the call starts over instead of rechecking.
ResolveThenLookup(r) ==
  /\ pc[r] = "resolving"
  /\ pc' = [pc EXCEPT ![r] = "lookup"]
  /\ UNCHANGED <<swarms, clocks, tasks, stage, tld, tx>>

ResolveSeed(r) ==
  /\ pc[r] = "resolving"
  /\ pc' = [pc EXCEPT ![r] = "recheck"]
  /\ UNCHANGED <<swarms, clocks, tasks, stage, tld, tx>>

RecheckHit(r) == pc[r] = "recheck" /\ TakeHandle(r)

\* Start n for t, insert its handle, and give the caller the other sender.
StartNode(r, t, n) ==
  /\ Unused(n)
  /\ running' = running \cup {n}
  /\ swarms' = [swarms EXCEPT ![t] = n]
  /\ idle' = [idle EXCEPT ![t] = 0]
  /\ tx' = [tx EXCEPT ![r] = n]
  /\ pc' = [pc EXCEPT ![r] = "using"]
  /\ UNCHANGED <<gcDue, told, stage, tld>>

\* Mutant: the second look at the map is forgotten.
SpawnUnchecked(r) == pc[r] = "recheck" /\ \E n \in Nodes : StartNode(r, tld[r], n)

Spawn(r) ==
  /\ pc[r] = "recheck"
  /\ swarms[tld[r]] = NoNode
  /\ \E n \in Nodes : StartNode(r, tld[r], n)

Leave(r) ==
  /\ pc' = [pc EXCEPT ![r] = "idle"]
  /\ tld' = [tld EXCEPT ![r] = NoTld]
  /\ tx' = [tx EXCEPT ![r] = NoNode]
  /\ UNCHANGED <<swarms, clocks, tasks, stage>>

\* Mutant: the handle is inserted before the node is known to start.
SpawnFailsInserted(r) ==
  /\ pc[r] = "recheck"
  /\ swarms[tld[r]] = NoNode
  /\ \E n \in Nodes : Unused(n) /\ swarms' = [swarms EXCEPT ![tld[r]] = n]
  /\ pc' = [pc EXCEPT ![r] = "idle"]
  /\ tld' = [tld EXCEPT ![r] = NoTld]
  /\ UNCHANGED <<clocks, tasks, stage, tx>>

\* KineticAtlasNode::new fails: nothing is inserted.
SpawnFails(r) ==
  /\ pc[r] = "recheck"
  /\ swarms[tld[r]] = NoNode
  /\ Leave(r)

\* Mutant: the error path of a started call leaves the sender behind.
FinishKeepingSender(r) ==
  /\ pc[r] = "using"
  /\ pc' = [pc EXCEPT ![r] = "idle"]
  /\ tld' = [tld EXCEPT ![r] = NoTld]
  /\ UNCHANGED <<swarms, clocks, tasks, stage, tx>>

\* The handler returns a response or an error and drops its sender.
Finish(r) == pc[r] = "using" /\ Leave(r)

\* The client disconnects at an await before that: the handler is dropped.
Abandon(r) == pc[r] \in Acquiring /\ Leave(r)

-----------------------------------------------------------------------------
(* Time, the collector, the node tasks and shutdown.                       *)

Minute ==
  /\ idle' = [t \in Tlds |-> IF swarms[t] # NoNode /\ idle[t] <= IdleTimeout
                             THEN idle[t] + 1 ELSE idle[t]]
  /\ gcDue' = TRUE
  /\ UNCHANGED <<swarms, tasks, stage, calls>>

\* Mutant: the comparison is the wrong way round.
ExpiredSwapped(t) == swarms[t] # NoNode /\ idle[t] < IdleTimeout

Expired(t) == swarms[t] # NoNode /\ idle[t] > IdleTimeout

\* Mutant: the collector aborts the tasks of the handles it drops.
CollectGarbageAborting ==
  /\ gcDue
  /\ gcDue' = FALSE
  /\ swarms' = [t \in Tlds |-> IF Expired(t) THEN NoNode ELSE swarms[t]]
  /\ idle' = [t \in Tlds |-> IF Expired(t) THEN 0 ELSE idle[t]]
  /\ running' = running \ {swarms[t] : t \in {u \in Tlds : Expired(u)}}
  /\ UNCHANGED <<told, stage, calls>>

CollectGarbage ==
  /\ gcDue
  /\ gcDue' = FALSE
  /\ swarms' = [t \in Tlds |-> IF Expired(t) THEN NoNode ELSE swarms[t]]
  /\ idle' = [t \in Tlds |-> IF Expired(t) THEN 0 ELSE idle[t]]
  /\ UNCHANGED <<tasks, stage, calls>>

EndTask(n) ==
  /\ running' = running \ {n}
  /\ told' = told \ {n}
  /\ UNCHANGED <<swarms, clocks, stage, calls>>

\* Mutant: the task owns a clone of its own sender, so recv never returns None.
ChannelNeverCloses(n) == FALSE

\* query_rx.recv() returns None.
ChannelCloses(n) == n \in running /\ ~HasSender(n) /\ EndTask(n)

\* t_shutdown_rx.recv() returns.
HearShutdown(n) == n \in told /\ EndTask(n)

CtrlC ==
  /\ stage = "up"
  /\ stage' = "signalled"
  /\ told' = running
  /\ UNCHANGED <<swarms, clocks, running, calls>>

Exit ==
  /\ stage = "signalled"
  /\ stage' = "exited"
  /\ UNCHANGED <<swarms, clocks, tasks, calls>>

-----------------------------------------------------------------------------
Request(r) ==
  \/ Begin(r)
  \/ LookupHit(r) \/ LookupMiss(r) \/ ResolveSeed(r)
  \/ RecheckHit(r) \/ Spawn(r) \/ SpawnFails(r)
  \/ Finish(r) \/ Abandon(r)

Next ==
  \/ /\ stage # "exited"
     /\ \/ \E r \in Requests : Request(r)
        \/ \E n \in Nodes : ChannelCloses(n) \/ HearShutdown(n)
        \/ Minute \/ CollectGarbage \/ CtrlC \/ Exit
  \/ stage = "exited" /\ UNCHANGED vars

Safety == Init /\ [][Next]_vars

(***************************************************************************)
(* Tokio's mutex is first come, first served, so a call waiting for it is  *)
(* served; the DNS resolver gives up by itself; the runtime polls every    *)
(* task that is ready, and time passes.  No client has to call, and no     *)
(* handler has to finish: a gateway may keep one waiting for ever.         *)
(***************************************************************************)
Lookup(r)  == stage # "exited" /\ (LookupHit(r) \/ LookupMiss(r))
Recheck(r) == stage # "exited" /\ (RecheckHit(r) \/ Spawn(r) \/ SpawnFails(r))

Fairness ==
  /\ \A r \in Requests :
       /\ WF_vars(Lookup(r))
       /\ WF_vars(stage # "exited" /\ ResolveSeed(r))
       /\ WF_vars(Recheck(r))
  /\ \A n \in Nodes : WF_vars(stage # "exited" /\ (ChannelCloses(n) \/ HearShutdown(n)))
  /\ WF_vars(stage # "exited" /\ Minute)
  /\ WF_vars(stage # "exited" /\ CollectGarbage)

Spec == Safety /\ Fairness

-----------------------------------------------------------------------------
(* Properties.                                                             *)

\* Every variable has its type, a call owns a sender exactly while it uses
\* one, and only running nodes of a signalled process have a message to hear.
TypeOK ==
  /\ swarms \in [Tlds -> Nodes \cup {NoNode}]
  /\ idle \in [Tlds -> 0 .. IdleTimeout + 1]
  /\ gcDue \in BOOLEAN
  /\ running \subseteq Nodes
  /\ told \subseteq running
  /\ stage \in {"up", "signalled", "exited"}
  /\ pc \in [Requests -> PCs]
  /\ tld \in [Requests -> Tlds \cup {NoTld}]
  /\ tx \in [Requests -> Nodes \cup {NoNode}]
  /\ \A r \in Requests :
       /\ (pc[r] = "idle") = (tld[r] = NoTld)
       /\ (pc[r] = "using") = (tx[r] # NoNode)
  /\ stage = "up" => told = {}

\* Until Ctrl-C, a sender in the map or in a request's hands leads to a task
\* that still receives: no request is handed, or left with, a closed channel,
\* whatever the collector dropped meanwhile (swarm_manager.rs:45-52, 64-118).
LiveSenders ==
  stage = "up" => \A n \in Nodes : HasSender(n) => n \in running

\* Two requests that miss the map together start one node between them: a
\* handle in the map is never overwritten, only dropped by the collector
\* (swarm_manager.rs:84-88).
NeverReplaced ==
  [][\A t \in Tlds : swarms[t] # NoNode => swarms'[t] \in {swarms[t], NoNode}]_vars

\* The manager implements the pool of SwarmPool: lock, clock and double check
\* amount to one atomic grant.
Pool == INSTANCE SwarmPool WITH
  pool <- swarms, live <- running, want <- tld, hold <- tx,
  draining <- stage # "up"

PoolSpec == Pool!Spec

\* A call for a swarm gets one or fails; it cannot wait for the map, the
\* resolver or another request for ever.
AcquireEnds ==
  \A r \in Requests : pc[r] \in Acquiring ~> (pc[r] \notin Acquiring \/ stage = "exited")

\* A node nobody can reach any more stops: dropping its handle is enough to
\* shut it down, and no task outlives its last sender.
UnreachableStops ==
  \A n \in Nodes :
    (n \in running /\ ~HasSender(n)) ~> (n \notin running \/ stage = "exited")

\* A TLD that is asked for no more loses its swarm, though the collector and
\* the requests race for the map.
IdleReclaimed ==
  \A t \in Tlds :
    <>[](\A r \in Requests : tld[r] # t) => <>[](swarms[t] = NoNode \/ stage = "exited")
=============================================================================
