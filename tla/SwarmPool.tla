------------------------------ MODULE SwarmPool ------------------------------
(***************************************************************************)
(* What the swarm manager promises to the requests of the proxy, without   *)
(* its lock, its clock or its second look at the map: a pool that holds at *)
(* most one swarm per TLD.  A request asks for a TLD and, in one step, is  *)
(* granted the pooled swarm or a fresh one that enters the pool; a swarm   *)
(* may leave the pool at any time and stops once nobody can reach it, or   *)
(* once the process is draining.                                           *)
(***************************************************************************)
CONSTANTS
  Tlds, Requests, Nodes,
  NoTld, NoNode

VARIABLES
  pool,      \* [Tlds -> Nodes or NoNode]: the swarm a request for a TLD is given
  live,      \* the swarms whose background task runs
  want,      \* [Requests -> Tlds or NoTld]: what each request asked for
  hold,      \* [Requests -> Nodes or NoNode]: the swarm it was granted
  draining   \* the process has been told to shut down

vars == <<pool, live, want, hold, draining>>

Pooled(n) == \E t \in Tlds : pool[t] = n
Held(n)   == \E r \in Requests : hold[r] = n
Fresh(n)  == n \notin live /\ ~Pooled(n) /\ ~Held(n)

Init ==
  /\ pool = [t \in Tlds |-> NoNode]
  /\ live = {}
  /\ want = [r \in Requests |-> NoTld]
  /\ hold = [r \in Requests |-> NoNode]
  /\ draining = FALSE

Ask(r) ==
  /\ want[r] = NoTld
  /\ \E t \in Tlds : want' = [want EXCEPT ![r] = t]
  /\ UNCHANGED <<pool, live, hold, draining>>

Waiting(r) == want[r] # NoTld /\ hold[r] = NoNode

GrantPooled(r) ==
  /\ Waiting(r)
  /\ pool[want[r]] # NoNode
  /\ hold' = [hold EXCEPT ![r] = pool[want[r]]]
  /\ UNCHANGED <<pool, live, want, draining>>

GrantFresh(r) ==
  /\ Waiting(r)
  /\ pool[want[r]] = NoNode
  /\ \E n \in Nodes :
       /\ Fresh(n)
       /\ pool' = [pool EXCEPT ![want[r]] = n]
       /\ live' = live \cup {n}
       /\ hold' = [hold EXCEPT ![r] = n]
  /\ UNCHANGED <<want, draining>>

\* The request is answered, refused or given up.
Leave(r) ==
  /\ want[r] # NoTld
  /\ want' = [want EXCEPT ![r] = NoTld]
  /\ hold' = [hold EXCEPT ![r] = NoNode]
  /\ UNCHANGED <<pool, live, draining>>

Evict ==
  /\ \E gone \in SUBSET Tlds :
       pool' = [t \in Tlds |-> IF t \in gone THEN NoNode ELSE pool[t]]
  /\ UNCHANGED <<live, want, hold, draining>>

Stop(n) ==
  /\ n \in live
  /\ draining \/ (~Pooled(n) /\ ~Held(n))
  /\ live' = live \ {n}
  /\ UNCHANGED <<pool, want, hold, draining>>

Drain ==
  /\ draining' = TRUE
  /\ UNCHANGED <<pool, live, want, hold>>

Next ==
  \/ \E r \in Requests : Ask(r) \/ GrantPooled(r) \/ GrantFresh(r) \/ Leave(r)
  \/ \E n \in Nodes : Stop(n)
  \/ Evict
  \/ Drain

Spec == Init /\ [][Next]_vars
=============================================================================
