------------------------- MODULE SwarmManagerProofs -------------------------
(***************************************************************************)
(* Theorems about SwarmManager, for any TLDs, requests, nodes and timeout: *)
(* type correctness, that a sender leads to a running task until Ctrl-C,   *)
(* that the map's handles are never overwritten, that the manager          *)
(* implements SwarmPool, and the safety its liveness rests on: calls go on,*)
(* what is out of reach stays so, and a handle's clock is its TLD's own.   *)
(***************************************************************************)
EXTENDS SwarmManager, TLAPS

\* The actions a step of Next is made of, with what they change.
USE DEF clocks, tasks, calls

LEMMA InitTypeOK == Init => TypeOK
BY ConstantsAssumption DEF Init, TypeOK, PCs, Acquiring

LEMMA LeaveTypeOK ==
  ASSUME TypeOK, NEW r \in Requests, Leave(r)
  PROVE  TypeOK'
BY ConstantsAssumption DEF TypeOK, Leave, PCs, Acquiring

LEMMA TakeHandleTypeOK ==
  ASSUME TypeOK, NEW r \in Requests, pc[r] \in Acquiring, TakeHandle(r)
  PROVE  TypeOK'
<1>1. tld[r] \in Tlds /\ swarms[tld[r]] \in Nodes
  BY DEF TypeOK, TakeHandle, Acquiring
<1> QED
  BY <1>1, ConstantsAssumption DEF TypeOK, TakeHandle, PCs, Acquiring

LEMMA EndTaskTypeOK ==
  ASSUME TypeOK, NEW n \in Nodes, EndTask(n)
  PROVE  TypeOK'
BY DEF TypeOK, EndTask

\* Every step preserves the type invariant.
LEMMA NextTypeOK == TypeOK /\ [Next]_vars => TypeOK'
<1> SUFFICES ASSUME TypeOK, [Next]_vars PROVE TypeOK'
  OBVIOUS
<1>1. ASSUME NEW r \in Requests, Begin(r) PROVE TypeOK'
  BY <1>1, ConstantsAssumption DEF TypeOK, Begin, PCs, Acquiring
<1>2. ASSUME NEW r \in Requests, LookupHit(r) \/ RecheckHit(r) PROVE TypeOK'
  BY <1>2, TakeHandleTypeOK DEF LookupHit, RecheckHit, Acquiring
<1>3. ASSUME NEW r \in Requests, LookupMiss(r) \/ ResolveSeed(r) PROVE TypeOK'
  BY <1>3 DEF TypeOK, LookupMiss, ResolveSeed, PCs, Acquiring
<1>4. ASSUME NEW r \in Requests, Spawn(r) PROVE TypeOK'
  <2>1. PICK n \in Nodes : StartNode(r, tld[r], n)
    BY <1>4 DEF Spawn
  <2>2. pc[r] = "recheck" /\ tld[r] \in Tlds
    BY <1>4 DEF Spawn, TypeOK
  <2> QED
    BY <2>1, <2>2, ConstantsAssumption DEF TypeOK, StartNode, PCs, Acquiring
<1>5. ASSUME NEW r \in Requests, SpawnFails(r) \/ Finish(r) \/ Abandon(r) PROVE TypeOK'
  BY <1>5, LeaveTypeOK DEF SpawnFails, Finish, Abandon
<1>6. ASSUME NEW n \in Nodes, ChannelCloses(n) \/ HearShutdown(n) PROVE TypeOK'
  BY <1>6, EndTaskTypeOK DEF ChannelCloses, HearShutdown
<1>7. CASE Minute
  BY <1>7, ConstantsAssumption DEF TypeOK, Minute
<1>8. CASE CollectGarbage
  <2>1. swarms' \in [Tlds -> Nodes \cup {NoNode}]
    BY <1>8 DEF TypeOK, CollectGarbage
  <2>2. 0 \in 0 .. IdleTimeout + 1
    BY ConstantsAssumption
  <2>3. idle' \in [Tlds -> 0 .. IdleTimeout + 1]
    BY <1>8, <2>2 DEF TypeOK, CollectGarbage
  <2> QED
    BY <1>8, <2>1, <2>3 DEF TypeOK, CollectGarbage
<1>9. CASE CtrlC
  BY <1>9 DEF TypeOK, CtrlC
<1>10. CASE Exit
  BY <1>10 DEF TypeOK, Exit
<1>11. CASE UNCHANGED vars
  BY <1>11 DEF TypeOK, vars
<1> QED
  BY <1>1, <1>2, <1>3, <1>4, <1>5, <1>6, <1>7, <1>8, <1>9, <1>10, <1>11 DEF Next, Request

\* The type invariant holds in every reachable state.
THEOREM TypeCorrect == Spec => []TypeOK
BY InitTypeOK, NextTypeOK, PTL DEF Spec, Safety

-----------------------------------------------------------------------------
\* No step closes a channel someone still sends on, before Ctrl-C.
LEMMA NextLiveSenders == TypeOK /\ LiveSenders /\ [Next]_vars => LiveSenders'
<1> SUFFICES ASSUME TypeOK, LiveSenders, [Next]_vars, stage' = "up",
                    NEW n \in Nodes, HasSender(n)'
             PROVE  n \in running'
  BY DEF LiveSenders
<1>1. ASSUME NEW r \in Requests, Begin(r) PROVE n \in running'
  BY <1>1 DEF Begin, LiveSenders, HasSender
<1>2. ASSUME NEW r \in Requests, LookupHit(r) \/ RecheckHit(r) PROVE n \in running'
  BY <1>2 DEF LookupHit, RecheckHit, TakeHandle, LiveSenders, HasSender, TypeOK, Acquiring
<1>3. ASSUME NEW r \in Requests, LookupMiss(r) \/ ResolveSeed(r) PROVE n \in running'
  BY <1>3 DEF LookupMiss, ResolveSeed, LiveSenders, HasSender
<1>4. ASSUME NEW r \in Requests, Spawn(r) PROVE n \in running'
  <2>1. PICK m \in Nodes : StartNode(r, tld[r], m)
    BY <1>4 DEF Spawn
  <2>2. n # m => HasSender(n)
    BY <2>1 DEF StartNode, HasSender, TypeOK
  <2> QED
    BY <2>1, <2>2 DEF StartNode, LiveSenders
<1>5. ASSUME NEW r \in Requests, SpawnFails(r) \/ Finish(r) \/ Abandon(r)
      PROVE  n \in running'
  <2>1. Leave(r)
    BY <1>5 DEF SpawnFails, Finish, Abandon
  <2>2. n # NoNode
    BY ConstantsAssumption
  <2>3. HasSender(n)
    BY <2>1, <2>2 DEF Leave, HasSender, TypeOK
  <2> QED
    BY <2>1, <2>3 DEF Leave, LiveSenders
<1>6. ASSUME NEW m \in Nodes, ChannelCloses(m) PROVE n \in running'
  BY <1>6 DEF ChannelCloses, EndTask, LiveSenders, HasSender
<1>7. ASSUME NEW m \in Nodes, HearShutdown(m) PROVE n \in running'
  BY <1>7 DEF HearShutdown, EndTask, TypeOK
<1>8. CASE Minute
  BY <1>8 DEF Minute, LiveSenders, HasSender
<1>9. CASE CollectGarbage
  <2>1. HasSender(n)
    BY <1>9, ConstantsAssumption DEF CollectGarbage, HasSender, TypeOK
  <2> QED
    BY <1>9, <2>1 DEF CollectGarbage, LiveSenders
<1>10. CASE CtrlC \/ Exit
  BY <1>10 DEF CtrlC, Exit
<1>11. CASE UNCHANGED vars
  BY <1>11 DEF vars, LiveSenders, HasSender
<1> QED
  BY <1>1, <1>2, <1>3, <1>4, <1>5, <1>6, <1>7, <1>8, <1>9, <1>10, <1>11 DEF Next, Request

\* Until Ctrl-C no one owns a sender of a closed channel, whatever the
\* collector drops while requests are under way.
THEOREM SendersLead == Spec => []LiveSenders
<1>1. Init => LiveSenders
  BY ConstantsAssumption DEF Init, LiveSenders, HasSender
<1>2. Spec => []TypeOK
  BY TypeCorrect
<1> QED
  BY <1>1, <1>2, NextLiveSenders, PTL DEF Spec, Safety

-----------------------------------------------------------------------------
\* A handle in the map is dropped by the collector or stays: the recheck
\* under the lock keeps two racing calls from inserting one each.
THEOREM HandlesStay == Spec => NeverReplaced
<1>1. TypeOK /\ [Next]_vars
        => [\A t \in Tlds : swarms[t] # NoNode => swarms'[t] \in {swarms[t], NoNode}]_vars
  <2> SUFFICES ASSUME TypeOK, Next, NEW t \in Tlds, swarms[t] # NoNode
               PROVE  swarms'[t] \in {swarms[t], NoNode}
    OBVIOUS
  <2>1. ASSUME NEW r \in Requests, Spawn(r) PROVE swarms'[t] \in {swarms[t], NoNode}
    BY <2>1 DEF Spawn, StartNode, TypeOK
  <2>2. CASE CollectGarbage
    BY <2>2 DEF CollectGarbage
  <2>3. ASSUME NEW r \in Requests, Request(r), ~Spawn(r) PROVE swarms' = swarms
    BY <2>3 DEF Request, Begin, LookupHit, LookupMiss, ResolveSeed, RecheckHit, TakeHandle,
                SpawnFails, Finish, Abandon, Leave
  <2>4. ASSUME NEW n \in Nodes, ChannelCloses(n) \/ HearShutdown(n) PROVE swarms' = swarms
    BY <2>4 DEF ChannelCloses, HearShutdown, EndTask
  <2>5. CASE Minute \/ CtrlC \/ Exit \/ UNCHANGED vars
    BY <2>5 DEF Minute, CtrlC, Exit, vars
  <2> QED
    BY <2>1, <2>2, <2>3, <2>4, <2>5 DEF Next
<1>2. Spec => []TypeOK
  BY TypeCorrect
<1> QED
  BY <1>1, <1>2, PTL DEF Spec, Safety, NeverReplaced

-----------------------------------------------------------------------------
(* Who shares a node.                                                      *)

\* n is the node of the map's handle for t, or a request for t holds it.
Serves(n, t) == swarms[t] = n \/ \E r \in Requests : tx[r] = n /\ tld[r] = t

\* No node is shared between TLDs, although identities are used again and
\* requests keep nodes that the map has let go of (swarm_manager.rs:43-118).
OneTldPerNode ==
  \A n \in Nodes : \A t, u \in Tlds : Serves(n, t) /\ Serves(n, u) => t = u

\* A step after which n serves no TLD that it did not serve before.
LEMMA NobodyElse ==
  ASSUME OneTldPerNode, NEW n \in Nodes,
         \A t \in Tlds : Serves(n, t)' => Serves(n, t)
  PROVE  \A t, u \in Tlds : Serves(n, t)' /\ Serves(n, u)' => t = u
BY DEF OneTldPerNode

LEMMA NextOneTld == TypeOK /\ OneTldPerNode /\ [Next]_vars => OneTldPerNode'
<1> SUFFICES ASSUME TypeOK, OneTldPerNode, [Next]_vars, NEW n \in Nodes
             PROVE  \A t, u \in Tlds : Serves(n, t)' /\ Serves(n, u)' => t = u
  BY DEF OneTldPerNode
<1>0. n # NoNode
  BY ConstantsAssumption
<1>1. ASSUME NEW r \in Requests, Begin(r) PROVE \A t \in Tlds : Serves(n, t)' => Serves(n, t)
  <2>1. tx[r] = NoNode
    BY <1>1 DEF Begin, TypeOK
  <2> QED
    BY <1>0, <1>1, <2>1 DEF Begin, Serves, TypeOK
<1>2. ASSUME NEW r \in Requests, LookupHit(r) \/ RecheckHit(r)
      PROVE  \A t \in Tlds : Serves(n, t)' => Serves(n, t)
  BY <1>2 DEF LookupHit, RecheckHit, TakeHandle, Serves, TypeOK
<1>3. ASSUME NEW r \in Requests, LookupMiss(r) \/ ResolveSeed(r)
      PROVE  \A t \in Tlds : Serves(n, t)' => Serves(n, t)
  BY <1>3 DEF LookupMiss, ResolveSeed, Serves
<1>4. ASSUME NEW r \in Requests, NEW m \in Nodes, StartNode(r, tld[r], m)
      PROVE  \A t, u \in Tlds : Serves(n, t)' /\ Serves(n, u)' => t = u
  <2>1. CASE n # m
    <3>1. \A t \in Tlds : Serves(n, t)' => Serves(n, t)
      BY <1>4, <2>1 DEF StartNode, Serves, TypeOK
    <3> QED
      BY <3>1, NobodyElse
  <2>2. CASE n = m
    <3>1. \A t \in Tlds : Serves(n, t)' => t = tld[r]
      BY <1>4, <2>2 DEF StartNode, Unused, HasSender, Serves, TypeOK
    <3> QED
      BY <3>1
  <2> QED
    BY <2>1, <2>2
<1>5. ASSUME NEW r \in Requests, SpawnFails(r) \/ Finish(r) \/ Abandon(r)
      PROVE  \A t \in Tlds : Serves(n, t)' => Serves(n, t)
  BY <1>0, <1>5 DEF SpawnFails, Finish, Abandon, Leave, Serves, TypeOK
<1>6. ASSUME NEW m \in Nodes, ChannelCloses(m) \/ HearShutdown(m)
      PROVE  \A t \in Tlds : Serves(n, t)' => Serves(n, t)
  BY <1>6 DEF ChannelCloses, HearShutdown, EndTask, Serves
<1>7. CASE Minute \/ CtrlC \/ Exit \/ UNCHANGED vars
  <2>1. \A t \in Tlds : Serves(n, t)' => Serves(n, t)
    BY <1>7 DEF Minute, CtrlC, Exit, vars, Serves
  <2> QED
    BY <2>1, NobodyElse
<1>8. CASE CollectGarbage
  <2>1. \A t \in Tlds : Serves(n, t)' => Serves(n, t)
    BY <1>0, <1>8 DEF CollectGarbage, Serves
  <2> QED
    BY <2>1, NobodyElse
<1> QED
  BY <1>1, <1>2, <1>3, <1>4, <1>5, <1>6, <1>7, <1>8, NobodyElse DEF Next, Request, Spawn

\* Whoever holds a node, the map or a request, holds it for one TLD.
THEOREM NodesApart == Spec => []OneTldPerNode
<1>1. Init => OneTldPerNode
  BY ConstantsAssumption DEF Init, OneTldPerNode, Serves
<1> QED
  BY <1>1, TypeCorrect, NextOneTld, PTL DEF Spec, Safety

-----------------------------------------------------------------------------
(* What the liveness of the manager rests on: nothing sends a call back,   *)
(* revives a node, or keeps alive what nobody asks for.                    *)

\* The critical sections a call still has before it.
Ahead(p) ==
  CASE p = "lookup" -> 3 [] p = "resolving" -> 2 [] p = "recheck" -> 1 [] OTHER -> 0

\* A call for a swarm never goes back: at most three steps of its own lead to a
\* node or an error, whoever gets the mutex in between (swarm_manager.rs:58-118).
CallsAdvance ==
  [][\A r \in Requests :
       pc[r] \in Acquiring /\ pc'[r] # pc[r] => Ahead(pc'[r]) < Ahead(pc[r])]_vars

\* No order of the others' steps sends a call back to its first look at the map.
THEOREM CallsGoOn == Spec => CallsAdvance
<1>1. TypeOK /\ [Next]_vars =>
        [\A r \in Requests :
           pc[r] \in Acquiring /\ pc'[r] # pc[r] => Ahead(pc'[r]) < Ahead(pc[r])]_vars
  <2> SUFFICES ASSUME TypeOK, Next, NEW r \in Requests, pc[r] \in Acquiring, pc'[r] # pc[r]
               PROVE  Ahead(pc'[r]) < Ahead(pc[r])
    OBVIOUS
  <2>1. PICK q \in Requests : Request(q)
    BY DEF Next, ChannelCloses, HearShutdown, EndTask, Minute, CollectGarbage, CtrlC, Exit, vars
  <2>2. q = r
    BY <2>1 DEF Request, Begin, LookupHit, LookupMiss, ResolveSeed, RecheckHit, TakeHandle,
                Spawn, StartNode, SpawnFails, Finish, Abandon, Leave, TypeOK
  <2>3. CASE LookupHit(r) \/ RecheckHit(r) \/ Spawn(r) \/ SpawnFails(r) \/ Abandon(r)
    <3>1. pc'[r] \in {"using", "idle"}
      BY <2>3 DEF LookupHit, RecheckHit, TakeHandle, Spawn, StartNode, SpawnFails, Abandon,
                  Leave, TypeOK
    <3> QED
      BY <3>1 DEF Ahead, Acquiring
  <2>4. CASE LookupMiss(r) \/ ResolveSeed(r)
    BY <2>4 DEF LookupMiss, ResolveSeed, Ahead, TypeOK
  <2> QED
    BY <2>1, <2>2, <2>3, <2>4 DEF Request, Begin, Finish, Acquiring
<1> QED
  BY <1>1, TypeCorrect, PTL DEF Spec, Safety, CallsAdvance

\* A node that nobody can reach is out of reach until its task has ended: no
\* request, the map or a new node's identity leads to it (swarm_manager.rs:43-55).
UnreachableStays ==
  [][\A n \in running : ~HasSender(n) /\ n \in running' => ~HasSender(n)']_vars

\* A task without senders ends without having been handed out again.
THEOREM UnreachableForGood == Spec => UnreachableStays
<1>1. TypeOK /\ [Next]_vars =>
        [\A n \in running : ~HasSender(n) /\ n \in running' => ~HasSender(n)']_vars
  <2> SUFFICES ASSUME TypeOK, Next, NEW n \in running, ~HasSender(n) PROVE ~HasSender(n)'
    OBVIOUS
  <2>0. n # NoNode
    BY ConstantsAssumption DEF TypeOK
  <2>1. ASSUME NEW r \in Requests, LookupHit(r) \/ RecheckHit(r) PROVE ~HasSender(n)'
    BY <2>1 DEF LookupHit, RecheckHit, TakeHandle, HasSender, TypeOK, Acquiring
  <2>2. ASSUME NEW r \in Requests, Spawn(r) PROVE ~HasSender(n)'
    <3>1. PICK m \in Nodes : StartNode(r, tld[r], m)
      BY <2>2 DEF Spawn
    <3>2. m # n
      BY <3>1 DEF StartNode, Unused
    <3> QED
      BY <3>1, <3>2 DEF StartNode, HasSender, TypeOK
  <2>3. ASSUME NEW r \in Requests, SpawnFails(r) \/ Finish(r) \/ Abandon(r)
        PROVE  ~HasSender(n)'
    BY <2>0, <2>3 DEF SpawnFails, Finish, Abandon, Leave, HasSender, TypeOK
  <2>4. CASE CollectGarbage
    BY <2>0, <2>4 DEF CollectGarbage, HasSender
  <2>5. CASE UNCHANGED <<swarms, tx>>
    BY <2>5 DEF HasSender
  <2> QED
    BY <2>1, <2>2, <2>3, <2>4, <2>5
       DEF Next, Request, Begin, LookupMiss, ResolveSeed, ChannelCloses, HearShutdown, EndTask,
           Minute, CtrlC, Exit, vars
<1> QED
  BY <1>1, TypeCorrect, PTL DEF Spec, Safety, UnreachableStays

\* Only a request for the same TLD that is handed the node sets the clock of a
\* handle back: other TLDs, requests that fail and ones that hold the node keep
\* none from expiring (swarm_manager.rs:45, 64-69, 84-88).
OwnClock ==
  [][\A t \in Tlds : swarms[t] # NoNode /\ swarms'[t] # NoNode /\ idle'[t] < idle[t] =>
       \E r \in Requests : tld[r] = t /\ pc[r] \in Acquiring /\ tx'[r] = swarms[t]]_vars

\* A handle nobody calls for grows old without interruption.
THEOREM ClocksRunOn == Spec => OwnClock
<1>1. TypeOK /\ [Next]_vars =>
        [\A t \in Tlds : swarms[t] # NoNode /\ swarms'[t] # NoNode /\ idle'[t] < idle[t] =>
           \E r \in Requests : tld[r] = t /\ pc[r] \in Acquiring /\ tx'[r] = swarms[t]]_vars
  <2> SUFFICES ASSUME TypeOK, Next, NEW t \in Tlds,
                      swarms[t] # NoNode, swarms'[t] # NoNode, idle'[t] < idle[t]
               PROVE  \E r \in Requests : tld[r] = t /\ pc[r] \in Acquiring /\ tx'[r] = swarms[t]
    OBVIOUS
  <2>0. idle[t] \in Nat
    BY ConstantsAssumption DEF TypeOK
  <2>1. ASSUME NEW r \in Requests, pc[r] \in Acquiring, TakeHandle(r)
        PROVE  tld[r] = t /\ tx'[r] = swarms[t]
    BY <2>0, <2>1 DEF TakeHandle, TypeOK
  <2>2. ASSUME NEW r \in Requests, Spawn(r) PROVE FALSE
    BY <2>0, <2>2 DEF Spawn, StartNode, TypeOK
  <2>3. CASE Minute \/ CollectGarbage
    BY <2>0, <2>3 DEF Minute, CollectGarbage
  <2>4. CASE UNCHANGED idle
    BY <2>0, <2>4
  <2> QED
    BY <2>1, <2>2, <2>3, <2>4
       DEF Next, Request, Begin, LookupHit, LookupMiss, ResolveSeed, RecheckHit, SpawnFails,
           Finish, Abandon, Leave, ChannelCloses, HearShutdown, EndTask, CtrlC, Exit, vars,
           Acquiring
<1> QED
  BY <1>1, TypeCorrect, PTL DEF Spec, Safety, OwnClock

-----------------------------------------------------------------------------
(* The manager implements the pool.  Looking, resolving, the clock and a   *)
(* missed lookup are stuttering steps; every other action is one of the    *)
(* pool's.                                                                 *)

\* A call that takes the map's handle is granted the pooled swarm.
LEMMA TakeHandleGrants ==
  ASSUME TypeOK, NEW r \in Requests, pc[r] \in Acquiring, TakeHandle(r)
  PROVE  Pool!GrantPooled(r)
<1>1. Pool!Waiting(r)
  BY DEF TypeOK, Acquiring, Pool!Waiting
<1> QED
  BY <1>1 DEF TakeHandle, Pool!GrantPooled

\* A call that starts a node is granted a swarm nobody knew.
LEMMA SpawnGrants ==
  ASSUME TypeOK, NEW r \in Requests, Spawn(r)
  PROVE  Pool!GrantFresh(r)
<1>1. PICK n \in Nodes : StartNode(r, tld[r], n)
  BY DEF Spawn
<1>2. Pool!Waiting(r)
  BY DEF Spawn, TypeOK, Pool!Waiting
<1>3. Pool!Fresh(n)
  BY <1>1 DEF StartNode, Unused, HasSender, Pool!Fresh, Pool!Pooled, Pool!Held
<1> QED
  BY <1>1, <1>2, <1>3 DEF Spawn, StartNode, Pool!GrantFresh

\* Every way a handler ends gives the pool back what it was granted.
LEMMA LeaveLeaves ==
  ASSUME TypeOK, NEW r \in Requests, pc[r] # "idle", Leave(r)
  PROVE  Pool!Leave(r)
BY DEF TypeOK, Leave, Pool!Leave, tasks

\* A task ends only when it is unreachable or the process drains.
LEMMA EndStops ==
  ASSUME TypeOK, NEW n \in Nodes, ChannelCloses(n) \/ HearShutdown(n)
  PROVE  Pool!Stop(n)
<1>1. n \in running /\ EndTask(n)
  BY DEF ChannelCloses, HearShutdown, TypeOK
<1>2. stage # "up" \/ ~HasSender(n)
  BY DEF ChannelCloses, HearShutdown, TypeOK
<1> QED
  BY <1>1, <1>2 DEF EndTask, HasSender, Pool!Stop, Pool!Pooled, Pool!Held

\* Every step of the manager is a step of the pool or leaves it unchanged.
LEMMA NextImplementsPool == TypeOK /\ [Next]_vars => [Pool!Next]_(Pool!vars)
<1> SUFFICES ASSUME TypeOK, [Next]_vars PROVE Pool!Next \/ UNCHANGED Pool!vars
  OBVIOUS
<1>1. ASSUME NEW r \in Requests, Begin(r) PROVE Pool!Next
  <2>1. Pool!Ask(r)
    BY <1>1 DEF Begin, TypeOK, Pool!Ask
  <2> QED
    BY <2>1 DEF Pool!Next
<1>2. ASSUME NEW r \in Requests, LookupHit(r) \/ RecheckHit(r) PROVE Pool!Next
  <2>1. Pool!GrantPooled(r)
    BY <1>2, TakeHandleGrants DEF LookupHit, RecheckHit, Acquiring
  <2> QED
    BY <2>1 DEF Pool!Next
<1>3. ASSUME NEW r \in Requests, LookupMiss(r) \/ ResolveSeed(r) PROVE UNCHANGED Pool!vars
  BY <1>3 DEF LookupMiss, ResolveSeed, Pool!vars
<1>4. ASSUME NEW r \in Requests, Spawn(r) PROVE Pool!Next
  BY <1>4, SpawnGrants DEF Pool!Next
<1>5. ASSUME NEW r \in Requests, SpawnFails(r) \/ Finish(r) \/ Abandon(r) PROVE Pool!Next
  <2>1. Pool!Leave(r)
    BY <1>5, LeaveLeaves DEF SpawnFails, Finish, Abandon, Acquiring
  <2> QED
    BY <2>1 DEF Pool!Next
<1>6. ASSUME NEW n \in Nodes, ChannelCloses(n) \/ HearShutdown(n) PROVE Pool!Next
  BY <1>6, EndStops DEF Pool!Next
<1>7. CASE CollectGarbage
  <2>1. swarms' = [t \in Tlds |-> IF t \in {u \in Tlds : Expired(u)} THEN NoNode ELSE swarms[t]]
    BY <1>7 DEF CollectGarbage
  <2>2. {u \in Tlds : Expired(u)} \in SUBSET Tlds
    OBVIOUS
  <2>3. Pool!Evict
    BY <1>7, <2>1, <2>2 DEF CollectGarbage, Pool!Evict
  <2> QED
    BY <2>3 DEF Pool!Next
<1>8. CASE CtrlC
  BY <1>8 DEF CtrlC, Pool!Drain, Pool!Next
<1>9. CASE Minute \/ UNCHANGED vars
  BY <1>9 DEF Minute, vars, Pool!vars
<1>10. CASE Exit
  BY <1>10 DEF Exit, Pool!vars
<1> QED
  BY <1>1, <1>2, <1>3, <1>4, <1>5, <1>6, <1>7, <1>8, <1>9, <1>10 DEF Next, Request

\* Lock, clock and double check amount to one atomic grant from a pool with
\* at most one swarm per TLD, however many requests race for it.
THEOREM ImplementsPool == Spec => PoolSpec
<1>1. Init => Pool!Init
  BY DEF Init, Pool!Init
<1>2. Spec => []TypeOK
  BY TypeCorrect
<1> QED
  BY <1>1, <1>2, NextImplementsPool, PTL DEF Spec, Safety, PoolSpec, Pool!Spec
=============================================================================
