---------------------------- MODULE AtlasProofs ----------------------------
(***************************************************************************)
(* Theorems about Atlas, for any TLDs, configurations, requests, nodes and *)
(* timeout: the daemon's manager is a manager of SwarmManager, so that all *)
(* of SwarmManagerProofs holds of it; type correctness; that a request is  *)
(* only ever given a node of its own TLD; and that a TLD that has caught   *)
(* up with the registry stays up to date.                                  *)
(***************************************************************************)
EXTENDS Atlas, SwarmManagerProofs

USE DEF atlas, clocks, tasks, calls

\* Forgetting configurations, a step of the daemon is one of the manager.
LEMMA NextIsManagers == [AtlasNext]_avars => [Next]_vars
<1> SUFFICES ASSUME AtlasNext PROVE [Next]_vars
  BY DEF avars
<1>1. ASSUME stage # "exited", NEW r \in Requests, AtlasRequest(r) PROVE Next
  BY <1>1 DEF AtlasRequest, Admit, Acquire, SpawnBound, Quit, Request, Next
<1>2. ASSUME stage # "exited", NEW n \in Nodes, EndBound(n) PROVE Next
  BY <1>2 DEF EndBound, Next
<1>3. CASE Reload
  BY <1>3 DEF Reload
<1>4. CASE stage # "exited" /\ (Minute \/ CollectGarbage \/ CtrlC \/ Exit)
  BY <1>4 DEF Next
<1>5. CASE stage = "exited" /\ UNCHANGED avars
  BY <1>5 DEF avars
<1> QED
  BY <1>1, <1>2, <1>3, <1>4, <1>5 DEF AtlasNext

\* The daemon's manager, with reloads around it, behaves as SwarmManager says,
\* its fairness and so its liveness included.
THEOREM IsSwarmManager == AtlasSpec => Spec
<1>1. AtlasInit => Init
  BY DEF AtlasInit
<1> QED
  BY <1>1, NextIsManagers, PTL DEF AtlasSpec, Spec, Safety

\* What SwarmManagerProofs says of the states.
LEMMA ManagerInvariants == AtlasSpec => [](TypeOK /\ LiveSenders)
BY IsSwarmManager, TypeCorrect, SendersLead, PTL

-----------------------------------------------------------------------------
\* The inductive invariant: the map, too, leads to nodes of the right TLD.
OfItsTld(n, t) == bound[n] \in ConfigsOf[t]

AtlasInv ==
  /\ AtlasTypeOK
  /\ \A r \in Requests : pc[r] # "idle" => config[r] \in ConfigsOf[tld[r]]
  /\ stage = "up" =>
       /\ \A t \in Tlds : swarms[t] # NoNode => OfItsTld(swarms[t], t)
       /\ \A r \in Requests : tx[r] # NoNode => OfItsTld(tx[r], tld[r])

LEMMA InitAtlasInv == AtlasInit => AtlasInv
BY InitTypeOK DEF AtlasInit, Init, AtlasInv, AtlasTypeOK

\* A request that comes in has a copy of its own TLD's configuration.
LEMMA AdmitAtlasInv ==
  ASSUME AtlasInv, TypeOK', NEW r \in Requests, Admit(r)
  PROVE  AtlasInv'
<1>1. PICK t \in Tlds : tld' = [tld EXCEPT ![r] = t]
  BY DEF Admit, Begin
<1>2. pc[r] = "idle" /\ pc' = [pc EXCEPT ![r] = "lookup"]
      /\ UNCHANGED <<swarms, running, stage, tx, registry, bound>>
  BY DEF Admit, Begin
<1>3. tld'[r] = t /\ registry[t] \in ConfigsOf[t] /\ registry[t] # NoConfig
      /\ config' = [config EXCEPT ![r] = registry[t]]
  BY <1>1 DEF Admit, AtlasInv, AtlasTypeOK, TypeOK, Registries
<1>4. registry[t] \in Configs
  BY <1>3, AtlasAssumption
<1>5. AtlasTypeOK'
  BY <1>2, <1>3, <1>4 DEF AtlasInv, AtlasTypeOK, TypeOK
<1>6. tx[r] = NoNode
  BY <1>2 DEF AtlasInv, AtlasTypeOK, TypeOK
<1> QED
  BY <1>1, <1>2, <1>3, <1>5, <1>6 DEF AtlasInv, AtlasTypeOK, TypeOK, OfItsTld

\* A handle of the map is one of the TLD the request asks for.
LEMMA AcquireAtlasInv ==
  ASSUME AtlasInv, TypeOK', NEW r \in Requests, Acquire(r)
  PROVE  AtlasInv'
<1>1. CASE LookupHit(r) \/ RecheckHit(r)
  <2>1. pc[r] \in Acquiring /\ TakeHandle(r)
    BY <1>1 DEF LookupHit, RecheckHit, Acquiring
  <2>2. tld[r] \in Tlds /\ pc[r] # "idle"
    BY <2>1 DEF AtlasInv, AtlasTypeOK, TypeOK, Acquiring
  <2>3. AtlasTypeOK'
    BY <2>1, <2>2 DEF TakeHandle, Acquire, AtlasInv, AtlasTypeOK, TypeOK
  <2> QED
    BY <2>1, <2>2, <2>3 DEF TakeHandle, Acquire, AtlasInv, AtlasTypeOK, TypeOK, OfItsTld
<1>2. CASE LookupMiss(r) \/ ResolveSeed(r)
  <2>1. pc[r] # "idle" /\ \A q \in Requests : (pc'[q] = "idle") = (pc[q] = "idle")
    BY <1>2 DEF LookupMiss, ResolveSeed, AtlasInv, AtlasTypeOK, TypeOK
  <2>2. UNCHANGED <<swarms, running, stage, tld, tx, registry, config, bound>>
    BY <1>2 DEF LookupMiss, ResolveSeed, Acquire
  <2>3. AtlasTypeOK'
    BY <2>1, <2>2 DEF AtlasInv, AtlasTypeOK
  <2> QED
    BY <2>1, <2>2, <2>3 DEF AtlasInv, OfItsTld
<1> QED
  BY <1>1, <1>2 DEF Acquire

\* A node that is started disturbs none that somebody can reach.
LEMMA SpawnAtlasInv ==
  ASSUME AtlasInv, TypeOK', NEW r \in Requests, SpawnBound(r)
  PROVE  AtlasInv'
<1>1. PICK n \in Nodes : StartNode(r, tld[r], n)
  BY DEF SpawnBound, Spawn
<1>2. pc[r] = "recheck" /\ tld[r] \in Tlds
  BY DEF SpawnBound, Spawn, AtlasInv, AtlasTypeOK, TypeOK
<1>3. tx' = [tx EXCEPT ![r] = n] /\ bound' = [bound EXCEPT ![n] = config[r]]
  BY <1>1 DEF SpawnBound, StartNode, AtlasInv, AtlasTypeOK, TypeOK
<1>4. config[r] \in ConfigsOf[tld[r]] /\ config[r] \in Configs /\ config[r] # NoConfig
  BY <1>2 DEF AtlasInv, AtlasTypeOK
<1>5. AtlasTypeOK'
  BY <1>1, <1>2, <1>3, <1>4 DEF SpawnBound, StartNode, AtlasInv, AtlasTypeOK, TypeOK
<1>6. \A t \in Tlds : swarms[t] # n
  BY <1>1 DEF StartNode, Unused, HasSender
<1>7. \A q \in Requests : tx[q] # n
  BY <1>1 DEF StartNode, Unused, HasSender
<1> QED
  BY <1>1, <1>2, <1>3, <1>4, <1>5, <1>6, <1>7
  DEF SpawnBound, StartNode, AtlasInv, AtlasTypeOK, TypeOK, OfItsTld

LEMMA QuitAtlasInv ==
  ASSUME AtlasInv, TypeOK', NEW r \in Requests, Quit(r)
  PROVE  AtlasInv'
<1>1. pc[r] # "idle" /\ Leave(r)
  BY DEF Quit, SpawnFails, Finish, Abandon, Acquiring
<1>2. AtlasTypeOK'
  BY <1>1 DEF Quit, Leave, AtlasInv, AtlasTypeOK, TypeOK
<1> QED
  BY <1>1, <1>2 DEF Quit, Leave, AtlasInv, AtlasTypeOK, TypeOK, OfItsTld

\* A task that ends while nothing was signalled is one nobody could reach.
LEMMA EndAtlasInv ==
  ASSUME AtlasInv, TypeOK', NEW n \in Nodes, EndBound(n)
  PROVE  AtlasInv'
<1>1. EndTask(n) /\ bound' = [bound EXCEPT ![n] = NoConfig] /\ UNCHANGED <<registry, config>>
  BY DEF EndBound, ChannelCloses, HearShutdown
<1>2. AtlasTypeOK'
  BY <1>1 DEF EndTask, AtlasInv, AtlasTypeOK, TypeOK
<1>3. stage = "up" => ~HasSender(n)
  BY DEF EndBound, ChannelCloses, HearShutdown, AtlasInv, AtlasTypeOK, TypeOK
<1> QED
  BY <1>1, <1>2, <1>3 DEF EndTask, AtlasInv, AtlasTypeOK, TypeOK, OfItsTld, HasSender

\* Every step preserves the invariant.
LEMMA NextAtlasInv == AtlasInv /\ [AtlasNext]_avars => AtlasInv'
<1> SUFFICES ASSUME AtlasInv, [AtlasNext]_avars PROVE AtlasInv'
  OBVIOUS
<1>0. TypeOK'
  BY NextIsManagers, NextTypeOK DEF AtlasInv, AtlasTypeOK
<1>1. ASSUME NEW r \in Requests, AtlasRequest(r) PROVE AtlasInv'
  BY <1>0, <1>1, AdmitAtlasInv, AcquireAtlasInv, SpawnAtlasInv, QuitAtlasInv DEF AtlasRequest
<1>2. ASSUME NEW n \in Nodes, EndBound(n) PROVE AtlasInv'
  BY <1>0, <1>2, EndAtlasInv
<1>3. CASE Reload
  BY <1>0, <1>3 DEF Reload, vars, AtlasInv, AtlasTypeOK, OfItsTld
<1>4. CASE (Minute \/ CtrlC \/ Exit) /\ UNCHANGED atlas
  BY <1>0, <1>4 DEF Minute, CtrlC, Exit, AtlasInv, AtlasTypeOK, OfItsTld
<1>5. CASE CollectGarbage /\ UNCHANGED atlas
  BY <1>0, <1>5 DEF CollectGarbage, AtlasInv, AtlasTypeOK, OfItsTld
<1>6. CASE UNCHANGED avars
  BY <1>0, <1>6 DEF avars, vars, AtlasInv, AtlasTypeOK, OfItsTld
<1> QED
  BY <1>1, <1>2, <1>3, <1>4, <1>5, <1>6 DEF AtlasNext

LEMMA AtlasInvariant == AtlasSpec => []AtlasInv
BY InitAtlasInv, NextAtlasInv, PTL DEF AtlasSpec

\* The type invariant holds in every reachable state.
THEOREM AtlasTypeCorrect == AtlasSpec => []AtlasTypeOK
<1>1. AtlasInv => AtlasTypeOK
  BY DEF AtlasInv
<1> QED
  BY <1>1, AtlasInvariant, PTL

\* Until Ctrl-C no reload, however it falls between the steps of the requests,
\* gives a request the node, or leaves it the configuration, of another TLD.
THEOREM NodesFit == AtlasSpec => []NodeOfItsTld
<1>1. AtlasInv => NodeOfItsTld
  BY DEF AtlasInv, NodeOfItsTld, OfItsTld
<1> QED
  BY <1>1, AtlasInvariant, PTL
-----------------------------------------------------------------------------
(* What is up to date stays so.                                            *)

\* The node a request starts runs with the request's own copy, and takes no
\* identity that the map leads to for another TLD.
LEMMA SpawnStaysFresh ==
  ASSUME AtlasInv, NEW t \in Tlds, Fresh(t), NEW r \in Requests, SpawnBound(r)
  PROVE  Fresh(t)'
<1>1. PICK n \in Nodes : StartNode(r, tld[r], n)
  BY DEF SpawnBound, Spawn
<1>2. pc[r] = "recheck" /\ tld[r] \in Tlds
  BY DEF SpawnBound, Spawn, AtlasInv, AtlasTypeOK, TypeOK
<1>3. /\ bound' = [bound EXCEPT ![n] = config[r]] /\ swarms' = [swarms EXCEPT ![tld[r]] = n]
      /\ UNCHANGED <<tld, config, registry>>
  BY <1>1 DEF SpawnBound, StartNode, AtlasInv, AtlasTypeOK, TypeOK
<1>4. swarms[t] # n
  BY <1>1 DEF StartNode, Unused, HasSender
<1>5. CASE t = tld[r]
  <2>1. config[r] = registry[t]
    BY <1>5 DEF Fresh
  <2> QED
    BY <1>2, <1>3, <1>5, <2>1 DEF Fresh, AtlasInv, AtlasTypeOK, TypeOK
<1>6. CASE t # tld[r]
  BY <1>2, <1>3, <1>4, <1>6 DEF Fresh, AtlasInv, AtlasTypeOK, TypeOK
<1> QED
  BY <1>5, <1>6

\* A step that leaves t's entry alone leaves t up to date.
LEMMA StepStaysFresh ==
  ASSUME AtlasInv, [AtlasNext]_avars, NEW t \in Tlds, Fresh(t),
         registry'[t] = registry[t], stage' = "up"
  PROVE  Fresh(t)'
<1> USE DEF AtlasInv, AtlasTypeOK
<1>1. ASSUME NEW r \in Requests, Admit(r) PROVE Fresh(t)'
  <2>1. PICK u \in Tlds : tld' = [tld EXCEPT ![r] = u]
    BY <1>1 DEF Admit, Begin
  <2>2. tld'[r] = u
    BY <2>1 DEF TypeOK
  <2> QED
    BY <1>1, <2>1, <2>2 DEF Admit, Begin, Fresh, TypeOK
<1>2. ASSUME NEW r \in Requests, Acquire(r) PROVE Fresh(t)'
  BY <1>2 DEF Acquire, LookupHit, LookupMiss, ResolveSeed, RecheckHit, TakeHandle, Fresh
<1>3. ASSUME NEW r \in Requests, SpawnBound(r) PROVE Fresh(t)'
  BY <1>3, SpawnStaysFresh
<1>4. ASSUME NEW r \in Requests, Quit(r) PROVE Fresh(t)'
  BY <1>4, ConstantsAssumption
     DEF Quit, SpawnFails, Finish, Abandon, Leave, Fresh, TypeOK
<1>5. ASSUME NEW n \in Nodes, EndBound(n) PROVE Fresh(t)'
  <2>1. ~HasSender(n)
    BY <1>5 DEF EndBound, ChannelCloses, HearShutdown, EndTask, TypeOK
  <2>2. swarms[t] # n
    BY <2>1 DEF HasSender
  <2> QED
    BY <1>5, <2>2, ConstantsAssumption
       DEF EndBound, ChannelCloses, HearShutdown, EndTask, Fresh, TypeOK
<1>6. CASE Reload \/ UNCHANGED avars
  BY <1>6 DEF Reload, avars, vars, Fresh
<1>7. CASE (Minute \/ CtrlC \/ Exit) /\ UNCHANGED atlas
  BY <1>7 DEF Minute, CtrlC, Exit, Fresh
<1>8. CASE CollectGarbage /\ UNCHANGED atlas
  BY <1>8 DEF CollectGarbage, Fresh
<1> QED
  BY <1>1, <1>2, <1>3, <1>4, <1>5, <1>6, <1>7, <1>8 DEF AtlasNext, AtlasRequest

\* Until Ctrl-C, a TLD whose copies and node are of the registry's entry never
\* falls back to an older configuration while the entry stands; without an
\* entry it gets no node.
THEOREM FreshStays == AtlasSpec => StaysFresh
<1>1. AtlasInv /\ [AtlasNext]_avars =>
        [\A t \in Tlds :
           Fresh(t) /\ registry'[t] = registry[t] /\ stage' = "up" => Fresh(t)']_avars
  BY StepStaysFresh
<1> QED
  BY <1>1, AtlasInvariant, PTL DEF AtlasSpec, StaysFresh
=============================================================================
