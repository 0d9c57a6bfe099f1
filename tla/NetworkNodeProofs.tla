-------------------------- MODULE NetworkNodeProofs --------------------------
(***************************************************************************)
(* Theorems about NetworkNode for any calls, peers and capacity: type      *)
(* correctness, that no handler that waits is forgotten, that no responder *)
(* is dropped while the loop runs, that no entry of the maps outlives the  *)
(* operation that removes it, and that None means no record.               *)
(***************************************************************************)
EXTENDS NetworkNode, SequenceTheorems, TLAPS

\* What taking a command does to the channel.
LEMMA HeadTail ==
  ASSUME TypeOK, queue # <<>>
  PROVE  /\ Head(queue) \in Calls
         /\ Tail(queue) \in Seq(Calls)
         /\ Len(Tail(queue)) = Len(queue) - 1 /\ Len(queue) \in Nat \ {0}
         /\ \A i \in 1 .. Len(Tail(queue)) : Tail(queue)[i] = queue[i + 1]
<1>1. queue \in Seq(Calls)
  BY DEF TypeOK
<1> QED
  BY <1>1, HeadTailProperties

LEMMA InitTypeOK == Init => TypeOK
BY ConstantsAssumption DEF Init, TypeOK, States, Bootstrapped

LEMMA AnswerType ==
  ASSUME TypeOK, NEW c \in Calls, NEW v \in {"some", "none"}, Answer(c, v)
  PROVE  state' \in [Calls -> States]
BY DEF TypeOK, Answer, States

LEMMA ReleaseType ==
  ASSUME TypeOK, NEW c, NEW pending \in SUBSET Calls, NEW v \in {"some", "none"},
         Release(c, pending, v)
  PROVE  state' \in [Calls -> States]
BY AnswerType DEF Release, TypeOK

LEMMA RecvTypeOK == TypeOK /\ Recv => TypeOK'
<1> SUFFICES ASSUME TypeOK, Recv PROVE TypeOK'
  OBVIOUS
<1> USE DEF pendings, libp2p
<1>1. queue # <<>> /\ queue' = Tail(queue)
  BY DEF Recv, RecvGetRecord, RecvSendProxyRequest, RecvLookupPeer, RefuseLookupPeer, CommandIs
<1>2. Head(queue) \in Calls /\ queue' \in Seq(Calls) /\ Len(queue') <= Capacity
  BY <1>1, HeadTail, ConstantsAssumption DEF TypeOK
<1>3. CASE RecvGetRecord \/ RecvSendProxyRequest
  BY <1>2, <1>3 DEF RecvGetRecord, RecvSendProxyRequest, TypeOK
<1>4. CASE RecvLookupPeer
  <2>1. state' \in [Calls -> States]
    BY <1>4 DEF RecvLookupPeer, TypeOK, States
  <2> QED
    BY <1>2, <1>4, <2>1 DEF RecvLookupPeer, MayDial, TypeOK
<1>5. CASE RefuseLookupPeer
  <2>1. state' \in [Calls -> States]
    BY <1>2, <1>5, AnswerType DEF RefuseLookupPeer
  <2> QED
    BY <1>2, <1>5, <2>1 DEF RefuseLookupPeer, TypeOK
<1> QED
  BY <1>3, <1>4, <1>5 DEF Recv

LEMMA DialEndsTypeOK ==
  ASSUME TypeOK, NEW p \in Peers, NEW v \in {"some", "none"}, DialEnds(p, v),
         connected' \subseteq Peers
  PROVE  TypeOK'
<1>1. state' \in [Calls -> States]
  BY ReleaseType DEF DialEnds
<1> QED
  BY <1>1 DEF DialEnds, TypeOK

LEMMA EventTypeOK == TypeOK /\ Event => TypeOK'
<1> SUFFICES ASSUME TypeOK, Event PROVE TypeOK'
  OBVIOUS
<1> USE DEF pendings, libp2p
<1>1. ASSUME NEW c \in Calls, RecordFound(c) \/ QueryEnds(c) PROVE TypeOK'
  <2>1. state' \in [Calls -> States]
    BY <1>1, ReleaseType DEF RecordFound, QueryEnds, TypeOK
  <2> QED
    BY <1>1, <2>1 DEF RecordFound, QueryEnds, TypeOK
<1>2. ASSUME NEW c \in Calls, ProxyResponse(c) \/ OutboundFailure(c) PROVE TypeOK'
  <2>1. state' \in [Calls -> States]
    BY <1>2, ReleaseType DEF ProxyResponse, OutboundFailure, RequestEnds, TypeOK
  <2> QED
    BY <1>2, <2>1 DEF ProxyResponse, OutboundFailure, RequestEnds, TypeOK
<1>3. ASSUME NEW p \in Peers, ConnectionEstablished(p) \/ OutgoingConnectionError(p)
      PROVE  TypeOK'
  <2>1. connected' \subseteq Peers
    BY <1>3 DEF ConnectionEstablished, OutgoingConnectionError, TypeOK
  <2> QED
    BY <1>3, <2>1, DialEndsTypeOK DEF ConnectionEstablished, OutgoingConnectionError
<1>4. ASSUME NEW p \in Peers, ConnectionClosed(p) \/ BehaviourDials(p) PROVE TypeOK'
  BY <1>4 DEF ConnectionClosed, BehaviourDials, TypeOK
<1> QED
  BY <1>1, <1>2, <1>3, <1>4 DEF Event

LEMMA HandlerTypeOK ==
  ASSUME TypeOK, NEW c \in Calls, Handler(c)
  PROVE  TypeOK'
<1> USE DEF pendings, libp2p
<1>1. CASE Ask(c) \/ SendFails(c) \/ Leave(c)
  BY <1>1 DEF Ask, SendFails, Leave, TypeOK, States, Waiting
<1>2. CASE Send(c)
  <2>1. queue' \in Seq(Calls) /\ Len(queue') = Len(queue) + 1 /\ Len(queue) \in Nat
    BY <1>2 DEF Send, TypeOK
  <2>2. Len(queue') <= Capacity
    BY <1>2, <2>1, ConstantsAssumption DEF Send
  <2> QED
    BY <1>2, <2>1, <2>2 DEF Send, TypeOK, States, Waiting
<1> QED
  BY <1>1, <1>2 DEF Handler

LEMMA EndTypeOK == TypeOK /\ End => TypeOK'
<1> SUFFICES ASSUME TypeOK, End PROVE TypeOK'
  OBVIOUS
<1>1. queue' \in Seq(Calls) /\ Len(queue') <= Capacity
  BY ConstantsAssumption DEF End
<1>2. state' \in [Calls -> States]
  BY DEF End, TypeOK, States
<1>3. pending_dials' \in [Peers -> Calls \cup {NoCall}]
  BY DEF End
<1> QED
  BY <1>1, <1>2, <1>3 DEF End, TypeOK

LEMMA NextTypeOK == TypeOK /\ [Next]_vars => TypeOK'
<1> SUFFICES ASSUME TypeOK, [Next]_vars PROVE TypeOK'
  OBVIOUS
<1>1. CASE Evict
  BY <1>1 DEF Evict, TypeOK, pendings, libp2p
<1>2. CASE UNCHANGED vars
  BY <1>2 DEF vars, TypeOK, pendings, libp2p
<1> QED
  BY <1>1, <1>2, HandlerTypeOK, RecvTypeOK, EventTypeOK, EndTypeOK
     DEF Next, ChannelCloses, Shutdown

\* The type invariant holds in every reachable state.
THEOREM TypeCorrect == Spec => []TypeOK
BY InitTypeOK, NextTypeOK, PTL DEF Spec, Safety

-----------------------------------------------------------------------------
(* No handler that waits is forgotten.                                     *)

\* The handler of c can count on an answer.
Tracked(c) ==
  \/ InQueue(c)
  \/ c \in pending_queries \cap queries
  \/ c \in pending_requests \cap requests
  \/ Dialled(c)

LEMMA RecvTracks == TypeOK /\ WaiterTracked /\ Recv => WaiterTracked'
<1> SUFFICES ASSUME TypeOK, WaiterTracked, Recv, NEW c \in Calls, state'[c] = "waiting"
             PROVE  Tracked(c)'
  BY DEF WaiterTracked, Tracked
<1> USE DEF pendings, libp2p
<1>1. queue # <<>> /\ queue' = Tail(queue)
  BY DEF Recv, RecvGetRecord, RecvSendProxyRequest, RecvLookupPeer, RefuseLookupPeer, CommandIs
<1> DEFINE h == Head(queue)
<1>2. h \in Calls /\ state[c] = "waiting"
  BY <1>1, HeadTail DEF Recv, RecvGetRecord, RecvSendProxyRequest, RecvLookupPeer,
                        RefuseLookupPeer, Answer, TypeOK
<1>3. Tracked(c)
  BY <1>2 DEF WaiterTracked, Tracked
<1>4. InQueue(c) => c = h \/ InQueue(c)'
  <2> SUFFICES ASSUME InQueue(c), c # h PROVE InQueue(c)'
    OBVIOUS
  <2>1. PICK i \in 1 .. Len(queue) : queue[i] = c
    BY DEF InQueue
  <2>2. i # 1
    BY <2>1 DEF TypeOK
  <2>3. i - 1 \in 1 .. Len(Tail(queue)) /\ Tail(queue)[i - 1] = queue[(i - 1) + 1]
    BY <1>1, <2>2, HeadTail
  <2>4. Tail(queue)[i - 1] = c
    BY <2>1, <2>3
  <2> QED
    BY <1>1, <2>3, <2>4 DEF InQueue
<1>5. CASE RecvGetRecord \/ RecvSendProxyRequest
  <2>1. Dialled(c) => Dialled(c)'
    BY <1>5 DEF RecvGetRecord, RecvSendProxyRequest, Dialled
  <2>2. /\ c \in pending_queries \cap queries => c \in pending_queries' \cap queries'
        /\ c \in pending_requests \cap requests => c \in pending_requests' \cap requests'
        /\ c = h => \/ c \in pending_queries' \cap queries'
                    \/ c \in pending_requests' \cap requests'
    BY <1>5 DEF RecvGetRecord, RecvSendProxyRequest
  <2> QED
    BY <1>3, <1>4, <2>1, <2>2 DEF Tracked
<1>6. CASE RecvLookupPeer
  <2> DEFINE p == cmd[h].peer
  <2>1. /\ p \in Peers /\ dialing[p] = 0 /\ dialing' = [dialing EXCEPT ![p] = @ + 1]
        /\ pending_dials' = [pending_dials EXCEPT ![p] = h]
        /\ UNCHANGED <<pending_queries, pending_requests, queries, requests>>
    BY <1>6 DEF RecvLookupPeer, MayDial
  <2>2. c = h => Dialled(c)'
    BY <2>1 DEF Dialled, TypeOK
  <2>3. Dialled(c) => Dialled(c)'
    BY <2>1 DEF Dialled, TypeOK
  <2> QED
    BY <1>3, <1>4, <2>1, <2>2, <2>3 DEF Tracked
<1>7. CASE RefuseLookupPeer
  <2>1. c # h
    BY <1>2, <1>7 DEF RefuseLookupPeer, Answer, TypeOK
  <2>2. Dialled(c) => Dialled(c)'
    BY <1>7 DEF RefuseLookupPeer, Dialled
  <2> QED
    BY <1>3, <1>4, <1>7, <2>1, <2>2 DEF RefuseLookupPeer, Tracked
<1> QED
  BY <1>5, <1>6, <1>7 DEF Recv

\* A call whose responder is released no longer waits.
LEMMA Released ==
  ASSUME TypeOK, NEW d, NEW pending, NEW v \in {"some", "none"}, Release(d, pending, v),
         NEW c \in Calls, state'[c] = "waiting"
  PROVE  state[c] = "waiting" /\ (c = d => d \notin pending)
BY DEF Release, Answer, TypeOK

LEMMA EventTracks == TypeOK /\ WaiterTracked /\ Event => WaiterTracked'
<1> SUFFICES ASSUME TypeOK, WaiterTracked, Event, NEW c \in Calls, state'[c] = "waiting"
             PROVE  Tracked(c)'
  BY DEF WaiterTracked, Tracked
<1> USE DEF pendings, libp2p
<1>0. state[c] = "waiting" => Tracked(c)
  BY DEF WaiterTracked, Tracked
<1>1. ASSUME NEW d \in Calls, RecordFound(d) \/ QueryEnds(d) PROVE Tracked(c)'
  <2>1. state[c] = "waiting" /\ (c = d => c \notin pending_queries)
    BY <1>1, Released DEF RecordFound, QueryEnds
  <2>2. UNCHANGED <<queue, pending_requests, requests, dialing, pending_dials>>
    BY <1>1 DEF RecordFound, QueryEnds
  <2>3. c \in pending_queries \cap queries => c \in pending_queries' \cap queries'
    BY <1>1, <2>1 DEF RecordFound, QueryEnds
  <2> QED
    BY <1>0, <2>1, <2>2, <2>3 DEF Tracked, InQueue, Dialled
<1>2. ASSUME NEW d \in Calls, ProxyResponse(d) \/ OutboundFailure(d) PROVE Tracked(c)'
  <2>1. state[c] = "waiting" /\ (c = d => c \notin pending_requests)
    BY <1>2, Released DEF ProxyResponse, OutboundFailure, RequestEnds
  <2>2. UNCHANGED <<queue, pending_queries, queries, dialing, pending_dials>>
    BY <1>2 DEF ProxyResponse, OutboundFailure, RequestEnds
  <2>3. c \in pending_requests \cap requests => c \in pending_requests' \cap requests'
    BY <1>2, <2>1 DEF ProxyResponse, OutboundFailure, RequestEnds
  <2> QED
    BY <1>0, <2>1, <2>2, <2>3 DEF Tracked, InQueue, Dialled
<1>3. ASSUME NEW p \in Peers, ConnectionEstablished(p) \/ OutgoingConnectionError(p)
      PROVE  Tracked(c)'
  <2>1. PICK v \in {"some", "none"} : DialEnds(p, v)
    BY <1>3 DEF ConnectionEstablished, OutgoingConnectionError
  <2>2. state[c] = "waiting" /\ c # pending_dials[p]
    BY <2>1, Released DEF DialEnds
  <2>3. UNCHANGED <<queue, pending_queries, queries, pending_requests, requests>>
    BY <2>1 DEF DialEnds
  <2>4. Dialled(c) => Dialled(c)'
    BY <2>1, <2>2 DEF DialEnds, Dialled, TypeOK
  <2> QED
    BY <1>0, <2>2, <2>3, <2>4 DEF Tracked, InQueue
<1>4. ASSUME NEW p \in Peers, ConnectionClosed(p) \/ BehaviourDials(p) PROVE Tracked(c)'
  <2>1. UNCHANGED <<state, queue, pendings, queries, requests>>
    BY <1>4 DEF ConnectionClosed, BehaviourDials
  <2>2. \A q \in Peers : dialing[q] > 0 => dialing'[q] > 0
    BY <1>4 DEF ConnectionClosed, BehaviourDials, TypeOK
  <2>3. Dialled(c) => Dialled(c)'
    BY <2>1, <2>2 DEF Dialled
  <2> QED
    BY <1>0, <2>1, <2>3 DEF Tracked, InQueue
<1> QED
  BY <1>1, <1>2, <1>3, <1>4 DEF Event

LEMMA HandlerTracks ==
  ASSUME TypeOK, WaiterTracked, NEW d \in Calls, Handler(d)
  PROVE  WaiterTracked'
<1> SUFFICES ASSUME NEW c \in Calls, state'[c] = "waiting" PROVE Tracked(c)'
  BY DEF WaiterTracked, Tracked
<1> USE DEF pendings, libp2p
<1>0. state[c] = "waiting" => Tracked(c)
  BY DEF WaiterTracked, Tracked
<1>1. CASE Ask(d) \/ SendFails(d) \/ Leave(d)
  BY <1>0, <1>1 DEF Ask, SendFails, Leave, TypeOK, Tracked, InQueue, Dialled
<1>2. CASE Send(d)
  <2>1. /\ queue \in Seq(Calls) /\ Len(queue') = Len(queue) + 1
        /\ queue'[Len(queue) + 1] = d /\ \A i \in 1 .. Len(queue) : queue'[i] = queue[i]
    BY <1>2 DEF Send, TypeOK
  <2>2. (c = d \/ InQueue(c)) => InQueue(c)'
    BY <2>1 DEF InQueue
  <2>3. c # d => Tracked(c)
    BY <1>0, <1>2 DEF Send, TypeOK
  <2>4. UNCHANGED <<pendings, libp2p>>
    BY <1>2 DEF Send
  <2> QED
    BY <2>2, <2>3, <2>4 DEF Tracked, Dialled
<1> QED
  BY <1>1, <1>2 DEF Handler

LEMMA EndTracks == TypeOK /\ End => WaiterTracked'
BY DEF End, TypeOK, WaiterTracked

\* Every handler that waits has its command in the channel or its responder
\* in the map that the event ending its operation releases it from.
THEOREM NobodyForgotten == Spec => []WaiterTracked
<1>1. Init => WaiterTracked
  BY DEF Init, WaiterTracked
<1>2. TypeOK /\ WaiterTracked /\ [Next]_vars => WaiterTracked'
  <2> SUFFICES ASSUME TypeOK, WaiterTracked, [Next]_vars PROVE WaiterTracked'
    OBVIOUS
  <2>1. CASE Evict \/ UNCHANGED vars
    BY <2>1 DEF Evict, vars, pendings, libp2p, WaiterTracked, InQueue, Dialled
  <2> QED
    BY <2>1, HandlerTracks, RecvTracks, EventTracks, EndTracks DEF Next, ChannelCloses, Shutdown
<1> QED
  BY <1>1, <1>2, TypeCorrect, PTL DEF Spec, Safety

-----------------------------------------------------------------------------
(* No responder is dropped while the loop runs.                            *)

\* A responder waits for a peer only while its own dial is under way: then
\* dial refuses a second one, and insert replaces nothing.
NoDrop == OwnDial /\ NeverDropped

\* The steps that leave the maps and the loop alone.
LEMMA OthersKeep ==
  ASSUME TypeOK, NoDrop, up' = up, UNCHANGED pending_dials,
         \A p \in Peers : dialing'[p] = dialing[p] \/ pending_dials[p] = NoCall,
         \A c \in Calls : state'[c] = "error" => state[c] = "error" \/ ~up
  PROVE  NoDrop'
BY DEF NoDrop, OwnDial, NeverDropped, TypeOK

LEMMA ReleaseKeeps ==
  ASSUME TypeOK, NEW d, NEW pending, NEW v \in {"some", "none"}, Release(d, pending, v)
  PROVE  \A c \in Calls : state'[c] = "error" => state[c] = "error"
BY DEF Release, Answer, TypeOK

LEMMA NextNoDrop == TypeOK /\ NoDrop /\ [Next]_vars => NoDrop'
<1> SUFFICES ASSUME TypeOK, NoDrop, [Next]_vars PROVE NoDrop'
  OBVIOUS
<1> USE DEF pendings, libp2p
<1>1. ASSUME NEW c \in Calls, Handler(c) PROVE NoDrop'
  <2>1. UNCHANGED <<up, pending_dials, dialing>>
    BY <1>1 DEF Handler, Ask, Send, SendFails, Leave
  <2>2. \A d \in Calls : state'[d] = "error" => state[d] = "error" \/ ~up
    BY <1>1 DEF Handler, Ask, Send, SendFails, Leave, TypeOK
  <2> QED
    BY <2>1, <2>2, OthersKeep
<1>2. CASE RecvGetRecord \/ RecvSendProxyRequest
  BY <1>2, OthersKeep DEF RecvGetRecord, RecvSendProxyRequest
<1>3. CASE RecvLookupPeer
  <2>1. queue # <<>> /\ Head(queue) \in Calls
    BY <1>3, HeadTail DEF RecvLookupPeer, CommandIs
  <2> DEFINE p == cmd[Head(queue)].peer
  <2>2. /\ p \in Peers /\ dialing[p] = 0 /\ dialing' = [dialing EXCEPT ![p] = @ + 1]
        /\ pending_dials' = [pending_dials EXCEPT ![p] = Head(queue)] /\ up' = up
    BY <1>3 DEF RecvLookupPeer, MayDial
  <2>3. pending_dials[p] = NoCall
    BY <2>2 DEF NoDrop, OwnDial
  <2>4. \A d \in Calls : state'[d] = state[d]
    BY <1>3, <2>3, ConstantsAssumption DEF RecvLookupPeer
  <2>5. OwnDial'
    BY <2>2 DEF NoDrop, OwnDial, TypeOK
  <2> QED
    BY <2>2, <2>4, <2>5 DEF NoDrop, NeverDropped
<1>4. CASE RefuseLookupPeer
  <2>1. \A d \in Calls : state'[d] = "error" => state[d] = "error"
    BY <1>4 DEF RefuseLookupPeer, Answer, TypeOK
  <2> QED
    BY <1>4, <2>1, OthersKeep DEF RefuseLookupPeer
<1>5. ASSUME NEW c \in Calls,
             RecordFound(c) \/ QueryEnds(c) \/ ProxyResponse(c) \/ OutboundFailure(c)
      PROVE  NoDrop'
  <2>1. \A d \in Calls : state'[d] = "error" => state[d] = "error"
    BY <1>5, ReleaseKeeps DEF RecordFound, QueryEnds, ProxyResponse, OutboundFailure, RequestEnds
  <2> QED
    BY <1>5, <2>1, OthersKeep
       DEF RecordFound, QueryEnds, ProxyResponse, OutboundFailure, RequestEnds
<1>6. ASSUME NEW p \in Peers, ConnectionEstablished(p) \/ OutgoingConnectionError(p)
      PROVE  NoDrop'
  <2>1. PICK v \in {"some", "none"} : DialEnds(p, v)
    BY <1>6 DEF ConnectionEstablished, OutgoingConnectionError
  <2>2. \A d \in Calls : state'[d] = "error" => state[d] = "error"
    BY <2>1, ReleaseKeeps DEF DialEnds
  <2>3. OwnDial'
    BY <2>1 DEF DialEnds, NoDrop, OwnDial, TypeOK
  <2> QED
    BY <2>1, <2>2, <2>3 DEF DialEnds, NoDrop, NeverDropped
<1>7. ASSUME NEW p \in Peers, ConnectionClosed(p) \/ BehaviourDials(p) PROVE NoDrop'
  <2>1. \A q \in Peers : dialing'[q] = dialing[q] \/ pending_dials[q] = NoCall
    BY <1>7 DEF ConnectionClosed, BehaviourDials, MayDial, NoDrop, OwnDial, TypeOK
  <2> QED
    BY <1>7, <2>1, OthersKeep DEF ConnectionClosed, BehaviourDials
<1>8. CASE End
  BY <1>8 DEF End, NoDrop, OwnDial, NeverDropped
<1>9. CASE Evict \/ UNCHANGED vars
  BY <1>9, OthersKeep DEF Evict, vars
<1> QED
  BY <1>1, <1>2, <1>3, <1>4, <1>5, <1>6, <1>7, <1>8, <1>9
     DEF Next, Recv, Event, ChannelCloses, Shutdown

LEMMA NoDropHolds == Spec => []NoDrop
<1>1. Init => NoDrop
  BY DEF Init, NoDrop, OwnDial, NeverDropped
<1> QED
  BY <1>1, TypeCorrect, NextNoDrop, PTL DEF Spec, Safety

\* A responder waits for a peer only while one dial of it is under way: the
\* event that answers it is of its own dial, although the bootstrap dials of
\* one peer run side by side and Kademlia dials too.
THEOREM OwnDials == Spec => []OwnDial
<1>1. NoDrop => OwnDial
  BY DEF NoDrop
<1> QED
  BY <1>1, NoDropHolds, PTL

\* While the loop runs no handler loses its answer, although lookups of one
\* peer share a key of pending_dials: dial refuses the second of them before
\* insert could replace the first one's responder.
THEOREM NothingDropped == Spec => []NeverDropped
<1>1. NoDrop => NeverDropped
  BY DEF NoDrop
<1> QED
  BY <1>1, NoDropHolds, PTL

-----------------------------------------------------------------------------
(* Why the maps drain.                                                     *)

\* An entry of the maps is for an operation of libp2p that is under way in a
\* node that runs.  Each of those ends by its own timeout, with an event that
\* removes the entry, so that no leak is possible, whether the entry's handler
\* waits or has gone (network.rs:133-189, 191-244).
EntryLive(c) ==
  /\ up
  /\ c \in pending_queries => c \in queries
  /\ c \in pending_requests => c \in requests
  /\ \A p \in Peers : pending_dials[p] = c => dialing[p] = 1

EntriesLive == \A c \in Calls : Pending(c) => EntryLive(c)

\* The inductive form: the maps are no larger than libp2p's tables, and a
\* stopped node has neither.
Backed ==
  /\ pending_queries \subseteq queries
  /\ pending_requests \subseteq requests
  /\ ~up => queries = {} /\ requests = {} /\ pending_dials = [p \in Peers |-> NoCall]

LEMMA NextBacked == TypeOK /\ Backed /\ [Next]_vars => Backed'
<1> SUFFICES ASSUME TypeOK, Backed, [Next]_vars PROVE Backed'
  OBVIOUS
<1> USE DEF pendings, libp2p, Backed
<1>1. CASE Recv
  BY <1>1 DEF Recv, RecvGetRecord, RecvSendProxyRequest, RecvLookupPeer, RefuseLookupPeer, CommandIs
<1>2. ASSUME NEW c \in Calls, RecordFound(c) \/ QueryEnds(c)
      PROVE  Backed'
  BY <1>2 DEF RecordFound, QueryEnds
<1>3. ASSUME NEW c \in Calls, ProxyResponse(c) \/ OutboundFailure(c)
      PROVE  Backed'
  BY <1>3 DEF ProxyResponse, OutboundFailure, RequestEnds
<1>4. ASSUME NEW p \in Peers, ConnectionEstablished(p) \/ OutgoingConnectionError(p)
      PROVE  Backed'
  BY <1>4 DEF ConnectionEstablished, OutgoingConnectionError, DialEnds
<1>5. ASSUME NEW p \in Peers, ConnectionClosed(p) \/ BehaviourDials(p)
      PROVE  Backed'
  BY <1>5 DEF ConnectionClosed, BehaviourDials
<1>6. ASSUME NEW c \in Calls, Handler(c) PROVE Backed'
  BY <1>6 DEF Handler, Ask, Send, SendFails, Leave
<1>7. CASE Evict \/ UNCHANGED vars
  BY <1>7 DEF Evict, vars
<1>8. CASE End
  BY <1>8 DEF End
<1> QED
  BY <1>1, <1>2, <1>3, <1>4, <1>5, <1>6, <1>7, <1>8 DEF Next, Event, ChannelCloses, Shutdown

\* Every entry of the maps has an operation under way that will remove it.
THEOREM EntriesAreLive == Spec => []EntriesLive
<1>1. Init => Backed
  BY DEF Init, Backed
<1>2. OwnDial /\ Backed => EntriesLive
  BY ConstantsAssumption DEF OwnDial, Backed, EntriesLive, EntryLive, Pending
<1> QED
  BY <1>1, <1>2, NextBacked, TypeCorrect, OwnDials, PTL DEF Spec, Safety

-----------------------------------------------------------------------------
(* The life of a call: the channel, then one map, then an answer.  Only    *)
(* with all of it is NoneMeansMissing inductive.                           *)

\* The loop has taken c from the channel and libp2p works, or worked, for it.
Taken(c) ==
  \/ c \in queries \cup pending_queries \cup found \cup pending_requests
  \/ \E p \in Peers : pending_dials[p] = c

\* A call is in the channel once, before it is taken and after it was sent.
QueueLife ==
  /\ \A c \in Calls :
       /\ InQueue(c) => state[c] \in {"waiting", "gone"} /\ ~Taken(c)
       /\ Taken(c) => state[c] \notin {"new", "sending"}
  /\ \A i, j \in 1 .. Len(queue) : queue[i] = queue[j] => i = j

\* A query's responder is in its map until the query meets a record.
QueryLife ==
  \A c \in Calls :
    /\ c \in pending_queries => state[c] \in {"waiting", "gone"} /\ c \notin found
    /\ c \in queries => c \in pending_queries \cup found
    /\ c \in found => state[c] \in {"some", "gone", "error"}

\* Each map holds calls of its own kind.
Kinds ==
  \A c \in Calls :
    /\ c \in queries \cup pending_queries \cup found => cmd[c].op = "GetRecord"
    /\ c \in pending_requests => cmd[c].op = "SendProxyRequest"
    /\ \A p \in Peers : pending_dials[p] = c => cmd[c].op = "LookupPeer"

Life == QueueLife /\ QueryLife /\ Kinds

LEMMA InitLife == Init => Life
BY ConstantsAssumption DEF Init, Life, QueueLife, QueryLife, Kinds, InQueue, Taken

LEMMA KindsPreserved == TypeOK /\ Kinds /\ [Next]_vars => Kinds'
<1> SUFFICES ASSUME TypeOK, Kinds, [Next]_vars PROVE Kinds'
  OBVIOUS
<1> USE DEF pendings, libp2p
<1>1. ASSUME NEW c \in Calls, Handler(c) PROVE Kinds'
  BY <1>1 DEF Handler, Ask, Send, SendFails, Leave, Kinds
<1>2. CASE RecvGetRecord \/ RecvSendProxyRequest
  BY <1>2 DEF RecvGetRecord, RecvSendProxyRequest, CommandIs, Kinds
<1>3. CASE RecvLookupPeer
  BY <1>3 DEF RecvLookupPeer, CommandIs, Kinds, TypeOK
<1>4. CASE RefuseLookupPeer \/ Evict \/ UNCHANGED vars
  BY <1>4 DEF RefuseLookupPeer, Evict, vars, Kinds
<1>5. ASSUME NEW c \in Calls, RecordFound(c) \/ QueryEnds(c) PROVE Kinds'
  BY <1>5 DEF RecordFound, QueryEnds, Kinds
<1>6. ASSUME NEW c \in Calls, ProxyResponse(c) \/ OutboundFailure(c) PROVE Kinds'
  BY <1>6 DEF ProxyResponse, OutboundFailure, RequestEnds, Kinds
<1>7. ASSUME NEW p \in Peers, ConnectionEstablished(p) \/ OutgoingConnectionError(p)
      PROVE  Kinds'
  <2>1. PICK v \in {"some", "none"} : DialEnds(p, v)
    BY <1>7 DEF ConnectionEstablished, OutgoingConnectionError
  <2> QED
    BY <2>1, ConstantsAssumption DEF DialEnds, Kinds, TypeOK
<1>8. ASSUME NEW p \in Peers, ConnectionClosed(p) \/ BehaviourDials(p) PROVE Kinds'
  BY <1>8 DEF ConnectionClosed, BehaviourDials, Kinds
<1>9. CASE End
  BY <1>9, ConstantsAssumption DEF End, Kinds
<1> QED
  BY <1>1, <1>2, <1>3, <1>4, <1>5, <1>6, <1>7, <1>8, <1>9
     DEF Next, Recv, Event, ChannelCloses, Shutdown

\* A step that takes no call and puts none into the channel, and changes the
\* state only of calls that are taken, or not yet sent, or now gone.
LEMMA QuietQueueLife ==
  ASSUME TypeOK, QueueLife, UNCHANGED queue,
         \A c \in Calls : Taken(c)' => Taken(c),
         \A c \in Calls : state'[c] # state[c] =>
           \/ state'[c] = "gone"
           \/ Taken(c) /\ state'[c] \notin {"new", "sending"}
           \/ state[c] \in {"new", "sending"}
  PROVE  QueueLife'
<1>1. ASSUME NEW c \in Calls, InQueue(c)'
      PROVE  state'[c] \in {"waiting", "gone"} /\ ~Taken(c)'
  BY <1>1 DEF QueueLife, InQueue
<1>2. ASSUME NEW c \in Calls, Taken(c)' PROVE state'[c] \notin {"new", "sending"}
  BY <1>2 DEF QueueLife
<1> QED
  BY <1>1, <1>2 DEF QueueLife

\* An answer goes to a taken call, whose state is neither "new" nor "sending".
LEMMA ReleaseChanges ==
  ASSUME TypeOK, NEW d, NEW pending, NEW v \in {"some", "none"}, Release(d, pending, v),
         \A c \in Calls : c \in pending /\ c = d => Taken(c)
  PROVE  \A c \in Calls : state'[c] # state[c] =>
           c = d /\ d \in pending /\ Taken(c) /\ state[c] = "waiting" /\ state'[c] = v
BY DEF Release, Answer, TypeOK

LEMMA RecvQueueLife == TypeOK /\ QueueLife /\ OwnDial /\ Recv => QueueLife'
<1> SUFFICES ASSUME TypeOK, QueueLife, OwnDial, Recv PROVE QueueLife'
  OBVIOUS
<1> USE DEF pendings, libp2p
<1> DEFINE h == Head(queue)
<1>1. queue # <<>> /\ queue' = Tail(queue)
  BY DEF Recv, RecvGetRecord, RecvSendProxyRequest, RecvLookupPeer, RefuseLookupPeer, CommandIs
<1>2. /\ queue' \in Seq(Calls) /\ Len(queue) \in Nat \ {0} /\ Len(queue') = Len(queue) - 1
      /\ \A i \in 1 .. Len(queue') : queue'[i] = queue[i + 1] /\ i + 1 \in 1 .. Len(queue)
      /\ h = queue[1] /\ h \in Calls
  BY <1>1, HeadTail DEF TypeOK
<1>3. InQueue(h)
  BY <1>2 DEF InQueue
<1>4. \A c \in Calls : InQueue(c)' => InQueue(c) /\ c # h
  BY <1>2 DEF InQueue, QueueLife
<1>5. \A i, j \in 1 .. Len(queue') : queue'[i] = queue'[j] => i = j
  BY <1>2 DEF QueueLife
<1>6. \A c \in Calls : Taken(c)' => Taken(c) \/ c = h
  <2>1. CASE RecvGetRecord \/ RecvSendProxyRequest \/ RefuseLookupPeer
    BY <2>1 DEF RecvGetRecord, RecvSendProxyRequest, RefuseLookupPeer, Taken
  <2>2. CASE RecvLookupPeer
    BY <2>2 DEF RecvLookupPeer, MayDial, Taken, TypeOK
  <2> QED
    BY <2>1, <2>2 DEF Recv
<1>7. \A c \in Calls : c # h => state'[c] = state[c]
  <2>1. CASE RecvGetRecord \/ RecvSendProxyRequest
    BY <2>1 DEF RecvGetRecord, RecvSendProxyRequest
  <2>2. CASE RefuseLookupPeer
    BY <2>2 DEF RefuseLookupPeer, Answer, TypeOK
  <2>3. CASE RecvLookupPeer
    <3>1. cmd[h].peer \in Peers /\ dialing[cmd[h].peer] = 0
      BY <2>3 DEF RecvLookupPeer, MayDial
    <3>2. pending_dials[cmd[h].peer] = NoCall
      BY <3>1 DEF OwnDial
    <3> QED
      BY <2>3, <3>2, ConstantsAssumption DEF RecvLookupPeer
  <2> QED
    BY <2>1, <2>2, <2>3 DEF Recv
<1>8. state[h] \in {"waiting", "gone"} /\ state'[h] \notin {"new", "sending"}
  <2>1. state[h] \in {"waiting", "gone"}
    BY <1>2, <1>3 DEF QueueLife
  <2>2. CASE RefuseLookupPeer
    BY <1>2, <2>1, <2>2 DEF RefuseLookupPeer, Answer, TypeOK
  <2>3. CASE RecvGetRecord \/ RecvSendProxyRequest \/ RecvLookupPeer
    BY <1>2, <2>1, <2>3 DEF RecvGetRecord, RecvSendProxyRequest, RecvLookupPeer
  <2> QED
    BY <2>1, <2>2, <2>3 DEF Recv
<1>9. ASSUME NEW c \in Calls, InQueue(c)'
      PROVE  state'[c] \in {"waiting", "gone"} /\ ~Taken(c)'
  BY <1>4, <1>6, <1>7, <1>9 DEF QueueLife
<1>10. ASSUME NEW c \in Calls, Taken(c)' PROVE state'[c] \notin {"new", "sending"}
  BY <1>6, <1>7, <1>8, <1>10 DEF QueueLife
<1> QED
  BY <1>5, <1>9, <1>10 DEF QueueLife

LEMMA NextQueueLife ==
  TypeOK /\ OwnDial /\ QueueLife /\ QueryLife /\ [Next]_vars => QueueLife'
<1> SUFFICES ASSUME TypeOK, OwnDial, QueueLife, QueryLife, [Next]_vars PROVE QueueLife'
  OBVIOUS
<1> USE DEF pendings, libp2p
<1>1. ASSUME NEW c \in Calls, Ask(c) \/ SendFails(c) \/ Leave(c) PROVE QueueLife'
  <2>1. UNCHANGED <<queue, pendings, libp2p>>
    BY <1>1 DEF Ask, SendFails, Leave
  <2>2. \A d \in Calls : Taken(d)' => Taken(d)
    BY <2>1 DEF Taken
  <2>3. \A d \in Calls : state'[d] # state[d] =>
          state'[d] = "gone" \/ state[d] \in {"new", "sending"}
    BY <1>1 DEF Ask, SendFails, Leave, TypeOK
  <2>4. \A d \in Calls : Taken(d) => state'[d] \notin {"new", "sending"}
    BY <1>1 DEF Ask, SendFails, Leave, TypeOK, QueueLife
  <2> QED
    BY <2>1, <2>2, <2>3, <2>4 DEF QueueLife, InQueue
<1>2. ASSUME NEW c \in Calls, Send(c) PROVE QueueLife'
  <2>1. /\ queue \in Seq(Calls) /\ Len(queue') = Len(queue) + 1 /\ Len(queue) \in Nat
        /\ queue'[Len(queue) + 1] = c /\ \A i \in 1 .. Len(queue) : queue'[i] = queue[i]
    BY <1>2 DEF Send, TypeOK
  <2>2. \A d \in Calls : Taken(d)' <=> Taken(d)
    BY <1>2 DEF Send, Taken
  <2>3. ~InQueue(c) /\ ~Taken(c) /\ state'[c] = "waiting"
    BY <1>2 DEF Send, QueueLife, TypeOK
  <2>4. \A d \in Calls : InQueue(d)' => InQueue(d) \/ d = c
    BY <2>1 DEF InQueue
  <2>5. \A d \in Calls : d # c => state'[d] = state[d]
    BY <1>2 DEF Send, TypeOK
  <2>6. \A i \in 1 .. Len(queue) : queue[i] # c
    BY <2>3 DEF InQueue
  <2>7. \A i, j \in 1 .. Len(queue') : queue'[i] = queue'[j] => i = j
    BY <2>1, <2>6 DEF QueueLife
  <2> QED
    BY <2>2, <2>3, <2>4, <2>5, <2>7 DEF QueueLife
<1>3. ASSUME NEW c \in Calls, RecordFound(c) \/ QueryEnds(c) PROVE QueueLife'
  <2>1. \A d \in Calls : state'[d] # state[d] =>
          Taken(d) /\ state'[d] \notin {"new", "sending"}
    BY <1>3, ReleaseChanges DEF RecordFound, QueryEnds, Taken
  <2>2. \A d \in Calls : Taken(d)' => Taken(d)
    BY <1>3 DEF RecordFound, QueryEnds, Taken
  <2> QED
    BY <1>3, <2>1, <2>2, QuietQueueLife DEF RecordFound, QueryEnds
<1>4. ASSUME NEW c \in Calls, ProxyResponse(c) \/ OutboundFailure(c) PROVE QueueLife'
  <2>1. \A d \in Calls : state'[d] # state[d] =>
          Taken(d) /\ state'[d] \notin {"new", "sending"}
    BY <1>4, ReleaseChanges DEF ProxyResponse, OutboundFailure, RequestEnds, Taken
  <2>2. \A d \in Calls : Taken(d)' => Taken(d)
    BY <1>4 DEF ProxyResponse, OutboundFailure, RequestEnds, Taken
  <2> QED
    BY <1>4, <2>1, <2>2, QuietQueueLife DEF ProxyResponse, OutboundFailure, RequestEnds
<1>5. ASSUME NEW p \in Peers, ConnectionEstablished(p) \/ OutgoingConnectionError(p)
      PROVE  QueueLife'
  <2>1. PICK v \in {"some", "none"} : DialEnds(p, v)
    BY <1>5 DEF ConnectionEstablished, OutgoingConnectionError
  <2>2. \A d \in Calls : state'[d] # state[d] =>
          Taken(d) /\ state'[d] \notin {"new", "sending"}
    BY <2>1, ReleaseChanges DEF DialEnds, Taken
  <2>3. \A d \in Calls : Taken(d)' => Taken(d)
    BY <2>1, ConstantsAssumption DEF DialEnds, Taken, TypeOK
  <2> QED
    BY <2>1, <2>2, <2>3, QuietQueueLife DEF DialEnds
<1>6. CASE \/ \E p \in Peers : ConnectionClosed(p) \/ BehaviourDials(p)
           \/ Evict \/ UNCHANGED vars
  <2>1. UNCHANGED <<state, queue, pendings, queries, found>>
    BY <1>6 DEF ConnectionClosed, BehaviourDials, Evict, vars
  <2> QED
    BY <2>1, QuietQueueLife DEF Taken
<1>7. CASE End
  <2>1. \A d \in Calls : ~InQueue(d)'
    BY <1>7 DEF End, InQueue
  <2>2. \A d \in Calls : Taken(d)' => Taken(d)
    BY <1>7, ConstantsAssumption DEF End, Taken
  <2>3. \A d \in Calls : state'[d] = state[d] \/ state'[d] = "error"
    BY <1>7 DEF End
  <2>4. \A i, j \in 1 .. Len(queue') : FALSE
    BY <1>7 DEF End
  <2> QED
    BY <2>1, <2>2, <2>3, <2>4 DEF QueueLife
<1> QED
  BY <1>1, <1>2, <1>3, <1>4, <1>5, <1>6, <1>7, RecvQueueLife
     DEF Next, Handler, Event, ChannelCloses, Shutdown

LEMMA NextQueryLife ==
  TypeOK /\ OwnDial /\ Life /\ [Next]_vars => QueryLife'
<1> SUFFICES ASSUME TypeOK, OwnDial, QueueLife, QueryLife, Kinds, [Next]_vars PROVE QueryLife'
  BY DEF Life
<1> USE DEF pendings, libp2p
<1>1. ASSUME NEW c \in Calls, Handler(c) PROVE QueryLife'
  <2>1. UNCHANGED <<pending_queries, queries, found>>
    BY <1>1 DEF Handler, Ask, Send, SendFails, Leave
  <2> QED
    BY <1>1, <2>1 DEF Handler, Ask, Send, SendFails, Leave, QueryLife, TypeOK
<1>2. CASE RecvGetRecord \/ RefuseLookupPeer
  <2>1. Head(queue) \in Calls /\ InQueue(Head(queue))
    BY <1>2, HeadTail DEF RecvGetRecord, RefuseLookupPeer, CommandIs, InQueue, TypeOK
  <2>2. state[Head(queue)] \in {"waiting", "gone"} /\ ~Taken(Head(queue))
    BY <2>1 DEF QueueLife
  <2>3. CASE RecvGetRecord
    BY <2>1, <2>2, <2>3 DEF RecvGetRecord, QueryLife, Taken
  <2>4. CASE RefuseLookupPeer
    BY <2>1, <2>2, <2>4 DEF RefuseLookupPeer, Answer, QueryLife, Taken, TypeOK
  <2> QED
    BY <1>2, <2>3, <2>4
<1>3. CASE RecvSendProxyRequest \/ RecvLookupPeer
  <2>1. \A c \in Calls : state'[c] # state[c] => state'[c] = "error" /\ cmd[c].op = "LookupPeer"
    BY <1>3 DEF RecvSendProxyRequest, RecvLookupPeer, MayDial, Kinds
  <2>2. UNCHANGED <<pending_queries, queries, found>>
    BY <1>3 DEF RecvSendProxyRequest, RecvLookupPeer
  <2> QED
    BY <2>1, <2>2 DEF QueryLife, Kinds
<1>4. ASSUME NEW c \in Calls, RecordFound(c) PROVE QueryLife'
  BY <1>4 DEF RecordFound, Release, Answer, QueryLife, TypeOK
<1>5. ASSUME NEW c \in Calls, QueryEnds(c) PROVE QueryLife'
  BY <1>5 DEF QueryEnds, Release, Answer, QueryLife, TypeOK
<1>6. ASSUME NEW c \in Calls, ProxyResponse(c) \/ OutboundFailure(c) PROVE QueryLife'
  <2>1. \A d \in Calls : state'[d] # state[d] => cmd[d].op = "SendProxyRequest"
    BY <1>6 DEF ProxyResponse, OutboundFailure, RequestEnds, Release, Answer, Kinds, TypeOK
  <2>2. UNCHANGED <<pending_queries, queries, found>>
    BY <1>6 DEF ProxyResponse, OutboundFailure, RequestEnds
  <2> QED
    BY <2>1, <2>2 DEF QueryLife, Kinds
<1>7. ASSUME NEW p \in Peers, ConnectionEstablished(p) \/ OutgoingConnectionError(p)
      PROVE  QueryLife'
  <2>1. PICK v \in {"some", "none"} : DialEnds(p, v)
    BY <1>7 DEF ConnectionEstablished, OutgoingConnectionError
  <2>2. \A d \in Calls : state'[d] # state[d] => cmd[d].op = "LookupPeer"
    BY <2>1 DEF DialEnds, Release, Answer, Kinds, TypeOK
  <2>3. UNCHANGED <<pending_queries, queries, found>>
    BY <2>1 DEF DialEnds
  <2> QED
    BY <2>2, <2>3 DEF QueryLife, Kinds
<1>8. CASE \/ \E p \in Peers : ConnectionClosed(p) \/ BehaviourDials(p)
           \/ Evict \/ UNCHANGED vars
  BY <1>8 DEF ConnectionClosed, BehaviourDials, Evict, vars, QueryLife
<1>9. CASE End
  BY <1>9 DEF End, QueryLife
<1> QED
  BY <1>1, <1>2, <1>3, <1>4, <1>5, <1>6, <1>7, <1>8, <1>9
     DEF Next, Recv, Event, ChannelCloses, Shutdown

LEMMA LifeHolds == Spec => []Life
<1>1. TypeOK /\ OwnDial /\ Life /\ [Next]_vars => Life'
  BY NextQueueLife, NextQueryLife, KindsPreserved DEF Life
<1> QED
  BY <1>1, InitLife, TypeCorrect, OwnDials, PTL DEF Spec, Safety

\* What a handler is told of a record that is not there is true: None is
\* answered only by the last result of a query whose responder no earlier
\* result has released, and such a query has met no record.
THEOREM NoneIsMissing == Spec => []NoneMeansMissing
<1>1. Life => NoneMeansMissing
  BY DEF Life, QueryLife, NoneMeansMissing
<1> QED
  BY <1>1, LifeHolds, PTL

-----------------------------------------------------------------------------
(* The node implements the service.                                        *)

\* A call the loop answers, or whose handler is gone, is a step of the
\* service, or none.
LEMMA AnswerReplies ==
  ASSUME TypeOK, up, NEW c \in Calls, NEW v \in {"some", "none"}, Answer(c, v),
         IF cmd[c].op = "GetRecord" THEN v = "none" /\ c \notin found ELSE TRUE,
         UNCHANGED <<cmd, up, found>>
  PROVE  Service!Reply(c) \/ UNCHANGED Service!vars
<1>1. CASE state[c] = "waiting"
  <2>1. state' = [state EXCEPT ![c] = v]
    BY <1>1 DEF Answer
  <2> QED
    BY <1>1, <2>1 DEF TypeOK, Waiting, Service!Reply, Service!Becomes, Service!IsLookup
<1>2. CASE state[c] # "waiting"
  <2>1. state' = state
    BY <1>2 DEF Answer, TypeOK
  <2> QED
    BY <2>1 DEF Service!vars
<1> QED
  BY <1>1, <1>2

LEMMA HandlerServes ==
  ASSUME TypeOK, NEW c \in Calls, Handler(c)
  PROVE  Service!Next \/ UNCHANGED Service!vars
<1> USE DEF pendings, libp2p, Waiting
<1>1. CASE Ask(c)
  <2>1. Service!Ask(c)
    BY <1>1 DEF Ask, TypeOK, Service!Ask, Service!Becomes
  <2> QED
    BY <2>1 DEF Service!Next
<1>2. CASE Send(c)
  BY <1>2 DEF Send, TypeOK, Service!vars
<1>3. CASE SendFails(c)
  <2>1. Service!Fail(c)
    BY <1>3 DEF SendFails, TypeOK, Service!Fail, Service!Becomes
  <2> QED
    BY <2>1 DEF Service!Next
<1>4. CASE Leave(c)
  <2>1. Service!Leave(c)
    BY <1>4 DEF Leave, TypeOK, Service!Leave, Service!Becomes
  <2> QED
    BY <2>1 DEF Service!Next
<1> QED
  BY <1>1, <1>2, <1>3, <1>4 DEF Handler

LEMMA RecvServes ==
  ASSUME TypeOK, OwnDial, Recv
  PROVE  Service!Next \/ UNCHANGED Service!vars
<1> USE DEF pendings, libp2p
<1>1. CASE RecvGetRecord \/ RecvSendProxyRequest
  BY <1>1 DEF RecvGetRecord, RecvSendProxyRequest, Service!vars
<1>2. CASE RecvLookupPeer
  <2> DEFINE p == cmd[Head(queue)].peer
  <2>1. p \in Peers /\ dialing[p] = 0
    BY <1>2 DEF RecvLookupPeer, MayDial
  <2>2. pending_dials[p] = NoCall
    BY <2>1 DEF OwnDial
  <2>3. \A d \in Calls : state'[d] = state[d]
    BY <1>2, <2>2, ConstantsAssumption DEF RecvLookupPeer
  <2> QED
    BY <1>2, <2>3 DEF RecvLookupPeer, Service!vars
<1>3. CASE RefuseLookupPeer
  <2>1. Head(queue) \in Calls /\ up /\ cmd[Head(queue)].op = "LookupPeer"
    BY <1>3, HeadTail DEF RefuseLookupPeer, CommandIs
  <2> QED
    BY <1>3, <2>1, AnswerReplies DEF RefuseLookupPeer, Service!Next
<1> QED
  BY <1>1, <1>2, <1>3 DEF Recv

LEMMA EventServes ==
  ASSUME TypeOK, Life, Event
  PROVE  Service!Next \/ UNCHANGED Service!vars
<1> USE DEF pendings, libp2p
<1>1. ASSUME NEW c \in Calls, RecordFound(c) PROVE Service!Next
  <2>1. cmd[c].op = "GetRecord" /\ (c \notin pending_queries => c \in found)
    BY <1>1 DEF RecordFound, Life, QueryLife, Kinds
  <2>2. state[c] \notin {"new", "sending"} /\ (c \notin pending_queries => state[c] # "waiting")
    BY <1>1, <2>1 DEF RecordFound, Life, QueryLife
  <2>3. state' = [state EXCEPT ![c] = IF state[c] = "waiting" THEN "some" ELSE state[c]]
    BY <1>1, <2>2 DEF RecordFound, Release, Answer, TypeOK
  <2>4. Service!Meet(c)
    <3>1. CASE state[c] = "waiting"
      <4>1. state' = [state EXCEPT ![c] = "some"]
        BY <2>3, <3>1
      <4> QED
        BY <1>1, <2>1, <3>1, <4>1
           DEF RecordFound, TypeOK, Waiting, Service!Meet, Service!Becomes, Service!IsLookup
    <3>2. CASE state[c] # "waiting"
      <4>1. state' = state /\ state[c] \notin Waiting
        BY <2>2, <2>3, <3>2 DEF TypeOK, Waiting
      <4> QED
        BY <1>1, <2>1, <4>1
           DEF RecordFound, TypeOK, States, Waiting, Service!Meet, Service!Becomes, Service!IsLookup
    <3> QED
      BY <3>1, <3>2
  <2> QED
    BY <2>4 DEF Service!Next
<1>2. ASSUME NEW c \in Calls, QueryEnds(c) PROVE Service!Next \/ UNCHANGED Service!vars
  <2>1. CASE c \in pending_queries
    <3>1. c \notin found
      BY <2>1 DEF Life, QueryLife
    <3> QED
      BY <1>2, <2>1, <3>1, AnswerReplies DEF QueryEnds, Release, Service!Next
  <2>2. CASE c \notin pending_queries
    BY <1>2, <2>2 DEF QueryEnds, Release, Service!vars
  <2> QED
    BY <2>1, <2>2
<1>3. ASSUME NEW c \in Calls, NEW v \in {"some", "none"}, RequestEnds(c, v)
      PROVE  Service!Next \/ UNCHANGED Service!vars
  <2>1. CASE c \in pending_requests
    <3>1. cmd[c].op = "SendProxyRequest"
      BY <2>1 DEF Life, Kinds
    <3> QED
      BY <1>3, <2>1, <3>1, AnswerReplies DEF RequestEnds, Release, Service!Next
  <2>2. CASE c \notin pending_requests
    BY <1>3, <2>2 DEF RequestEnds, Release, Service!vars
  <2> QED
    BY <2>1, <2>2
<1>4. ASSUME NEW p \in Peers, NEW v \in {"some", "none"}, DialEnds(p, v)
      PROVE  Service!Next \/ UNCHANGED Service!vars
  <2>1. CASE pending_dials[p] \in Calls
    <3>1. cmd[pending_dials[p]].op = "LookupPeer"
      BY <2>1 DEF Life, Kinds
    <3> QED
      BY <1>4, <2>1, <3>1, AnswerReplies DEF DialEnds, Release, Service!Next
  <2>2. CASE pending_dials[p] \notin Calls
    BY <1>4, <2>2 DEF DialEnds, Release, Service!vars
  <2> QED
    BY <2>1, <2>2
<1>5. ASSUME NEW p \in Peers, ConnectionClosed(p) \/ BehaviourDials(p)
      PROVE  UNCHANGED Service!vars
  BY <1>5 DEF ConnectionClosed, BehaviourDials, Service!vars
<1> QED
  BY <1>1, <1>2, <1>3, <1>4, <1>5
     DEF Event, ProxyResponse, OutboundFailure, ConnectionEstablished, OutgoingConnectionError

\* The end of the loop fails the calls that wait for an answer.
LEMMA EndServes == TypeOK /\ End => Service!Next
<1> SUFFICES ASSUME TypeOK, End PROVE Service!Stop
  BY DEF Service!Next
<1> DEFINE call == [c \in Calls |-> IF state[c] \in Waiting THEN "asked" ELSE state[c]]
           failed == {c \in Calls : state[c] = "waiting"}
<1>1. failed \in SUBSET {c \in Calls : call[c] = "asked"}
  BY DEF Waiting
<1>2. call' = [c \in Calls |-> IF c \in failed THEN "error" ELSE call[c]]
  BY DEF End, Waiting
<1> QED
  BY <1>1, <1>2 DEF End, Service!Stop, TypeOK

\* To the handlers the node is the service: one answer per call, the first
\* record met, and errors from a stopped node only.
THEOREM ImplementsService == Spec => ServiceSpec
<1>1. Init => Service!Init
  BY DEF Init, Service!Init, Waiting
<1>2. TypeOK /\ OwnDial /\ Life /\ [Next]_vars => [Service!Next]_(Service!vars)
  <2> SUFFICES ASSUME TypeOK, OwnDial, Life, [Next]_vars
               PROVE  Service!Next \/ UNCHANGED Service!vars
    OBVIOUS
  <2>1. CASE Evict \/ UNCHANGED vars
    BY <2>1 DEF Evict, vars, libp2p, Service!vars
  <2> QED
    BY <2>1, HandlerServes, RecvServes, EventServes, EndServes DEF Next, ChannelCloses, Shutdown
<1> QED
  BY <1>1, <1>2, TypeCorrect, OwnDials, LifeHolds, PTL DEF Spec, Safety, ServiceSpec, Service!Spec
=============================================================================
