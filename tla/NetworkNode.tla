----------------------------- MODULE NetworkNode -----------------------------
(***************************************************************************)
(* KineticAtlasNode::run (src/src/network.rs): the event loop of one       *)
(* libp2p node.  Proxy handlers that own a sender of its bounded channel   *)
(* put commands into it, each with a oneshot responder, and await the      *)
(* answer.  The loop takes commands, starts libp2p operations, and keeps   *)
(* the responders in three maps until an event of libp2p releases them.    *)
(* When the loop ends, by a closed channel or by shutdown, queue and maps  *)
(* are dropped and whoever still waits gets an error.                      *)
(*                                                                         *)
(* libp2p is external: an operation is in a set until the event that ends  *)
(* it.  A query or a request has the identity of the call that started it, *)
(* which stands for the fresh QueryId or OutboundRequestId.                *)
(***************************************************************************)
EXTENDS Naturals, Sequences, Functions

CONSTANTS
  Calls,      \* commands handlers send, each at most once
  Peers,      \* peer identities
  Capacity,   \* of the command channel (32)
  MaxDials,   \* bootstrap addresses dialled at the start (8)
  NoCall, NoPeer

ASSUME ConstantsAssumption ==
  /\ Capacity \in Nat \ {0}
  /\ MaxDials \in Nat
  /\ NoCall \notin Calls
  /\ NoPeer \notin Peers

VARIABLES
  pooled,     \* the swarm manager's map has a handle of this node
  state,      \* [Calls -> States]: where the call's handler stands
  cmd,        \* [Calls -> Commands]: what it sends
  queue,      \* the channel: a sequence of calls
  up,         \* the loop runs
  pending_queries, pending_requests,   \* calls whose responder is in the map
  pending_dials,                       \* [Peers -> Calls or NoCall]
  queries, requests,                   \* libp2p: operations under way
  dialing,                             \* libp2p: [Peers -> Nat], dials under way
  connected,                           \* libp2p: connected peers
  found                                \* libp2p: queries that have met a record

pendings == <<pending_queries, pending_requests, pending_dials>>
libp2p   == <<queries, requests, dialing, connected, found>>
vars     == <<pooled, state, cmd, queue, up, pendings, libp2p>>

Waiting == {"sending", "waiting"}
States  == Waiting \cup {"new", "some", "none", "error", "gone"}

\* A LookupPeer whose string is no peer id has peer NoPeer.
Commands ==
  [op : {"GetRecord"}, peer : {NoPeer}]
    \cup [op : {"SendProxyRequest"}, peer : Peers]
    \cup [op : {"LookupPeer"}, peer : Peers \cup {NoPeer}]

\* The manager or a handler that has not returned owns a sender.
HasSender == pooled \/ \E c \in Calls : state[c] \notin {"new", "gone"}

\* What new's loop over the bootstrap addresses leaves under way: addresses
\* that parse and end in a peer id are dialled until MaxDials dials have
\* started, those of one peer side by side; a dial may fail at once.
Total(d) == FoldFunction(+, 0, d)
Bootstrapped == {d \in [Peers -> 0 .. MaxDials] : Total(d) <= MaxDials}

Init ==
  /\ pooled = TRUE
  /\ state = [c \in Calls |-> "new"]
  /\ cmd \in [Calls -> Commands]
  /\ queue = <<>>
  /\ up = TRUE
  /\ pending_queries = {} /\ pending_requests = {}
  /\ pending_dials = [p \in Peers |-> NoCall]
  /\ queries = {} /\ requests = {}
  /\ dialing \in Bootstrapped
  /\ connected = {}
  /\ found = {}

-----------------------------------------------------------------------------
(* The handlers.                                                           *)

\* A handler with a clone of some sender starts to send; a second call of the
\* same handler is another element of Calls.
Ask(c) ==
  /\ state[c] = "new" /\ HasSender
  /\ state' = [state EXCEPT ![c] = "sending"]
  /\ UNCHANGED <<pooled, cmd, queue, up, pendings, libp2p>>

\* Mutant: the channel is unbounded.
SendUnbounded(c) ==
  /\ state[c] = "sending" /\ up
  /\ queue' = Append(queue, c)
  /\ state' = [state EXCEPT ![c] = "waiting"]
  /\ UNCHANGED <<pooled, cmd, up, pendings, libp2p>>

Send(c) ==
  /\ state[c] = "sending" /\ up
  /\ Len(queue) < Capacity
  /\ queue' = Append(queue, c)
  /\ state' = [state EXCEPT ![c] = "waiting"]
  /\ UNCHANGED <<pooled, cmd, up, pendings, libp2p>>

SendFails(c) ==
  /\ state[c] = "sending" /\ ~up
  /\ state' = [state EXCEPT ![c] = "error"]
  /\ UNCHANGED <<pooled, cmd, queue, up, pendings, libp2p>>

\* The handler returns, or is dropped at an await because its client left.
Leave(c) ==
  /\ state[c] \notin {"new", "gone"}
  /\ state' = [state EXCEPT ![c] = "gone"]
  /\ UNCHANGED <<pooled, cmd, queue, up, pendings, libp2p>>

\* The garbage collector drops the map's handle.
Evict ==
  /\ pooled
  /\ pooled' = FALSE
  /\ UNCHANGED <<state, cmd, queue, up, pendings, libp2p>>

-----------------------------------------------------------------------------
(* The loop takes a command.                                               *)

\* resp.send(v): the result is ignored when the handler is gone.
Answer(c, v) == state' = [state EXCEPT ![c] = IF @ = "waiting" THEN v ELSE @]

CommandIs(op) == up /\ queue # <<>> /\ cmd[Head(queue)].op = op

RecvGetRecord ==
  /\ CommandIs("GetRecord")
  /\ queue' = Tail(queue)
  /\ queries' = queries \cup {Head(queue)}
  /\ pending_queries' = pending_queries \cup {Head(queue)}
  /\ UNCHANGED <<pooled, state, cmd, up, pending_requests, pending_dials,
                 requests, dialing, connected, found>>

RecvSendProxyRequest ==
  /\ CommandIs("SendProxyRequest")
  /\ queue' = Tail(queue)
  /\ requests' = requests \cup {Head(queue)}
  /\ pending_requests' = pending_requests \cup {Head(queue)}
  /\ UNCHANGED <<pooled, state, cmd, up, pending_queries, pending_dials,
                 queries, dialing, connected, found>>

\* Mutant: PeerCondition::Always.
MayDialAlways(p) == p \in Peers

\* Mutant: PeerCondition::Disconnected.
MayDialDisconnected(p) == p \in Peers /\ p \notin connected

\* The default condition of a dial by peer id: no connection to p and no dial
\* under way.
MayDial(p) == p \in Peers /\ p \notin connected /\ dialing[p] = 0

\* The dial starts.  HashMap::insert drops a responder it replaces, and the
\* handler that awaits that one gets an error.
RecvLookupPeer ==
  /\ CommandIs("LookupPeer")
  /\ LET c == Head(queue)
         p == cmd[c].peer
     IN /\ MayDial(p)
        /\ dialing' = [dialing EXCEPT ![p] = @ + 1]
        /\ pending_dials' = [pending_dials EXCEPT ![p] = c]
        /\ state' = [d \in Calls |->
                       IF d = pending_dials[p] /\ state[d] = "waiting" THEN "error"
                       ELSE state[d]]
  /\ queue' = Tail(queue)
  /\ UNCHANGED <<pooled, cmd, up, pending_queries, pending_requests,
                 queries, requests, connected, found>>

\* Mutant: the refused call's responder is dropped, not answered.
RefuseLookupPeerSilently ==
  /\ CommandIs("LookupPeer")
  /\ Answer(Head(queue), "error")
  /\ queue' = Tail(queue)
  /\ UNCHANGED <<pooled, cmd, up, pendings, libp2p>>

\* The string is no peer id, or dial refuses, be it by its condition or since
\* no address of the peer is known: the answer is None at once.
RefuseLookupPeer ==
  /\ CommandIs("LookupPeer")
  /\ Answer(Head(queue), "none")
  /\ queue' = Tail(queue)
  /\ UNCHANGED <<pooled, cmd, up, pendings, libp2p>>

Recv == RecvGetRecord \/ RecvSendProxyRequest \/ RecvLookupPeer \/ RefuseLookupPeer

-----------------------------------------------------------------------------
(* The loop takes an event of libp2p.                                      *)

\* A map gives up c's responder, if it has it, and the responder sends v.
Release(c, pending, v) ==
  IF c \in pending THEN Answer(c, v) ELSE state' = state

\* Mutant: only the last result answers the caller.
RecordFoundWaits(c) ==
  /\ up /\ c \in queries
  /\ found' = found \cup {c}
  /\ UNCHANGED <<pooled, state, cmd, queue, up, pendings, queries, requests, dialing, connected>>

\* FoundRecord, an intermediate result: the first one answers the caller.
RecordFound(c) ==
  /\ up /\ c \in queries
  /\ found' = found \cup {c}
  /\ Release(c, pending_queries, "some")
  /\ pending_queries' = pending_queries \ {c}
  /\ UNCHANGED <<pooled, cmd, queue, up, pending_requests, pending_dials,
                 queries, requests, dialing, connected>>

\* Mutant: results other than a record are not matched.
QueryEndsSilently(c) ==
  /\ up /\ c \in queries
  /\ queries' = queries \ {c}
  /\ UNCHANGED <<pooled, state, cmd, queue, up, pendings, requests, dialing, connected, found>>

\* The last result, FinishedWithNoAdditionalRecord after a record, NotFound
\* or the timeout of 5 s.
QueryEnds(c) ==
  /\ up /\ c \in queries
  /\ queries' = queries \ {c}
  /\ Release(c, pending_queries, "none")
  /\ pending_queries' = pending_queries \ {c}
  /\ UNCHANGED <<pooled, cmd, queue, up, pending_requests, pending_dials,
                 requests, dialing, connected, found>>

\* Message::Response, or OutboundFailure: no connection, closed, or 15 s over.
RequestEnds(c, v) ==
  /\ up /\ c \in requests
  /\ requests' = requests \ {c}
  /\ Release(c, pending_requests, v)
  /\ pending_requests' = pending_requests \ {c}
  /\ UNCHANGED <<pooled, cmd, queue, up, pending_queries, pending_dials,
                 queries, dialing, connected, found>>

ProxyResponse(c) == RequestEnds(c, "some")

\* Mutant: the arm of OutboundFailure is missing.
OutboundFailureUnhandled(c) ==
  /\ up /\ c \in requests
  /\ requests' = requests \ {c}
  /\ UNCHANGED <<pooled, state, cmd, queue, up, pendings, queries, dialing, connected, found>>

OutboundFailure(c) == RequestEnds(c, "none")

\* A dial ends; the responder waiting for this peer, if any, sends v.
DialEnds(p, v) ==
  /\ up /\ dialing[p] > 0
  /\ dialing' = [dialing EXCEPT ![p] = @ - 1]
  /\ Release(pending_dials[p], Calls, v)
  /\ pending_dials' = [pending_dials EXCEPT ![p] = NoCall]
  /\ UNCHANGED <<pooled, cmd, queue, up, pending_queries, pending_requests,
                 queries, requests, found>>

\* The remote address may hold no IP (a /dns address): then None.
ConnectionEstablished(p) ==
  /\ \E v \in {"some", "none"} : DialEnds(p, v)
  /\ connected' = connected \cup {p}

\* Mutant: a failed dial leaves its responder in the map.
OutgoingConnectionErrorKept(p) ==
  /\ up /\ dialing[p] > 0
  /\ dialing' = [dialing EXCEPT ![p] = @ - 1]
  /\ UNCHANGED <<pooled, state, cmd, queue, up, pendings, queries, requests, connected, found>>

OutgoingConnectionError(p) == DialEnds(p, "none") /\ UNCHANGED connected

ConnectionClosed(p) ==
  /\ up /\ p \in connected
  /\ connected' = connected \ {p}
  /\ UNCHANGED <<pooled, state, cmd, queue, up, pendings, queries, requests, dialing, found>>

\* Kademlia's walk, or a request to a peer not connected, dials it.
BehaviourDials(p) ==
  /\ up /\ MayDial(p)
  /\ dialing' = [dialing EXCEPT ![p] = @ + 1]
  /\ UNCHANGED <<pooled, state, cmd, queue, up, pendings, queries, requests, connected, found>>

-----------------------------------------------------------------------------
(* The end of the loop: the receiver, the maps and the swarm are dropped.  *)

End ==
  /\ up /\ up' = FALSE
  /\ queue' = <<>>
  /\ pending_queries' = {} /\ pending_requests' = {}
  /\ pending_dials' = [p \in Peers |-> NoCall]
  /\ queries' = {} /\ requests' = {} /\ connected' = {}
  /\ dialing' = [p \in Peers |-> 0]
  /\ state' = [c \in Calls |-> IF state[c] = "waiting" THEN "error" ELSE state[c]]
  /\ UNCHANGED <<pooled, cmd, found>>

\* recv returns None: no sender is left and the channel is empty.
ChannelCloses == ~HasSender /\ queue = <<>> /\ End

\* The task's select takes the shutdown broadcast instead.
Shutdown == End

-----------------------------------------------------------------------------
Handler(c) == Ask(c) \/ Send(c) \/ SendFails(c) \/ Leave(c)

Event ==
  \/ \E c \in Calls :
       RecordFound(c) \/ QueryEnds(c) \/ ProxyResponse(c) \/ OutboundFailure(c)
  \/ \E p \in Peers :
       \/ ConnectionEstablished(p) \/ OutgoingConnectionError(p)
       \/ ConnectionClosed(p) \/ BehaviourDials(p)

Next ==
  \/ \E c \in Calls : Handler(c)
  \/ Evict
  \/ Recv
  \/ Event
  \/ ChannelCloses
  \/ Shutdown

Safety == Init /\ [][Next]_vars

(***************************************************************************)
(* select! polls both branches in random order, so neither a full queue    *)
(* nor a stream of events starves the other; the channel serves waiting    *)
(* senders in order; each operation of libp2p ends by its own timeout.     *)
(* Handlers need not return, and the map's handle need not be dropped.     *)
(***************************************************************************)
Fairness ==
  /\ WF_vars(Recv)
  /\ WF_vars(ChannelCloses)
  /\ \A c \in Calls :
       /\ WF_vars(Send(c) \/ SendFails(c))
       /\ WF_vars(QueryEnds(c) \/ ProxyResponse(c) \/ OutboundFailure(c))
  /\ \A p \in Peers : WF_vars(ConnectionEstablished(p) \/ OutgoingConnectionError(p))

Spec == Safety /\ Fairness

-----------------------------------------------------------------------------
(* Properties.                                                             *)

\* The type of every variable; a stopped loop keeps nothing.
TypeOK ==
  /\ pooled \in BOOLEAN
  /\ state \in [Calls -> States]
  /\ cmd \in [Calls -> Commands]
  /\ queue \in Seq(Calls) /\ Len(queue) <= Capacity
  /\ up \in BOOLEAN
  /\ pending_queries \subseteq Calls
  /\ pending_requests \subseteq Calls
  /\ pending_dials \in [Peers -> Calls \cup {NoCall}]
  /\ queries \subseteq Calls
  /\ requests \subseteq Calls
  /\ dialing \in [Peers -> Nat]
  /\ connected \subseteq Peers
  /\ found \subseteq Calls

InQueue(c) == \E i \in 1 .. Len(queue) : queue[i] = c
Dialled(c) == \E p \in Peers : dialing[p] > 0 /\ pending_dials[p] = c

\* A handler that awaits an answer is never forgotten: its command is in the
\* channel, or its responder is in the map libp2p's next event for the live
\* operation will look in (network.rs:162-244).
WaiterTracked ==
  \A c \in Calls : state[c] = "waiting" =>
    \/ InQueue(c)
    \/ c \in pending_queries \cap queries
    \/ c \in pending_requests \cap requests
    \/ Dialled(c)

\* As long as the loop runs no responder is dropped unanswered, though two
\* lookups of one peer share a key of pending_dials (network.rs:174-175).
NeverDropped == up => \A c \in Calls : state[c] # "error"

\* The next dial of a peer to end answers whoever looks the peer up: it is that
\* lookup's own, never one of the bootstrap's (network.rs:133-139, 174, 227).
OwnDial == \A p \in Peers : pending_dials[p] # NoCall => dialing[p] = 1

\* None means the DHT has no record: the later, empty results of a query that
\* has met a record do not overtake the record (network.rs:196-206).
NoneMeansMissing ==
  \A c \in Calls : state[c] = "none" /\ cmd[c].op = "GetRecord" => c \notin found

\* Every handler that sends or waits is answered, fails or leaves, whatever
\* the peers do, with the channel full or the node stopping.
Answered ==
  \A c \in Calls : state[c] \in Waiting ~> state[c] \notin Waiting

Pending(c) ==
  \/ c \in pending_queries \cup pending_requests
  \/ \E p \in Peers : pending_dials[p] = c

\* The maps do not leak: the responder of a handler that went away is removed
\* like any other.
PendingDrains == \A c \in Calls : Pending(c) ~> ~Pending(c)

\* To the handlers the node is the service of NodeService: channel, maps and
\* libp2p amount to one answer per call, given by a node that still runs.
Service == INSTANCE NodeService WITH
  call <- [c \in Calls |-> IF state[c] \in Waiting THEN "asked" ELSE state[c]],
  met <- found, stopped <- ~up

ServiceSpec == Service!Spec
=============================================================================
