---------------------------- MODULE ProxyRequest ----------------------------
(***************************************************************************)
(* handle_proxy_request (src/src/proxy.rs): one HTTP request, from its     *)
(* host header to a response.  The handler looks the TLD up in the         *)
(* registry, gets a swarm, asks the DHT for the zone of the name, buffers  *)
(* the body, and then sends the request to one target record of the zone   *)
(* after the other until one of them answers.                              *)
(*                                                                         *)
(* A target that does not answer in time may have executed the request, or *)
(* may execute it later.  Handlers share nothing but the registry and the  *)
(* swarms, so one of them is modelled; the swarm manager's and the node's  *)
(* answers to it are the outcomes SwarmManager and NetworkNode allow.      *)
(***************************************************************************)
EXTENDS HostName, FiniteSets

CONSTANTS
  Requested,    \* host names the clients ask for
  Registered,   \* labels of the TLDs in the registry
  ZoneLists,    \* lists of records a zone may hold under one name
  NoList

\* A PeerId record that does not parse as a peer id is a BadPeerId; Other
\* stands for A, AAAA, CNAME, TXT, KID and unknown records.
Records == {"IPFS", "PeerId", "BadPeerId", "Other"}

ASSUME ConstantsAssumption ==
  /\ Requested \subseteq Hosts
  /\ ZoneLists \subseteq Seq(Records) /\ <<>> \in ZoneLists
  /\ NoList \notin Seq(Records)

VARIABLES
  host,       \* the header's host; <<>> when it is missing or not text
  pc,         \* the await the handler stands at, or "done"
  base, sub,  \* base_domain and subdomain, <<>> until they are known
  records,    \* the list of the zone that was chosen
  left,       \* positions in records of the target_records still to come
  target,     \* position of the loop's current one, 0 before the first
  sent,       \* positions whose target was sent the request
  executed,   \* positions whose target has carried it out
  result      \* what the client gets

name  == <<host, base, sub>>
loop  == <<records, left, target, sent>>
vars  == <<name, pc, loop, executed, result>>

Errors  == {"InvalidProxyRequest", "TldBlacklisted", "NetworkInitFailed",
            "DnsResolutionFailed", "ProxyTargetFailed"}
Results == Errors \cup {"none", "response", "gone"}

Init ==
  /\ host \in Requested \cup {<<>>}
  /\ pc = "host"
  /\ base = <<>> /\ sub = <<>>
  /\ records = <<>> /\ left = {} /\ target = 0
  /\ sent = {} /\ executed = {}
  /\ result = "none"

Return(r) == pc' = "done" /\ result' = r

-----------------------------------------------------------------------------
(* Before any target is known.                                             *)

HostInvalid ==
  /\ pc = "host"
  /\ ~HasTld(host)
  /\ Return("InvalidProxyRequest")
  /\ UNCHANGED <<name, loop, executed>>

HostKnown == pc = "host" /\ HasTld(host)

TldUnknown ==
  /\ HostKnown /\ TldOf(host) \notin Registered
  /\ Return("TldBlacklisted")
  /\ UNCHANGED <<name, loop, executed>>

NoBaseDomain ==
  /\ HostKnown /\ TldOf(host) \in Registered
  /\ ~Extracts(host)
  /\ Return("InvalidProxyRequest")
  /\ UNCHANGED <<name, loop, executed>>

Parse ==
  /\ HostKnown /\ TldOf(host) \in Registered
  /\ Extracts(host)
  /\ base' = BaseDomain(host) /\ sub' = Subdomain(host)
  /\ pc' = "swarm"
  /\ UNCHANGED <<host, loop, executed, result>>

GetSwarm ==
  /\ pc = "swarm"
  /\ pc' = "record"
  /\ UNCHANGED <<name, loop, executed, result>>

NoSwarm ==
  /\ pc = "swarm"
  /\ Return("NetworkInitFailed")
  /\ UNCHANGED <<name, loop, executed>>

\* The swarm is gone, no record, or one that does not verify or parse.
NoRecord ==
  /\ pc = "record"
  /\ Return("DnsResolutionFailed")
  /\ UNCHANGED <<name, loop, executed>>

\* What a zone holds under the subdomain; "www" stands in for a missing "@".
Chosen(here, www) == IF here = NoList /\ sub = <<At>> THEN www ELSE here

\* Mutant: records of every type are kept.
IsTargetAny(record) == record \in Records

IsTarget(record) == record # "Other"

\* The zone arrives; without a list, or without a target in it, it is of no use.
GetZone ==
  /\ pc = "record"
  /\ \E here, www \in ZoneLists \cup {NoList} :
       records' = IF Chosen(here, www) = NoList THEN <<>> ELSE Chosen(here, www)
  /\ left' = {i \in DOMAIN records' : IsTarget(records'[i])}
  /\ IF left' = {} THEN Return("DnsResolutionFailed")
     ELSE pc' = "body" /\ UNCHANGED result
  /\ UNCHANGED <<name, target, sent, executed>>

BodyRead ==
  /\ pc = "body"
  /\ pc' = "next"
  /\ UNCHANGED <<name, loop, executed, result>>

\* Mutant: the body is read for each target, not once for all.
BodyFailsInLoop ==
  /\ pc \in {"body", "next"}
  /\ Return("InvalidProxyRequest")
  /\ UNCHANGED <<name, loop, executed>>

\* The client breaks off, or sends more than 10 MB.
BodyFails ==
  /\ pc = "body"
  /\ Return("InvalidProxyRequest")
  /\ UNCHANGED <<name, loop, executed>>

-----------------------------------------------------------------------------
(* The loop over the target records.                                       *)

\* The loop takes the next of target_records, a record of this kind.
Take(kind) ==
  /\ pc = "next"
  /\ \E i \in left :
       /\ \A j \in left : i <= j
       /\ records[i] = kind
       /\ target' = i
       /\ left' = left \ {i}
  /\ UNCHANGED <<name, records, executed, result>>

\* The peer id does not parse, or the swarm's channel is closed.
BadPeer         == Take("BadPeerId") /\ UNCHANGED <<pc, sent>>
SendToPeerFails == Take("PeerId") /\ UNCHANGED <<pc, sent>>

\* The request is with the target from here on.
SendTo(kind, await) ==
  /\ Take(kind)
  /\ sent' = sent \cup {target'}
  /\ pc' = await

SendToPeer    == SendTo("PeerId", "peer")
SendToGateway == SendTo("IPFS", "gateway")

\* Mutant: the response of an earlier target is taken for this one's.
AnswerOfAnother ==
  /\ executed # {}
  /\ Return("response")
  /\ UNCHANGED <<name, loop, executed>>

\* Only a target that carried the request out has a response to it.
Answer ==
  /\ target \in executed
  /\ Return("response")
  /\ UNCHANGED <<name, loop, executed>>

PeerAnswers    == pc = "peer" /\ Answer
GatewayAnswers == pc = "gateway" /\ Answer

\* The peer's status or headers make no HTTP response: the handler gives up.
PeerAnswersBadly ==
  /\ pc = "peer" /\ target \in executed
  /\ Return("ProxyTargetFailed")
  /\ UNCHANGED <<name, loop, executed>>

\* Mutant: a peer that fails ends the loop.
PeerFailsForAll ==
  /\ pc = "peer"
  /\ Return("ProxyTargetFailed")
  /\ UNCHANGED <<name, loop, executed>>

\* Mutant: a peer that fails is tried again.
PeerFailsRetried ==
  /\ pc = "peer"
  /\ pc' = "next"
  /\ left' = left \cup {target}
  /\ UNCHANGED <<name, records, target, sent, executed, result>>

TargetFails == pc' = "next" /\ UNCHANGED <<name, loop, executed, result>>

\* None: no connection, 15 s are over, the connection broke; or the node ended.
PeerFails    == pc = "peer" /\ TargetFails
GatewayFails == pc = "gateway" /\ TargetFails

Exhausted ==
  /\ pc = "next" /\ left = {}
  /\ Return("ProxyTargetFailed")
  /\ UNCHANGED <<name, loop, executed>>

-----------------------------------------------------------------------------
\* A target carries the request out, now or long after the handler gave up.
Execute(i) ==
  /\ i \in sent \ executed
  /\ executed' = executed \cup {i}
  /\ UNCHANGED <<name, pc, loop, result>>

\* The client disconnects: the handler is dropped at an await.
Abandon ==
  /\ pc \notin {"host", "done"}
  /\ Return("gone")
  /\ UNCHANGED <<name, loop, executed>>

Prepare ==
  \/ HostInvalid \/ TldUnknown \/ NoBaseDomain \/ Parse
  \/ GetSwarm \/ NoSwarm \/ NoRecord \/ GetZone

ReadBody == BodyRead \/ BodyFails

TryTargets ==
  \/ BadPeer \/ SendToPeer \/ SendToPeerFails \/ SendToGateway
  \/ PeerAnswers \/ PeerAnswersBadly \/ PeerFails
  \/ Exhausted

Gateway == GatewayAnswers \/ GatewayFails

Next ==
  \/ Prepare \/ ReadBody \/ TryTargets \/ Gateway
  \/ Abandon
  \/ \E i \in sent : Execute(i)

Safety == Init /\ [][Next]_vars

(***************************************************************************)
(* The runtime runs the handler on; SwarmManager's AcquireEnds and         *)
(* NetworkNode's Answered end its awaits on them.  Nothing makes a client  *)
(* send its body, and the HTTP client that asks an IPFS gateway is built   *)
(* without a timeout: those two awaits need not end.                       *)
(***************************************************************************)
Spec == Safety /\ WF_vars(Prepare) /\ WF_vars(TryTargets)

-----------------------------------------------------------------------------
(* Properties.                                                             *)

\* The type of every variable; the loop goes over IPFS and PeerId records only.
TypeOK ==
  /\ host \in Requested \cup {<<>>}
  /\ pc \in {"host", "swarm", "record", "body", "next", "peer", "gateway", "done"}
  /\ base \in Seq(Labels) /\ sub \in Seq(Labels)
  /\ records \in Seq(Records)
  /\ left \subseteq {i \in DOMAIN records : records[i] # "Other"}
  /\ target \in {0} \cup DOMAIN records
  /\ sent \subseteq DOMAIN records
  /\ executed \subseteq sent
  /\ result \in Results
  /\ (pc = "done") = (result # "none")

\* Every error but ProxyTargetFailed means that no target has carried the
\* request out, and none will: the client may repeat it (proxy.rs:227-237).
ErrorsHaveNoEffect ==
  result \in Errors \ {"ProxyTargetFailed"} => sent = {}

\* A response is the current target's own, after every target before it was
\* given up, and no later target has been sent the request, whatever earlier
\* targets do late (proxy.rs:241-353).
ResponseIsOfTarget ==
  result = "response" => target \in executed /\ \A i \in sent : i <= target

\* The handler fails for want of a target only when none is left to try, or the
\* last one has carried the request out, as one whose answer was no HTTP
\* response must have (proxy.rs:340-359).
AllTried ==
  result = "ProxyTargetFailed" => left = {} \/ target \in executed

\* The DHT is asked for the name before the TLD, and the zone for what comes
\* before that, unless the name equals the TLD (proxy.rs:363-383).
AsksForTheName ==
  base # <<>> /\ Name(host) # TldOf(host) => SplitsRight(host, base, sub)

\* A request ends, or waits for ever for its client's body or for a silent
\* IPFS gateway; no peer, dead or slow, keeps it from the next target
\* (proxy.rs:229, 276, 331-349).
EndsOrHangs == <>(pc = "done") \/ <>[](pc = "body") \/ <>[](pc = "gateway")

\* What the proptest of extract_base_domain_and_subdomain asserts of the base
\* domain, for any name before any TLD with a subdomain before it: it is that
\* name under that TLD (proxy.rs:409-416).
AnyNameSplits ==
  base # <<>> /\ Len(host) > 2 /\ (\A i \in DOMAIN host : host[i] \notin {Empty, At}) =>
    base = <<Name(host), TldOf(host)>>
=============================================================================
