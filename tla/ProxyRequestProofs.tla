------------------------- MODULE ProxyRequestProofs -------------------------
(***************************************************************************)
(* Theorems about ProxyRequest for any host names, registry and zones: what *)
(* an error and a response say of the targets, which name is asked for,    *)
(* and that the handler takes finitely many steps.                         *)
(***************************************************************************)
EXTENDS ProxyRequest, HostNameProofs, FiniteSetTheorems, WellFoundedInduction

\* Before the loop no target was sent anything; at an await of a target it was.
Stage ==
  /\ pc \in {"host", "swarm", "record", "body"} => sent = {} /\ target = 0
  /\ pc \in {"peer", "gateway"} => target \in sent

\* The loop goes over the records in their order.
InOrder ==
  /\ \A i \in sent : i <= target
  /\ \A i \in left : target < i

\* base and sub are what the extraction makes of the host name.
Extracted ==
  base # <<>> =>
    /\ host \in Hosts /\ HasTld(host)
    /\ base = BaseDomain(host) /\ sub = Subdomain(host)

\* The inductive invariant: only the actions' order, which Stage and InOrder
\* state, makes an early error harmless and a response the current target's.
Inv ==
  /\ TypeOK /\ Stage /\ InOrder /\ Extracted
  /\ ErrorsHaveNoEffect /\ ResponseIsOfTarget /\ AllTried

\* A host name with a dot is a host name.
LEMMA HostIsHost ==
  ASSUME TypeOK, HasTld(host)
  PROVE  host \in Hosts
<1>1. host \in Requested \cup {<<>>} /\ Requested \subseteq Hosts
  BY ConstantsAssumption DEF TypeOK
<1>2. host # <<>>
  BY DEF HasTld
<1> QED
  BY <1>1, <1>2

LEMMA InitInv == Init => Inv
<1> SUFFICES ASSUME Init PROVE Inv
  OBVIOUS
<1>1. <<>> \in Seq(Labels) /\ <<>> \in Seq(Records)
  OBVIOUS
<1>2. TypeOK
  BY <1>1 DEF Init, TypeOK, Results
<1> QED
  BY <1>2 DEF Init, Inv, Stage, InOrder, Extracted, ErrorsHaveNoEffect,
              ResponseIsOfTarget, AllTried, Errors

\* A step that ends the handler and leaves the loop alone keeps the invariant,
\* if its result says the truth.
LEMMA ReturnKeepsInv ==
  ASSUME Inv, NEW r \in Results \ {"none"}, Return(r), pc # "done",
         UNCHANGED <<name, loop, executed>>,
         r \in Errors \ {"ProxyTargetFailed"} => sent = {},
         r = "response" => target \in executed,
         r = "ProxyTargetFailed" => left = {} \/ target \in executed
  PROVE  Inv'
<1> USE DEF Inv, name, loop, Return
<1>1. TypeOK'
  BY DEF TypeOK
<1>2. Stage' /\ InOrder'
  BY DEF Stage, InOrder
<1>3. Extracted'
  BY DEF Extracted
<1>4. ErrorsHaveNoEffect' /\ ResponseIsOfTarget' /\ AllTried'
  BY DEF ErrorsHaveNoEffect, ResponseIsOfTarget, AllTried, InOrder
<1> QED
  BY <1>1, <1>2, <1>3, <1>4

\* A step to another await.
LEMMA AwaitKeepsInv ==
  ASSUME Inv, UNCHANGED <<name, loop, executed, result>>, pc # "done",
         pc' \in {"record", "next"},
         pc' = "record" => pc = "swarm"
  PROVE  Inv'
<1> USE DEF Inv, name, loop
<1>1. TypeOK'
  BY DEF TypeOK
<1>2. Stage' /\ InOrder'
  BY DEF Stage, InOrder
<1>3. Extracted'
  BY DEF Extracted
<1>4. ErrorsHaveNoEffect' /\ ResponseIsOfTarget' /\ AllTried'
  BY DEF ErrorsHaveNoEffect, ResponseIsOfTarget, AllTried
<1> QED
  BY <1>1, <1>2, <1>3, <1>4

LEMMA ParseKeepsInv == Inv /\ Parse => Inv'
<1> SUFFICES ASSUME Inv, Parse PROVE Inv'
  OBVIOUS
<1> USE DEF Inv, Parse, HostKnown, loop
<1>1. host \in Hosts
  BY HostIsHost
<1>2. BaseDomain(host) \in Seq(Labels) /\ Subdomain(host) \in Seq(Labels)
  BY <1>1, SplitType DEF Hosts
<1>3. TypeOK'
  BY <1>2 DEF TypeOK
<1>4. Stage' /\ InOrder'
  BY DEF Stage, InOrder
<1>5. Extracted'
  BY <1>1 DEF Extracted
<1>6. ErrorsHaveNoEffect' /\ ResponseIsOfTarget' /\ AllTried'
  BY DEF ErrorsHaveNoEffect, ResponseIsOfTarget, AllTried
<1> QED
  BY <1>3, <1>4, <1>5, <1>6

LEMMA GetZoneKeepsInv == Inv /\ GetZone => Inv'
<1> SUFFICES ASSUME Inv, GetZone PROVE Inv'
  OBVIOUS
<1> USE DEF Inv, name
<1>1. pc = "record" /\ sent = {} /\ target = 0 /\ executed = {} /\ result = "none"
  BY DEF GetZone, Stage, TypeOK
<1>2. UNCHANGED <<host, base, sub, target, sent, executed>>
  BY DEF GetZone
<1>3. records' \in Seq(Records)
  <2>1. PICK here, www \in ZoneLists \cup {NoList} :
          records' = IF Chosen(here, www) = NoList THEN <<>> ELSE Chosen(here, www)
    BY DEF GetZone
  <2>2. Chosen(here, www) \in ZoneLists \cup {NoList}
    BY <2>1 DEF Chosen
  <2> QED
    BY <2>1, <2>2, ConstantsAssumption
<1>4. /\ left' = {i \in DOMAIN records' : IsTarget(records'[i])}
      /\ IF left' = {} THEN Return("DnsResolutionFailed")
         ELSE pc' = "body" /\ UNCHANGED result
  BY DEF GetZone
<1>5. /\ pc' \in {"body", "done"} /\ result' \in {"none", "DnsResolutionFailed"}
      /\ (pc' = "done") = (result' # "none")
  BY <1>1, <1>4 DEF Return
<1>6. TypeOK'
  <2>1. left' \subseteq {i \in DOMAIN records' : records'[i] # "Other"}
    BY <1>4 DEF IsTarget
  <2> QED
    BY <1>1, <1>2, <1>3, <1>5, <2>1 DEF TypeOK, Results, Errors
<1>7. Stage' /\ InOrder'
  <2>1. \A i \in left' : 0 < i
    BY <1>3, <1>4
  <2> QED
    BY <1>1, <1>2, <1>5, <2>1 DEF Stage, InOrder
<1>8. Extracted'
  BY <1>2 DEF Extracted
<1>9. ErrorsHaveNoEffect' /\ ResponseIsOfTarget' /\ AllTried'
  BY <1>1, <1>2, <1>5 DEF ErrorsHaveNoEffect, ResponseIsOfTarget, AllTried
<1> QED
  BY <1>6, <1>7, <1>8, <1>9

\* The loop takes its next record, and may send the request to its target.
LEMMA TakeKeepsInv ==
  ASSUME Inv, NEW kind, Take(kind),
         \/ UNCHANGED <<pc, sent>>
         \/ sent' = sent \cup {target'} /\ pc' \in {"peer", "gateway"}
  PROVE  Inv'
<1> USE DEF Inv, name
<1>1. /\ pc = "next" /\ result = "none" /\ left \subseteq DOMAIN records
      /\ UNCHANGED <<host, base, sub, records, executed, result>>
  BY DEF Take, TypeOK
<1>2. PICK i \in left : /\ \A j \in left : i <= j
                        /\ target' = i /\ left' = left \ {i}
  BY DEF Take
<1>3. left \subseteq Nat /\ target \in Nat /\ sent \subseteq Nat
  BY <1>1 DEF TypeOK
<1>4. TypeOK'
  BY <1>1, <1>2 DEF TypeOK
<1>5. Stage'
  BY <1>1 DEF Stage
<1>6. InOrder'
  <2>1. target < i /\ \A j \in sent : j <= target
    BY <1>2 DEF InOrder
  <2>2. \A j \in sent \cup {i} : j <= i
    BY <1>2, <1>3, <2>1
  <2>3. \A j \in left \ {i} : i < j
    BY <1>2, <1>3
  <2>4. sent' \subseteq sent \cup {i}
    BY <1>2
  <2> QED
    BY <1>2, <2>2, <2>3, <2>4 DEF InOrder
<1>7. Extracted'
  BY <1>1 DEF Extracted
<1>8. ErrorsHaveNoEffect' /\ ResponseIsOfTarget' /\ AllTried'
  BY <1>1 DEF ErrorsHaveNoEffect, ResponseIsOfTarget, AllTried, Errors
<1> QED
  BY <1>4, <1>5, <1>6, <1>7, <1>8

LEMMA ExecuteKeepsInv ==
  ASSUME Inv, NEW i, Execute(i)
  PROVE  Inv'
<1> USE DEF Inv, Execute, name, loop
<1>1. TypeOK'
  BY DEF TypeOK
<1>2. Stage' /\ InOrder' /\ Extracted'
  BY DEF Stage, InOrder, Extracted
<1>3. ErrorsHaveNoEffect' /\ ResponseIsOfTarget' /\ AllTried'
  BY DEF ErrorsHaveNoEffect, ResponseIsOfTarget, AllTried
<1> QED
  BY <1>1, <1>2, <1>3

LEMMA NextInv == Inv /\ [Next]_vars => Inv'
<1> SUFFICES ASSUME Inv, [Next]_vars PROVE Inv'
  OBVIOUS
<1> USE DEF Inv
<1>1. CASE HostInvalid \/ NoBaseDomain
  BY <1>1, ReturnKeepsInv DEF HostInvalid, NoBaseDomain, HostKnown, Stage, Results, Errors
<1>2. CASE TldUnknown
  BY <1>2, ReturnKeepsInv DEF TldUnknown, HostKnown, Stage, Results, Errors
<1>3. CASE Parse
  BY <1>3, ParseKeepsInv
<1>4. CASE GetSwarm
  BY <1>4, AwaitKeepsInv DEF GetSwarm
<1>5. CASE NoSwarm
  BY <1>5, ReturnKeepsInv DEF NoSwarm, Stage, Results, Errors
<1>6. CASE NoRecord
  BY <1>6, ReturnKeepsInv DEF NoRecord, Stage, Results, Errors
<1>7. CASE GetZone
  BY <1>7, GetZoneKeepsInv
<1>8. CASE BodyRead
  BY <1>8, AwaitKeepsInv DEF BodyRead
<1>9. CASE BodyFails
  BY <1>9, ReturnKeepsInv DEF BodyFails, Stage, Results, Errors
<1>10. CASE BadPeer \/ SendToPeerFails
  BY <1>10, TakeKeepsInv DEF BadPeer, SendToPeerFails
<1>11. CASE SendToPeer
  BY <1>11, TakeKeepsInv DEF SendToPeer, SendTo
<1>12. CASE SendToGateway
  BY <1>12, TakeKeepsInv DEF SendToGateway, SendTo
<1>13. CASE PeerAnswers \/ GatewayAnswers
  BY <1>13, ReturnKeepsInv DEF PeerAnswers, GatewayAnswers, Answer, Results, Errors
<1>14. CASE PeerAnswersBadly
  BY <1>14, ReturnKeepsInv DEF PeerAnswersBadly, Results, Errors
<1>15. CASE PeerFails \/ GatewayFails
  BY <1>15, AwaitKeepsInv DEF PeerFails, GatewayFails, TargetFails
<1>16. CASE Exhausted
  BY <1>16, ReturnKeepsInv DEF Exhausted, Results, Errors
<1>17. CASE Abandon
  BY <1>17, ReturnKeepsInv DEF Abandon, Results, Errors
<1>18. CASE \E i \in sent : Execute(i)
  BY <1>18, ExecuteKeepsInv
<1>19. CASE UNCHANGED vars
  BY <1>19 DEF vars, name, loop, TypeOK, Stage, InOrder, Extracted,
     ErrorsHaveNoEffect, ResponseIsOfTarget, AllTried
<1> QED
  BY <1>1, <1>2, <1>3, <1>4, <1>5, <1>6, <1>7, <1>8, <1>9, <1>10, <1>11, <1>12,
     <1>13, <1>14, <1>15, <1>16, <1>17, <1>18, <1>19
     DEF Next, Prepare, ReadBody, TryTargets, Gateway

LEMMA Invariance == Spec => []Inv
<1>1. Init => Inv
  BY InitInv
<1>2. Inv /\ [Next]_vars => Inv'
  BY NextInv
<1> QED
  BY <1>1, <1>2, PTL DEF Spec, Safety

\* Types, and that the loop tries records of the two target types only.
THEOREM TypeCorrect == Spec => []TypeOK
<1>1. Inv => TypeOK
  BY DEF Inv
<1> QED
  BY <1>1, Invariance, PTL

\* An error before the loop means that nothing was, or ever will be, carried
\* out on the client's behalf (proxy.rs:50-237).
THEOREM EarlyErrorsHarmless == Spec => []ErrorsHaveNoEffect
<1>1. Inv => ErrorsHaveNoEffect
  BY DEF Inv
<1> QED
  BY <1>1, Invariance, PTL

\* A response is the last target's that was sent the request, and no earlier
\* target's, however late that one acts (proxy.rs:241-353).
THEOREM ResponseOfTarget == Spec => []ResponseIsOfTarget
<1>1. Inv => ResponseIsOfTarget
  BY DEF Inv
<1> QED
  BY <1>1, Invariance, PTL

\* The handler does not give up while a target is left (proxy.rs:340-359).
THEOREM FailoverComplete == Spec => []AllTried
<1>1. Inv => AllTried
  BY DEF Inv
<1> QED
  BY <1>1, Invariance, PTL

\* The DHT is asked for the name before the TLD and the zone for what comes
\* before the name, for host names of any length (proxy.rs:363-383).
THEOREM RightName == Spec => []AsksForTheName
<1>1. Inv => AsksForTheName
  BY SplitsUnlessRepeated DEF Inv, Extracted, AsksForTheName
<1> QED
  BY <1>1, Invariance, PTL

-----------------------------------------------------------------------------
(* Why the handler ends, once its awaits do.                               *)

\* The steps before the loop; the loop's own start with the last of them.
Awaits ==
  CASE pc = "host" -> 4 [] pc = "swarm" -> 3 [] pc = "record" -> 2 [] pc = "body" -> 1
    [] OTHER -> 0

\* In the loop two steps for each target: to ask it, and to give it up.
Tries ==
  CASE pc = "next" -> 2 * Cardinality(left) + 1
    [] pc \in {"peer", "gateway"} -> 2 * Cardinality(left) + 2
    [] OTHER -> 0

Rank == <<Awaits, Tries>>

Below == LexPairOrdering(OpToRel(<, Nat), OpToRel(<, Nat), Nat, Nat)

\* There is no infinite descent of ranks.
LEMMA BelowWellFounded == IsWellFoundedOn(Below, Nat \X Nat)
BY NatLessThanWellFounded, WFLexPairOrdering DEF Below

LEMMA BelowPairs ==
  ASSUME NEW a \in Nat, NEW b \in Nat, NEW c \in Nat, NEW d \in Nat,
         a < c \/ (a = c /\ b < d)
  PROVE  <<<<a, b>>, <<c, d>>>> \in Below
BY DEF Below, LexPairOrdering, OpToRel

\* The targets still to come are finitely many, and a turn of the loop uses
\* one up.
LEMMA PositionsFinite ==
  ASSUME NEW s \in Seq(Records), NEW S \in SUBSET DOMAIN s
  PROVE  IsFiniteSet(S) /\ Cardinality(S) \in Nat
<1>1. Len(s) \in Nat /\ DOMAIN s = 1 .. Len(s)
  OBVIOUS
<1>2. IsFiniteSet(1 .. Len(s))
  BY <1>1, FS_Interval
<1> QED
  BY <1>1, <1>2, FS_Subset, FS_CardinalityType

LEMMA TakeUsesUp ==
  ASSUME TypeOK, NEW kind, Take(kind)
  PROVE  Cardinality(left') = Cardinality(left) - 1
<1>1. PICK i \in left : left' = left \ {i}
  BY DEF Take
<1> QED
  BY <1>1, PositionsFinite, FS_RemoveElement DEF TypeOK

\* What the handler does takes its rank down in a well-founded order, whatever
\* the zone holds and the targets do: it never tries a target twice and never
\* goes back to an await it has passed (proxy.rs:50-361).
Descends == [][(<<Rank', Rank>> \in Below)]_<<name, pc, loop, result>>

\* The handler takes finitely many steps, so that only an await that does not
\* end can keep a request from its response.
THEOREM HandlerDescends == IsWellFoundedOn(Below, Nat \X Nat) /\ (Spec => Descends)
<1>1. ASSUME TypeOK, TypeOK', Next, ~UNCHANGED <<name, pc, loop, result>>
      PROVE  <<Rank', Rank>> \in Below
  <2> DEFINE n == Cardinality(left)
  <2>1. n \in Nat /\ n' \in Nat
    BY <1>1, PositionsFinite DEF TypeOK
  <2>2. Awaits \in Nat /\ Awaits' \in Nat /\ Tries \in Nat /\ Tries' \in Nat
    BY <2>1 DEF Awaits, Tries
  <2>3. CASE Awaits' < Awaits
    BY <2>2, <2>3, BelowPairs DEF Rank
  <2>4. CASE Awaits' = 0 /\ Awaits = 0 /\ Tries' < Tries
    BY <2>2, <2>4, BelowPairs DEF Rank
  <2>5. CASE Prepare \/ ReadBody
    <3>1. Awaits' < Awaits
      BY <2>5 DEF Prepare, ReadBody, HostInvalid, TldUnknown, NoBaseDomain, Parse, HostKnown,
         GetSwarm, NoSwarm, NoRecord, GetZone, BodyRead, BodyFails, Return, Awaits
    <3> QED
      BY <2>3, <3>1
  <2>6. CASE BadPeer \/ SendToPeerFails
    <3>1. n' = n - 1 /\ pc = "next" /\ pc' = "next"
      BY <1>1, <2>6, TakeUsesUp DEF BadPeer, SendToPeerFails, Take
    <3>2. Awaits' = 0 /\ Awaits = 0 /\ Tries' = 2 * n' + 1 /\ Tries = 2 * n + 1
      BY <3>1 DEF Awaits, Tries
    <3> QED
      BY <2>1, <2>4, <3>1, <3>2
  <2>7. CASE SendToPeer \/ SendToGateway
    <3>1. n' = n - 1 /\ pc = "next" /\ pc' \in {"peer", "gateway"}
      BY <1>1, <2>7, TakeUsesUp DEF SendToPeer, SendToGateway, SendTo, Take
    <3>2. Awaits' = 0 /\ Awaits = 0 /\ Tries' = 2 * n' + 2 /\ Tries = 2 * n + 1
      BY <3>1 DEF Awaits, Tries
    <3> QED
      BY <2>1, <2>4, <3>1, <3>2
  <2>8. CASE PeerFails \/ GatewayFails
    <3>1. n' = n /\ pc \in {"peer", "gateway"} /\ pc' = "next"
      BY <2>8 DEF PeerFails, GatewayFails, TargetFails, loop
    <3>2. Awaits' = 0 /\ Awaits = 0 /\ Tries' = 2 * n' + 1 /\ Tries = 2 * n + 2
      BY <3>1 DEF Awaits, Tries
    <3> QED
      BY <2>1, <2>4, <3>1, <3>2
  <2>9. CASE pc # "done" /\ pc' = "done"
    <3>1. Awaits' = 0 /\ Tries' = 0
      BY <2>9 DEF Awaits, Tries
    <3>2. Awaits > 0 \/ (Awaits = 0 /\ Tries > 0)
      BY <1>1, <2>1, <2>9 DEF Awaits, Tries, TypeOK
    <3> QED
      BY <2>2, <2>3, <2>4, <3>1, <3>2
  <2>10. CASE PeerAnswers \/ PeerAnswersBadly \/ GatewayAnswers \/ Exhausted \/ Abandon
    BY <2>9, <2>10 DEF PeerAnswers, PeerAnswersBadly, GatewayAnswers, Answer, Exhausted,
       Abandon, Return
  <2>11. ~\E i \in sent : Execute(i)
    BY <1>1 DEF Execute
  <2> QED
    BY <1>1, <2>5, <2>6, <2>7, <2>8, <2>10, <2>11 DEF Next, TryTargets, Gateway
<1>2. TypeOK /\ TypeOK' /\ [Next]_vars => [(<<Rank', Rank>> \in Below)]_<<name, pc, loop, result>>
  BY <1>1 DEF vars
<1>3. Spec => Descends
  BY <1>2, TypeCorrect, PTL DEF Spec, Safety, Descends
<1> QED
  BY <1>3, BelowWellFounded
=============================================================================
