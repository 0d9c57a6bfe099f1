--------------------------- MODULE HostNameProofs ---------------------------
(* What HostName's operators return, for every host name. *)
EXTENDS HostName, SequenceTheorems, FiniteSetTheorems, WellFoundedInduction, TLAPS

\* A nonempty set of lengths has a least element.
LEMMA LeastLength ==
  ASSUME NEW T \in SUBSET Nat, T # {}
  PROVE  \E n \in T : \A m \in T : ~(m < n)
<1>1. \E n \in T : \A m \in T : <<m, n>> \notin OpToRel(<, Nat)
  BY NatLessThanWellFounded, WFMin
<1> QED
  BY <1>1 DEF OpToRel

\* There is a length to cut a host name to, and it is the only one.
LEMMA KeptLength ==
  ASSUME NEW host \in Hosts
  PROVE  /\ \E n \in 1 .. Len(host) : Keeps(host, n)
         /\ \A n, m \in 1 .. Len(host) : Keeps(host, n) /\ Keeps(host, m) => n = m
<1> host \in Seq(Labels) /\ Len(host) \in Nat \ {0}
  BY EmptySeq DEF Hosts
<1> DEFINE T == {n \in 1 .. Len(host) : \A i \in n + 1 .. Len(host) : host[i] = TldOf(host)}
<1>1. Len(host) \in T /\ T \in SUBSET Nat
  OBVIOUS
<1>2. PICK n \in T : \A m \in T : ~(m < n)
  BY <1>1, LeastLength
<1>3. Keeps(host, n)
  <2>1. CASE n = 1
    BY <2>1 DEF Keeps
  <2>2. CASE n # 1
    <3>1. n - 1 \in 1 .. Len(host) /\ n - 1 \notin T
      <4>1. n \in 1 .. Len(host) /\ n - 1 \in 1 .. Len(host) /\ n - 1 < n
        BY <1>2, <2>2
      <4> QED
        BY <4>1, <1>2
    <3>2. PICK i \in n .. Len(host) : host[i] # TldOf(host)
      BY <3>1
    <3> QED
      BY <3>2, <1>2 DEF Keeps
  <2> QED
    BY <2>1, <2>2
<1>4. ASSUME NEW k \in 1 .. Len(host), NEW m \in 1 .. Len(host), Keeps(host, k), Keeps(host, m), k < m
      PROVE  FALSE
  BY <1>4 DEF Keeps
<1>5. \A k, m \in 1 .. Len(host) : Keeps(host, k) /\ Keeps(host, m) => k = m
  BY <1>4
<1> QED
  BY <1>2, <1>3, <1>5

\* The parts are a prefix of the host name, and not empty.
LEMMA PartsOfHost ==
  ASSUME NEW host \in Hosts
  PROVE  /\ Parts(host) \in Hosts
         /\ \A n \in 1 .. Len(host) :
              Keeps(host, n) => Parts(host) = SubSeq(host, 1, n)
<1> host \in Seq(Labels) /\ Len(host) \in Nat \ {0}
  BY EmptySeq DEF Hosts
<1>1. PICK n \in 1 .. Len(host) : Keeps(host, n)
  BY KeptLength
<1>2. \A m \in 1 .. Len(host) : Keeps(host, m) => m = n
  BY <1>1, KeptLength
<1>3. Parts(host) = SubSeq(host, 1, n)
  BY <1>1, <1>2 DEF Parts
<1>4. SubSeq(host, 1, n) \in Seq(Labels) /\ Len(SubSeq(host, 1, n)) = n
  BY SubSeqProperties
<1> QED
  BY <1>2, <1>3, <1>4, EmptySeq DEF Hosts

LEMMA FrontOfHost ==
  ASSUME NEW s \in Hosts, Len(s) > 1
  PROVE  SubSeq(s, 1, Len(s) - 1) \in Hosts
<1> DEFINE front == SubSeq(s, 1, Len(s) - 1)
<1>1. s \in Seq(Labels) /\ Len(s) \in Nat
  BY DEF Hosts
<1>2. front \in Seq(Labels) /\ Len(front) = Len(s) - 1
  BY <1>1, SubSeqProperties
<1> HIDE DEF front
<1>3. front # <<>>
  BY <1>1, <1>2
<1> QED
  BY <1>2, <1>3 DEF Hosts, front

\* The types of what the extraction returns.
LEMMA SplitType ==
  ASSUME NEW host \in Hosts
  PROVE  BaseDomain(host) \in Hosts /\ Subdomain(host) \in Hosts
<1> DEFINE parts == Parts(host)
<1>1. /\ host \in Seq(Labels) /\ Len(host) \in Nat \ {0}
      /\ parts \in Seq(Labels) /\ Len(parts) \in Nat \ {0}
  BY PartsOfHost, EmptySeq DEF Hosts
<1>2. BaseDomain(host) \in Hosts
  <2>1. parts[Len(parts)] \in Labels /\ TldOf(host) \in Labels
    BY <1>1, ElementOfSeq DEF TldOf
  <2> QED
    BY <2>1 DEF BaseDomain, Hosts
<1>3. Subdomain(host) \in Hosts
  <2>1. CASE Len(parts) > 1
    <3>1. SubSeq(parts, 1, Len(parts) - 1) \in Hosts
      BY <2>1, PartsOfHost, FrontOfHost
    <3>2. Subdomain(host) = SubSeq(parts, 1, Len(parts) - 1)
      BY <2>1 DEF Subdomain
    <3> QED
      BY <3>1, <3>2
  <2>2. CASE ~(Len(parts) > 1)
    <3>1. <<At>> \in Hosts
      BY HostNameAssumption DEF Hosts
    <3>2. Subdomain(host) = <<At>>
      BY <2>2 DEF Subdomain
    <3> QED
      BY <3>1, <3>2
  <2> QED
    BY <2>1, <2>2
<1> QED
  BY <1>2, <1>3

\* extract_base_domain_and_subdomain splits every host name as its tests
\* expect, of any length, unless the name equals the TLD (proxy.rs:363-383).
THEOREM SplitsUnlessRepeated ==
  ASSUME NEW host \in Hosts, HasTld(host), Name(host) # TldOf(host)
  PROVE  SplitsRight(host, BaseDomain(host), Subdomain(host))
<1> DEFINE n == Len(host) - 1
<1>1. host \in Seq(Labels) /\ n \in 1 .. Len(host) /\ n >= 1 /\ Len(host) \in Nat
  BY EmptySeq DEF Hosts, HasTld
<1>2. Keeps(host, n)
  BY <1>1 DEF Keeps, Name, TldOf
<1>3. Parts(host) = SubSeq(host, 1, n)
  BY <1>1, <1>2, PartsOfHost
<1>4. /\ Len(Parts(host)) = n /\ Parts(host) \in Seq(Labels)
      /\ \A i \in 1 .. n : Parts(host)[i] = host[i]
  BY <1>1, <1>3, SubSeqProperties
<1>5. BaseDomain(host) = <<Name(host), TldOf(host)>>
  BY <1>1, <1>4 DEF BaseDomain, Name
<1>6. CASE Len(host) > 2
  <2>1. SubSeq(Parts(host), 1, n - 1) = SubSeq(host, 1, n - 1)
    BY <1>1, <1>3, <1>4, <1>6
  <2> QED
    BY <1>1, <1>4, <1>5, <1>6, <2>1 DEF SplitsRight, Subdomain, Before
<1>7. CASE ~(Len(host) > 2)
  BY <1>1, <1>4, <1>5, <1>7 DEF SplitsRight, Subdomain
<1> QED
  BY <1>6, <1>7
=============================================================================
