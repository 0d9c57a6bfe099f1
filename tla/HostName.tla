------------------------------ MODULE HostName ------------------------------
(***************************************************************************)
(* How the HTTP proxy (src/src/proxy.rs) takes a host name apart: the TLD  *)
(* is what follows the last dot, and extract_base_domain_and_subdomain     *)
(* cuts the rest into the registered name and the subdomain.               *)
(*                                                                         *)
(* A host name is the sequence of its labels, the pieces between its dots; *)
(* a name that begins with a dot begins with the label Empty.  A TLD of    *)
(* the code, ".kin", is the label after its dot, and since it begins with  *)
(* the dot it can be cut off at the boundary of a label only.              *)
(***************************************************************************)
EXTENDS Integers, Sequences

CONSTANTS
  Labels,
  Empty,   \* the empty label
  At       \* "@", the key of a zone's own records

ASSUME HostNameAssumption == Empty \in Labels /\ At \in Labels

Hosts == Seq(Labels) \ {<<>>}

\* rfind('.') finds a dot.
HasTld(host) == Len(host) > 1
TldOf(host)  == host[Len(host)]

\* trim_end_matches cuts the TLD off as often as it is there; the first label
\* has no dot before it and stays.
Keeps(host, n) ==
  /\ \A i \in n + 1 .. Len(host) : host[i] = TldOf(host)
  /\ n = 1 \/ host[n] # TldOf(host)

Parts(host) == SubSeq(host, 1, CHOOSE n \in 1 .. Len(host) : Keeps(host, n))

\* extract_base_domain_and_subdomain returns Some.
Extracts(host) == Parts(host)[1] # Empty

\* Mutant: the first piece is taken for the registered name.
BaseDomainOfFirst(host) == <<Parts(host)[1], TldOf(host)>>

BaseDomain(host) == <<Parts(host)[Len(Parts(host))], TldOf(host)>>

Subdomain(host) ==
  IF Len(Parts(host)) > 1 THEN SubSeq(Parts(host), 1, Len(Parts(host)) - 1) ELSE <<At>>

-----------------------------------------------------------------------------
\* What the tests expect of a host name.
Name(host)     == host[Len(host) - 1]
Before(host)   == SubSeq(host, 1, Len(host) - 2)

SplitsRight(host, base, sub) ==
  /\ base = <<Name(host), TldOf(host)>>
  /\ sub = IF Len(host) > 2 THEN Before(host) ELSE <<At>>
=============================================================================
