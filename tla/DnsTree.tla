------------------------------ MODULE DnsTree ------------------------------
(***************************************************************************)
(* resolve_dns_tree (src/src/dns_tree.rs): the walk over the TXT records   *)
(* of a seed domain that collects the addresses of bootstrap nodes.  The   *)
(* records come from whoever runs the domain: branches may form a cycle,   *)
(* meet again, or name what does not resolve.                              *)
(*                                                                         *)
(* What a lookup answers is chosen when it is made and remembered: a name  *)
(* is asked for once, so nothing is known of it before, and its answer     *)
(* does not change after.  Every record that holds an address is an        *)
(* address of its own, since the result is a Vec and counts repetitions.   *)
(* Records that do not parse are not part of an answer.                    *)
(***************************************************************************)
EXTENDS Integers, Sequences, FiniteSets

CONSTANTS
  Hashes,       \* names of branches
  Lists,        \* what the branch records of one name may list, in order
  Addresses,    \* records that hold an address
  MaxLookups,   \* max_lookups (20)
  MaxAddrs,     \* addresses after which no branch is looked up (50)
  NoHash

ASSUME ConstantsAssumption ==
  /\ Lists \subseteq Seq(Hashes) /\ <<>> \in Lists
  /\ IsFiniteSet(Addresses)
  /\ MaxLookups \in Nat
  /\ MaxAddrs \in Nat
  /\ NoHash \notin Hashes

VARIABLES
  \* What the domain has answered:
  root,       \* the hash of its last kintree-root record, or NoHash
  flat,       \* its own /ip4 and /ip6 records
  branches,   \* [Hashes -> Lists]: the hashes listed under a hash
  leaves,     \* [Hashes -> SUBSET Addresses]: the leaf records under it
  \* The walk:
  phase,      \* "root" until the domain itself is looked up, then "walk",
              \* "done", or "failed" when that lookup fails
  branches_to_visit, visited, lookups, addrs

domain == <<root, flat, branches, leaves>>
vars   == <<domain, phase, branches_to_visit, visited, lookups, addrs>>

Init ==
  /\ root = NoHash
  /\ flat = {}
  /\ branches = [h \in Hashes |-> <<>>]
  /\ leaves = [h \in Hashes |-> {}]
  /\ phase = "root"
  /\ branches_to_visit = <<>>
  /\ visited = {}
  /\ lookups = 0
  /\ addrs = {}

-----------------------------------------------------------------------------
\* The domain's own records: the flat addresses are kept, root or no root.
LookupRoot ==
  /\ phase = "root"
  /\ phase' = "walk"
  /\ root' \in Hashes \cup {NoHash}
  /\ flat' \in SUBSET Addresses
  /\ addrs' = flat'
  /\ branches_to_visit' = IF root' = NoHash THEN <<>> ELSE <<root'>>
  /\ UNCHANGED <<branches, leaves, visited, lookups>>

\* No resolver, or the domain's lookup fails: no addresses.
LookupRootFails ==
  /\ phase = "root"
  /\ phase' = "failed"
  /\ UNCHANGED <<domain, branches_to_visit, visited, lookups, addrs>>

Top  == branches_to_visit[Len(branches_to_visit)]

Rest == SubSeq(branches_to_visit, 1, Len(branches_to_visit) - 1)

\* Mutant: only lookups are limited.
FullOfLookups == lookups >= MaxLookups

Full == lookups >= MaxLookups \/ Cardinality(addrs) >= MaxAddrs

Popping == phase = "walk" /\ branches_to_visit # <<>>

\* The stack is empty.
Exhausted ==
  /\ phase = "walk" /\ branches_to_visit = <<>>
  /\ phase' = "done"
  /\ UNCHANGED <<domain, branches_to_visit, visited, lookups, addrs>>

\* A limit is reached: the hash just popped is not looked up.
GiveUp ==
  /\ Popping /\ Full
  /\ phase' = "done"
  /\ branches_to_visit' = Rest
  /\ UNCHANGED <<domain, visited, lookups, addrs>>

\* Mutant: the hash is looked at and left on the stack.
SkipVisitedPeeking ==
  /\ Popping /\ ~Full
  /\ Top \in visited
  /\ UNCHANGED vars

SkipVisited ==
  /\ Popping /\ ~Full
  /\ Top \in visited
  /\ branches_to_visit' = Rest
  /\ UNCHANGED <<domain, phase, visited, lookups, addrs>>

\* Mutant: nothing keeps a hash from being looked up again.
AskTopAgain ==
  /\ Popping /\ ~Full
  /\ visited' = visited \cup {Top}
  /\ lookups' = lookups + 1

\* A hash not seen before is looked up.
AskTop ==
  /\ Popping /\ ~Full
  /\ Top \notin visited
  /\ visited' = visited \cup {Top}
  /\ lookups' = lookups + 1

\* Mutant: the empty piece after a trailing comma is pushed as a hash.
AnswerPushingEmpty(list, ls) ==
  /\ branches' = [branches EXCEPT ![Top] = list]
  /\ leaves' = [leaves EXCEPT ![Top] = ls]
  /\ branches_to_visit' = Rest \o Append(list, NoHash)
  /\ addrs' = addrs \cup ls

\* Mutant: the leaves of a branch take the place of those before.
AnswerForgetting(list, ls) ==
  /\ branches' = [branches EXCEPT ![Top] = list]
  /\ leaves' = [leaves EXCEPT ![Top] = ls]
  /\ branches_to_visit' = Rest \o list
  /\ addrs' = ls

\* The branches of the answer go on the stack, its leaves to the result.
AnswerWith(list, ls) ==
  /\ branches' = [branches EXCEPT ![Top] = list]
  /\ leaves' = [leaves EXCEPT ![Top] = ls]
  /\ branches_to_visit' = Rest \o list
  /\ addrs' = addrs \cup ls

LookupBranch ==
  /\ AskTop
  /\ \E list \in Lists, ls \in SUBSET (Addresses \ addrs) : AnswerWith(list, ls)
  /\ UNCHANGED <<root, flat, phase>>

\* Mutant: a failed lookup ends the walk.
LookupBranchGivesUp ==
  /\ AskTop
  /\ phase' = "done"
  /\ branches_to_visit' = Rest
  /\ UNCHANGED <<domain, addrs>>

\* A failed lookup counts, and the walk goes on without it.
LookupBranchFails ==
  /\ AskTop
  /\ branches_to_visit' = Rest
  /\ UNCHANGED <<domain, phase, addrs>>

Next ==
  \/ LookupRoot \/ LookupRootFails
  \/ Exhausted \/ GiveUp \/ SkipVisited
  \/ LookupBranch \/ LookupBranchFails

Safety == Init /\ [][Next]_vars

\* The loop runs on, since the resolver's own timeout ends each lookup.
Spec == Safety /\ WF_vars(Next)

-----------------------------------------------------------------------------
(* Properties.                                                             *)

Elements(s) == {s[i] : i \in 1 .. Len(s)}

\* The type of every variable; what is on the stack is a hash.
TypeOK ==
  /\ root \in Hashes \cup {NoHash}
  /\ flat \in SUBSET Addresses
  /\ branches \in [Hashes -> Lists]
  /\ leaves \in [Hashes -> SUBSET Addresses]
  /\ phase \in {"root", "walk", "done", "failed"}
  /\ branches_to_visit \in Seq(Hashes)
  /\ visited \in SUBSET Hashes
  /\ lookups \in Nat
  /\ addrs \in SUBSET Addresses

\* No name is asked for twice, whatever cycles the domain contains, and a
\* domain without end costs MaxLookups lookups (dns_tree.rs:56-63).
LookupsBounded ==
  /\ IsFiniteSet(visited) /\ Cardinality(visited) = lookups
  /\ lookups <= MaxLookups

\* The limit on addresses is looked at between branches only, so it is
\* overshot, but by the leaves of a single branch (dns_tree.rs:57, 80).
OneBranchOver ==
  Cardinality(addrs) >= MaxAddrs =>
    addrs = flat \/ \E h \in visited : Cardinality(addrs \ leaves[h]) < MaxAddrs

\* S holds the root and whatever the names in S are known to list.
Closed(S) ==
  /\ root # NoHash => root \in S
  /\ \A h \in S : Elements(branches[h]) \subseteq S

Reachable == {h \in Hashes : \A S \in SUBSET Hashes : Closed(S) => h \in S}

\* Only names reachable from the root are asked for, and the result is all
\* the addresses met: the domain's own and those of the names that answered.
Sound ==
  /\ visited \subseteq Reachable
  /\ addrs = flat \cup UNION {leaves[h] : h \in visited}

\* A walk that meets no limit has asked for every reachable name: a branch
\* that fails, or one already seen, hides no other (dns_tree.rs:56-87).
Complete == phase = "done" /\ ~Full => Reachable \subseteq visited

\* The walk ends, on any domain.
Terminates == <>(phase \in {"done", "failed"})

\* The comment on resolve_dns_tree: the flat addresses of the domain are a
\* fallback for when no root is found (dns_tree.rs:8-10).
FlatIsFallback == phase = "done" /\ root # NoHash => addrs \cap flat = {}
=============================================================================
