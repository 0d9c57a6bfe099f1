---------------------------- MODULE DnsTreeProofs ----------------------------
(***************************************************************************)
(* Theorems about DnsTree for any names, answers and limits: what the walk *)
(* costs, how far it overshoots, that what it returns is reachable, that   *)
(* without a limit it misses nothing, and that it makes finitely many      *)
(* steps.                                                                  *)
(***************************************************************************)
EXTENDS DnsTree, FiniteSetTheorems, SequenceTheorems, WellFoundedInduction, TLAPS

\* The first elements of a sequence are a sequence.
LEMMA Prefix ==
  ASSUME NEW s \in Seq(Hashes), NEW k \in Nat, k <= Len(s)
  PROVE  /\ SubSeq(s, 1, k) \in Seq(Hashes) /\ Len(SubSeq(s, 1, k)) = k
         /\ \A i \in 1 .. k : SubSeq(s, 1, k)[i] = s[i]
<1>1. 1 \in Int /\ k \in Int /\ \A i \in 1 .. k : s[i] \in Hashes
  OBVIOUS
<1>2. /\ SubSeq(s, 1, k) \in Seq(Hashes)
      /\ Len(SubSeq(s, 1, k)) = IF 1 <= k THEN k - 1 + 1 ELSE 0
      /\ \A i \in 1 .. k - 1 + 1 : SubSeq(s, 1, k)[i] = s[1 + i - 1]
  BY ONLY <1>1, SubSeqProperties
<1> QED
  BY <1>2

\* The stack is its top and the rest.
LEMMA StackElements ==
  ASSUME TypeOK, branches_to_visit # <<>>
  PROVE  /\ Top \in Hashes /\ Rest \in Seq(Hashes)
         /\ Elements(branches_to_visit) = Elements(Rest) \cup {Top}
<1> DEFINE s == branches_to_visit
           n == Len(s)
<1>1. s \in Seq(Hashes) /\ n \in Nat \ {0}
  BY DEF TypeOK
<1>2. Top = s[n] /\ Top \in Hashes
  BY <1>1 DEF Top
<1>3. Rest \in Seq(Hashes) /\ Len(Rest) = n - 1 /\ \A i \in 1 .. n - 1 : Rest[i] = s[i]
  <2>1. n - 1 \in Nat /\ n - 1 <= Len(s)
    BY <1>1
  <2> QED
    BY <1>1, <2>1, Prefix DEF Rest
<1>4. 1 .. n = (1 .. n - 1) \cup {n}
  BY <1>1
<1> QED
  BY <1>2, <1>3, <1>4 DEF Elements

\* Appending lists appends their elements.
LEMMA ConcatElements ==
  ASSUME NEW s \in Seq(Hashes), NEW t \in Seq(Hashes)
  PROVE  s \o t \in Seq(Hashes) /\ Elements(s \o t) = Elements(s) \cup Elements(t)
<1>1. Len(s \o t) = Len(s) + Len(t) /\ Len(s) \in Nat /\ Len(t) \in Nat
  OBVIOUS
<1>2. \A i \in 1 .. Len(s) : (s \o t)[i] = s[i]
  OBVIOUS
<1>3. \A i \in 1 .. Len(t) : (s \o t)[Len(s) + i] = t[i]
  OBVIOUS
<1>4. Elements(s \o t) \subseteq Elements(s) \cup Elements(t)
  <2> SUFFICES ASSUME NEW i \in 1 .. Len(s \o t)
               PROVE  (s \o t)[i] \in Elements(s) \cup Elements(t)
    BY DEF Elements
  <2>1. CASE i \in 1 .. Len(s)
    BY <2>1, <1>2 DEF Elements
  <2>2. CASE i \notin 1 .. Len(s)
    <3>1. i - Len(s) \in 1 .. Len(t) /\ i = Len(s) + (i - Len(s))
      BY <2>2, <1>1
    <3>2. (s \o t)[i] = t[i - Len(s)]
      BY <3>1, <1>3
    <3> QED
      BY <3>1, <3>2 DEF Elements
  <2> QED
    BY <2>1, <2>2
<1>5. Elements(s) \subseteq Elements(s \o t)
  BY <1>1, <1>2 DEF Elements
<1>6. Elements(t) \subseteq Elements(s \o t)
  <2> SUFFICES ASSUME NEW i \in 1 .. Len(t) PROVE t[i] \in Elements(s \o t)
    BY DEF Elements
  <2>1. Len(s) + i \in 1 .. Len(s \o t)
    BY <1>1
  <2> QED
    BY <2>1, <1>3 DEF Elements
<1> QED
  BY <1>4, <1>5, <1>6

\* The stack the root starts, and the empty one.
LEMMA RootElements ==
  /\ Elements(<<>>) = {}
  /\ \A h \in Hashes : <<h>> \in Seq(Hashes) /\ Elements(<<h>>) = {h}
BY DEF Elements

-----------------------------------------------------------------------------
LEMMA InitTypeOK == Init => TypeOK
BY ConstantsAssumption DEF Init, TypeOK

LEMMA NextTypeOK == TypeOK /\ [Next]_vars => TypeOK'
<1> SUFFICES ASSUME TypeOK, [Next]_vars PROVE TypeOK'
  OBVIOUS
<1> USE DEF domain
<1>1. CASE LookupRoot
  <2>1. branches_to_visit' \in Seq(Hashes)
    BY <1>1, RootElements DEF LookupRoot
  <2> QED
    BY <1>1, <2>1 DEF LookupRoot, TypeOK
<1>2. CASE LookupRootFails \/ Exhausted
  BY <1>2 DEF LookupRootFails, Exhausted, TypeOK
<1>3. CASE GiveUp \/ SkipVisited
  BY <1>3, StackElements DEF GiveUp, SkipVisited, Popping, TypeOK
<1>4. CASE LookupBranch
  <2>1. PICK list \in Lists, ls \in SUBSET (Addresses \ addrs) : AnswerWith(list, ls)
    BY <1>4 DEF LookupBranch
  <2>2. Top \in Hashes /\ Rest \in Seq(Hashes) /\ list \in Seq(Hashes)
    BY <1>4, StackElements, ConstantsAssumption DEF LookupBranch, AskTop, Popping
  <2>3. branches_to_visit' \in Seq(Hashes)
    BY <2>1, <2>2, ConcatElements DEF AnswerWith
  <2> QED
    BY <1>4, <2>1, <2>2, <2>3 DEF LookupBranch, AskTop, AnswerWith, TypeOK
<1>5. CASE LookupBranchFails
  BY <1>5, StackElements DEF LookupBranchFails, AskTop, Popping, TypeOK
<1>6. CASE UNCHANGED vars
  BY <1>6 DEF vars, TypeOK
<1> QED
  BY <1>1, <1>2, <1>3, <1>4, <1>5, <1>6 DEF Next

\* The type invariant holds in every reachable state.
THEOREM TypeCorrect == Spec => []TypeOK
BY InitTypeOK, NextTypeOK, PTL DEF Spec, Safety

-----------------------------------------------------------------------------
(* What the walk costs.                                                    *)

LEMMA AskTopBounded ==
  ASSUME TypeOK, LookupsBounded, AskTop
  PROVE  LookupsBounded'
<1>1. lookups < MaxLookups
  BY ConstantsAssumption DEF AskTop, Full, TypeOK
<1>2. IsFiniteSet(visited') /\ Cardinality(visited') = lookups + 1
  BY FS_AddElement DEF AskTop, LookupsBounded
<1> QED
  BY <1>1, <1>2, ConstantsAssumption DEF AskTop, LookupsBounded, TypeOK

\* No name is looked up twice, and at most MaxLookups are.
THEOREM CostBounded == Spec => []LookupsBounded
<1>1. Init => LookupsBounded
  BY FS_EmptySet, ConstantsAssumption DEF Init, LookupsBounded
<1>2. TypeOK /\ LookupsBounded /\ [Next]_vars => LookupsBounded'
  <2> SUFFICES ASSUME TypeOK, LookupsBounded, [Next]_vars PROVE LookupsBounded'
    OBVIOUS
  <2>1. CASE AskTop
    BY <2>1, AskTopBounded
  <2>2. CASE UNCHANGED <<visited, lookups>>
    BY <2>2 DEF LookupsBounded
  <2> QED
    BY <2>1, <2>2 DEF Next, LookupRoot, LookupRootFails, Exhausted, GiveUp, SkipVisited,
                      LookupBranch, LookupBranchFails, vars
<1> QED
  BY <1>1, <1>2, TypeCorrect, PTL DEF Spec, Safety

\* The limit on addresses is overshot by one branch's leaves at most.
THEOREM OvershootBounded == Spec => []OneBranchOver
<1>1. Init => OneBranchOver
  BY DEF Init, OneBranchOver
<1>2. TypeOK /\ OneBranchOver /\ [Next]_vars => OneBranchOver'
  <2> SUFFICES ASSUME TypeOK, OneBranchOver, [Next]_vars PROVE OneBranchOver'
    OBVIOUS
  <2> USE DEF domain
  <2>1. CASE LookupRoot
    BY <2>1 DEF LookupRoot, OneBranchOver
  <2>2. CASE LookupBranch
    <3>1. PICK list \in Lists, ls \in SUBSET (Addresses \ addrs) : AnswerWith(list, ls)
      BY <2>2 DEF LookupBranch
    <3>2. Top \in Hashes /\ Top \in visited'
      BY <2>2, StackElements DEF LookupBranch, AskTop, Popping
    <3>3. leaves'[Top] = ls
      BY <3>1, <3>2 DEF AnswerWith, TypeOK
    <3>4. addrs' \ leaves'[Top] = addrs
      BY <3>1, <3>3 DEF AnswerWith
    <3>5. ~(Cardinality(addrs) >= MaxAddrs)
      BY <2>2 DEF LookupBranch, AskTop, Full
    <3>6. Cardinality(addrs) \in Nat
      BY FS_Subset, FS_CardinalityType, ConstantsAssumption DEF TypeOK
    <3>7. Cardinality(addrs) < MaxAddrs
      BY <3>5, <3>6, ConstantsAssumption
    <3>8. Cardinality(addrs' \ leaves'[Top]) < MaxAddrs
      BY <3>4, <3>7
    <3> QED
      BY <3>2, <3>8 DEF OneBranchOver
  <2>3. CASE LookupBranchFails
    BY <2>3 DEF LookupBranchFails, AskTop, OneBranchOver
  <2>4. CASE UNCHANGED <<flat, leaves, visited, addrs>>
    BY <2>4 DEF OneBranchOver
  <2> QED
    BY <2>1, <2>2, <2>3, <2>4 DEF Next, LookupRootFails, Exhausted, GiveUp, SkipVisited, vars
<1> QED
  BY <1>1, <1>2, TypeCorrect, PTL DEF Spec, Safety

-----------------------------------------------------------------------------
(* What the walk finds.                                                    *)

\* Nothing is known of a name before it is asked for.
Unasked ==
  /\ \A h \in Hashes \ visited : branches[h] = <<>> /\ leaves[h] = {}
  /\ phase = "root" => visited = {}

\* The walk stays inside every set that holds the root and what it lists.
Inside == \A S \in SUBSET Hashes : Closed(S) => visited \cup Elements(branches_to_visit) \subseteq S

\* The result is made of all the addresses met.
Collected == addrs = flat \cup UNION {leaves[h] : h \in visited}

\* Whatever is reachable and not yet seen hangs below the stack; without a
\* limit, nothing is left when the walk returns.
Frontier ==
  /\ phase = "walk" => Closed(visited \cup Elements(branches_to_visit))
  /\ phase = "done" /\ ~Full => Closed(visited)

Walk == TypeOK /\ Unasked /\ Inside /\ Collected /\ Frontier

LEMMA InitWalk == Init => Walk
<1> SUFFICES ASSUME Init PROVE Walk
  OBVIOUS
<1>1. TypeOK
  BY InitTypeOK
<1>2. Unasked /\ Inside /\ Collected /\ Frontier
  BY RootElements DEF Init, Unasked, Inside, Collected, Frontier
<1> QED
  BY <1>1, <1>2 DEF Walk

\* An answer is added below the name that was asked for.
LEMMA AnswerWalk ==
  ASSUME Walk, LookupBranch
  PROVE  Unasked' /\ Inside' /\ Collected' /\ Frontier'
<1> USE DEF Walk
<1>1. PICK list \in Lists, ls \in SUBSET (Addresses \ addrs) : AnswerWith(list, ls)
  BY DEF LookupBranch
<1>2. /\ Top \in Hashes /\ Rest \in Seq(Hashes) /\ list \in Seq(Hashes)
      /\ Elements(branches_to_visit) = Elements(Rest) \cup {Top}
  BY StackElements, ConstantsAssumption DEF LookupBranch, AskTop, Popping
<1>3. /\ Top \notin visited /\ visited' = visited \cup {Top}
      /\ phase = "walk" /\ phase' = "walk" /\ root' = root /\ flat' = flat
  BY DEF LookupBranch, AskTop, Popping
<1>4. Elements(branches_to_visit') = Elements(Rest) \cup Elements(list)
  BY <1>1, <1>2, ConcatElements DEF AnswerWith
<1>5. /\ branches'[Top] = list /\ leaves'[Top] = ls
      /\ \A h \in Hashes \ {Top} : branches'[h] = branches[h] /\ leaves'[h] = leaves[h]
  BY <1>1, <1>2 DEF AnswerWith, TypeOK
<1>6. branches[Top] = <<>>
  BY <1>2, <1>3 DEF Unasked
<1>7. Unasked'
  BY <1>3, <1>5 DEF Unasked
<1>8. Inside'
  <2> SUFFICES ASSUME NEW S \in SUBSET Hashes, Closed(S)'
               PROVE  visited' \cup Elements(branches_to_visit') \subseteq S
    BY DEF Inside
  <2>1. Closed(S)
    BY <1>2, <1>3, <1>5, <1>6, RootElements DEF Closed
  <2>2. visited \cup Elements(branches_to_visit) \subseteq S
    BY <2>1 DEF Inside
  <2>3. Elements(list) \subseteq S
    BY <2>2, <1>2, <1>5 DEF Closed
  <2> QED
    BY <2>2, <2>3, <1>2, <1>3, <1>4
<1>9. Collected'
  <2>1. \A h \in visited : leaves'[h] = leaves[h]
    BY <1>3, <1>5 DEF TypeOK
  <2>2. UNION {leaves'[h] : h \in visited'} = ls \cup UNION {leaves[h] : h \in visited}
    BY <1>3, <1>5, <2>1
  <2> QED
    BY <1>1, <1>3, <2>2 DEF AnswerWith, Collected
<1>10. Frontier'
  <2> DEFINE seen == visited \cup Elements(branches_to_visit)
  <2>1. Closed(seen)
    BY <1>3 DEF Frontier
  <2>2. seen' = seen \cup Elements(list) /\ Top \in seen
    BY <1>2, <1>3, <1>4
  <2>3. seen \subseteq Hashes /\ visited \subseteq seen /\ Elements(list) \subseteq Hashes
    BY <1>2 DEF Elements, TypeOK
  <2> HIDE DEF seen
  <2>4. ASSUME NEW h \in seen' PROVE Elements(branches'[h]) \subseteq seen'
    <3>1. CASE h = Top
      BY <3>1, <2>2, <1>5
    <3>2. CASE h # Top /\ h \in seen
      BY <3>2, <2>1, <2>2, <2>3, <1>5 DEF Closed
    <3>3. CASE h \notin seen
      <4>1. h \in Hashes \ visited /\ h # Top
        BY <3>3, <2>2, <2>3
      <4>2. branches'[h] = <<>>
        BY <4>1, <1>5 DEF Unasked
      <4> QED
        BY <4>2, RootElements
    <3> QED
      BY <3>1, <3>2, <3>3
  <2>5. root' # NoHash => root' \in seen'
    BY <2>1, <2>2, <1>3 DEF Closed
  <2>6. Closed(seen)'
    BY <2>4, <2>5 DEF Closed
  <2> QED
    BY <2>6, <1>3 DEF Frontier, seen
<1> QED
  BY <1>7, <1>8, <1>9, <1>10

LEMMA NextWalk == Walk /\ [Next]_vars => Walk'
<1> SUFFICES ASSUME Walk, [Next]_vars PROVE Walk'
  OBVIOUS
<1> USE DEF domain
<1>1. TypeOK /\ TypeOK'
  BY NextTypeOK DEF Walk
<1>2. CASE LookupRoot
  <2>1. visited = {} /\ visited' = {}
    BY <1>2 DEF Walk, Unasked, LookupRoot
  <2>2. Elements(branches_to_visit') = IF root' = NoHash THEN {} ELSE {root'}
    BY <1>2, RootElements DEF LookupRoot
  <2>3. \A h \in Hashes : branches'[h] = <<>> /\ leaves'[h] = {}
    BY <1>2, <2>1 DEF Walk, Unasked, LookupRoot
  <2>4. Unasked' /\ Collected'
    BY <1>2, <2>1, <2>3 DEF LookupRoot, Unasked, Collected
  <2>5. Inside'
    BY <2>1, <2>2 DEF Inside, Closed
  <2>6. Frontier'
    BY <1>2, <2>1, <2>2, <2>3, RootElements DEF LookupRoot, Frontier, Closed
  <2> QED
    BY <1>1, <2>4, <2>5, <2>6 DEF Walk
<1>3. CASE LookupRootFails
  <2>1. UNCHANGED <<domain, branches_to_visit, visited, addrs>> /\ phase' = "failed"
    BY <1>3 DEF LookupRootFails
  <2>2. Unasked' /\ Collected' /\ Frontier'
    BY <2>1 DEF Walk, Unasked, Collected, Frontier
  <2>3. Inside'
    BY <2>1 DEF Walk, Inside, Closed
  <2> QED
    BY <1>1, <2>2, <2>3 DEF Walk
<1>4. CASE Exhausted
  <2>1. /\ UNCHANGED <<domain, branches_to_visit, visited, addrs>>
        /\ phase = "walk" /\ phase' = "done" /\ branches_to_visit = <<>>
    BY <1>4 DEF Exhausted
  <2>2. Unasked' /\ Collected'
    BY <2>1 DEF Walk, Unasked, Collected
  <2>3. Inside'
    BY <2>1 DEF Walk, Inside, Closed
  <2>4. visited \cup Elements(branches_to_visit) = visited
    BY <2>1, RootElements
  <2>5. Frontier'
    BY <2>1, <2>4 DEF Walk, Frontier, Closed
  <2> QED
    BY <1>1, <2>2, <2>3, <2>5 DEF Walk
<1>5. CASE GiveUp \/ SkipVisited \/ LookupBranchFails
  <2>1. /\ Top \in Hashes /\ Elements(branches_to_visit) = Elements(Rest) \cup {Top}
        /\ branches_to_visit' = Rest /\ phase = "walk"
    BY <1>1, <1>5, StackElements DEF GiveUp, SkipVisited, LookupBranchFails, AskTop, Popping
  <2>2. visited \subseteq visited' /\ visited' \subseteq visited \cup {Top}
    BY <1>5 DEF GiveUp, SkipVisited, LookupBranchFails, AskTop
  <2>3. UNCHANGED <<domain, addrs>>
    BY <1>5 DEF GiveUp, SkipVisited, LookupBranchFails
  <2>4. Unasked'
    BY <2>1, <2>2, <2>3, <1>5 DEF Walk, Unasked, GiveUp, SkipVisited, LookupBranchFails
  <2>5. Inside'
    BY <2>1, <2>2, <2>3 DEF Walk, Inside, Closed
  <2>6. Collected'
    BY <2>1, <2>2, <2>3, <1>5
       DEF Walk, Collected, Unasked, GiveUp, SkipVisited, LookupBranchFails, AskTop
  <2>7. Frontier'
    <3>1. CASE GiveUp
      BY <3>1 DEF GiveUp, Frontier, Full
    <3>2. CASE SkipVisited \/ LookupBranchFails
      <4>1. Closed(visited \cup Elements(branches_to_visit))
        BY <2>1 DEF Walk, Frontier
      <4>2. /\ visited' \cup Elements(branches_to_visit')
                 = visited \cup Elements(branches_to_visit)
            /\ phase' = "walk"
        BY <3>2, <2>1 DEF SkipVisited, LookupBranchFails, AskTop
      <4> QED
        BY <4>1, <4>2, <2>3 DEF Frontier, Closed
    <3> QED
      BY <1>5, <3>1, <3>2
  <2> QED
    BY <1>1, <2>4, <2>5, <2>6, <2>7 DEF Walk
<1>6. CASE LookupBranch
  BY <1>1, <1>6, AnswerWalk DEF Walk
<1>7. CASE UNCHANGED vars
  <2>1. UNCHANGED <<domain, branches_to_visit, visited, lookups, addrs, phase>>
    BY <1>7 DEF vars
  <2>2. Unasked' /\ Collected' /\ Frontier'
    BY <2>1 DEF Walk, Unasked, Collected, Frontier, Closed, Full
  <2>3. Inside'
    BY <2>1 DEF Walk, Inside, Closed
  <2> QED
    BY <1>1, <2>2, <2>3 DEF Walk
<1> QED
  BY <1>2, <1>3, <1>4, <1>5, <1>6, <1>7 DEF Next

LEMMA WalkInvariant == Spec => []Walk
BY InitWalk, NextWalk, PTL DEF Spec, Safety

\* Only reachable names are asked for, and every address met is returned.
THEOREM WalkSound == Spec => []Sound
<1>1. Walk => Sound
  BY DEF Walk, TypeOK, Inside, Collected, Sound, Reachable
<1> QED
  BY <1>1, WalkInvariant, PTL

\* A walk that meets no limit misses no reachable name, though lookups fail
\* and branches meet again.
THEOREM WalkComplete == Spec => []Complete
<1>1. Walk => Complete
  BY DEF Walk, TypeOK, Frontier, Complete, Reachable
<1> QED
  BY <1>1, WalkInvariant, PTL

-----------------------------------------------------------------------------
(* Why the walk ends.                                                      *)

\* What is left of the walk: first the lookups, then the stack.  A lookup may
\* push as many hashes as its answer lists, but takes one lookup away for good.
Rank == << IF phase = "root" THEN MaxLookups + 1 ELSE MaxLookups - lookups,
           IF phase = "walk" THEN Len(branches_to_visit) + 1 ELSE 0 >>

Below == LexPairOrdering(OpToRel(<, Nat), OpToRel(<, Nat), Nat, Nat)

\* There is no infinite descent of ranks.
LEMMA BelowWellFounded == IsWellFoundedOn(Below, Nat \X Nat)
BY NatLessThanWellFounded, WFLexPairOrdering DEF Below

LEMMA BelowPairs ==
  ASSUME NEW a \in Nat, NEW b \in Nat, NEW c \in Nat, NEW d \in Nat,
         a < c \/ (a = c /\ b < d)
  PROVE  <<<<a, b>>, <<c, d>>>> \in Below
BY DEF Below, LexPairOrdering, OpToRel

LEMMA Remaining ==
  ASSUME NEW m \in Nat, NEW n \in Nat, n <= m
  PROVE  m - n \in Nat
OBVIOUS

\* Whatever the domain answers, each step of the walk takes its rank down in a
\* well-founded order: no cycle of branches, and no list however long, keeps it
\* going for ever (dns_tree.rs:56-86).
Descends == [][(<<Rank', Rank>> \in Below)]_vars

\* The walk makes finitely many steps from any state.
THEOREM WalkDescends == IsWellFoundedOn(Below, Nat \X Nat) /\ (Spec => Descends)
<1>1. ASSUME TypeOK, LookupsBounded, TypeOK', LookupsBounded', Next
      PROVE  <<Rank', Rank>> \in Below
  <2> USE DEF domain
  <2> DEFINE s == branches_to_visit
  <2>1. /\ lookups \in Nat /\ lookups' \in Nat /\ lookups <= MaxLookups
        /\ lookups' <= MaxLookups /\ MaxLookups \in Nat
    BY <1>1, ConstantsAssumption DEF TypeOK, LookupsBounded
  <2>2. s \in Seq(Hashes) /\ Len(s) \in Nat /\ Len(s') \in Nat
    BY <1>1 DEF TypeOK
  <2>3. MaxLookups - lookups \in Nat /\ MaxLookups - lookups' \in Nat
    BY <2>1, Remaining
  <2>4. s # <<>> => Len(Rest) = Len(s) - 1
    <3> SUFFICES ASSUME s # <<>> PROVE Len(Rest) = Len(s) - 1
      OBVIOUS
    <3>1. Len(s) - 1 \in Nat /\ Len(s) - 1 <= Len(s)
      BY <2>2
    <3> QED
      BY <2>2, <3>1, Prefix DEF Rest
  <2> HIDE DEF s
  <2>5. CASE LookupRoot \/ LookupRootFails
    <3>1. phase = "root" /\ phase' # "root" /\ lookups' = lookups
      BY <2>5 DEF LookupRoot, LookupRootFails
    <3> DEFINE l == IF phase' = "walk" THEN Len(s') + 1 ELSE 0
    <3>2. l \in Nat
      BY <2>2
    <3>3. Rank' = <<MaxLookups - lookups', l>> /\ Rank = <<MaxLookups + 1, 0>>
      BY <3>1 DEF Rank, s
    <3> QED
      BY <2>1, <2>3, <3>2, <3>3, BelowPairs
  <2>6. CASE Exhausted \/ GiveUp
    <3>1. Rank' = <<MaxLookups - lookups, 0>> /\ Rank = <<MaxLookups - lookups, Len(s) + 1>>
      BY <2>6 DEF Exhausted, GiveUp, Popping, Rank, s
    <3> QED
      BY <2>2, <2>3, <3>1, BelowPairs
  <2>7. CASE SkipVisited
    <3>1. /\ Rank' = <<MaxLookups - lookups, Len(s') + 1>>
          /\ Rank = <<MaxLookups - lookups, Len(s) + 1>>
      BY <2>7 DEF SkipVisited, Popping, Rank, s
    <3>2. Len(s') = Len(s) - 1
      BY <2>4, <2>7 DEF SkipVisited, Popping, s
    <3> QED
      BY <2>2, <2>3, <3>1, <3>2, BelowPairs
  <2>8. CASE LookupBranch \/ LookupBranchFails
    <3>1. /\ Rank' = <<MaxLookups - lookups', Len(s') + 1>>
          /\ Rank = <<MaxLookups - lookups, Len(s) + 1>> /\ lookups' = lookups + 1
      BY <2>8 DEF LookupBranch, LookupBranchFails, AskTop, Popping, Rank, s
    <3> QED
      BY <2>1, <2>2, <2>3, <3>1, BelowPairs
  <2> QED
    BY <1>1, <2>5, <2>6, <2>7, <2>8 DEF Next
<1>2. TypeOK /\ LookupsBounded /\ TypeOK' /\ LookupsBounded' /\ [Next]_vars
        => [(<<Rank', Rank>> \in Below)]_vars
  BY <1>1
<1>3. Spec => Descends
  BY <1>2, TypeCorrect, CostBounded, PTL DEF Spec, Safety, Descends
<1> QED
  BY <1>3, BelowWellFounded
=============================================================================
