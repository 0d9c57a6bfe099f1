------------------------ MODULE UptimeMonitorProofs ------------------------
(***************************************************************************)
(* Theorems about UptimeMonitor, for any TLDs, jobs, limit and number of   *)
(* merges: type correctness, that no badge says Offline before the limit   *)
(* is reached, and what lifts one that does.                               *)
(***************************************************************************)
EXTENDS UptimeMonitor, TLAPS

USE DEF jobs, Networks, Rows

\* What the script writes into a row and a count.
LEMMA RewrittenTree ==
  ASSUME NEW tree \in Trees, NEW down \in SUBSET Tlds
  PROVE  /\ Rewritten(tree, down) \in Trees
         /\ Rewritten(tree, down).networks = tree.networks
         /\ \A t \in Tlds : Rewritten(tree, down).counts[t] =
              IF t \in Monitored(tree) THEN Count(tree.counts[t], t \notin down)
              ELSE tree.counts[t]
         /\ \A t \in Tlds : Rewritten(tree, down).rows[t] =
              IF t \in Monitored(tree) /\ tree.rows[t] # "none"
              THEN Badge(Rewritten(tree, down).counts[t]) ELSE tree.rows[t]
<1> DEFINE counts == [t \in Tlds |-> IF t \in Monitored(tree)
                                     THEN Count(tree.counts[t], t \notin down)
                                     ELSE tree.counts[t]]
           rows == [t \in Tlds |-> IF t \in Monitored(tree) /\ tree.rows[t] # "none"
                                   THEN Badge(counts[t]) ELSE tree.rows[t]]
<1>1. counts \in [Tlds -> 0 .. FailureLimit]
  BY MonitorAssumption DEF Trees, Count
<1>2. rows \in [Tlds -> Rows]
  BY DEF Trees, Badge
<1>3. Rewritten(tree, down) = [tree EXCEPT !.counts = counts, !.rows = rows]
  BY DEF Rewritten, Trees
<1> HIDE DEF counts, rows
<1>4. /\ Rewritten(tree, down).counts = counts /\ Rewritten(tree, down).rows = rows
      /\ Rewritten(tree, down) \in Trees /\ Rewritten(tree, down).networks = tree.networks
  BY <1>1, <1>2, <1>3 DEF Trees
<1> QED
  BY <1>4 DEF counts, rows

LEMMA InitTypeOK == Init => TypeOK
BY MonitorAssumption DEF Init, TypeOK, Trees, Committed

LEMMA CommittedTree == Committed \in Trees
BY MonitorAssumption DEF Committed, Trees

\* Every step preserves the type invariant.
LEMMA NextTypeOK == TypeOK /\ [Next]_vars => TypeOK'
<1> SUFFICES ASSUME TypeOK, [Next]_vars PROVE TypeOK'
  OBVIOUS
<1>1. ASSUME NEW t \in Tlds, Flip(t) PROVE TypeOK'
  BY <1>1 DEF Flip, TypeOK
<1>2. ASSUME NEW tree \in Trees, Merge(tree) PROVE TypeOK'
  BY <1>2, MonitorAssumption DEF Merge, TypeOK
<1>3. ASSUME NEW t \in Tlds, EditNetwork(t) PROVE TypeOK'
  <2>1. PICK n \in Networks, row \in {main.rows[t], "none", "Active"} :
          Merge([main EXCEPT !.networks[t] = n, !.rows[t] = row])
    BY <1>3 DEF EditNetwork
  <2>2. [main EXCEPT !.networks[t] = n, !.rows[t] = row] \in Trees
    BY DEF TypeOK, Trees
  <2> QED
    BY <1>2, <2>1, <2>2
<1>4. CASE EditHeader
  <2>1. [main EXCEPT !.bare = ~@] \in Trees
    BY DEF TypeOK, Trees
  <2> QED
    BY <1>2, <1>4, <2>1 DEF EditHeader
<1>5. ASSUME NEW j \in Jobs, Checkout(j) PROVE TypeOK'
  BY <1>5 DEF Checkout, TypeOK
<1>6. ASSUME NEW j \in Jobs, RunScript(j) PROVE TypeOK'
  <2>1. dead'[j] \in SUBSET Tlds /\ dead' \in [Jobs -> SUBSET Tlds]
    BY <1>6 DEF RunScript, TypeOK, Monitored
  <2>2. Rewritten(copy[j], dead'[j]) \in Trees
    BY <2>1, RewrittenTree DEF TypeOK
  <2> QED
    BY <1>6, <2>1, <2>2 DEF RunScript, TypeOK
<1>7. ASSUME NEW j \in Jobs, ScriptFails(j) \/ PushRejected(j) PROVE TypeOK'
  BY <1>7, CommittedTree DEF ScriptFails, PushRejected, End, TypeOK
<1>8. ASSUME NEW j \in Jobs, Push(j) PROVE TypeOK'
  <2>1. streak' \in [Tlds -> 0 .. FailureLimit]
    BY <1>8, MonitorAssumption DEF Push, Publish, Longer, TypeOK
  <2>2. main' \in Trees
    BY <1>8 DEF Push, Publish, TypeOK
  <2> QED
    BY <1>8, <2>1, <2>2, CommittedTree DEF Push, Publish, End, TypeOK
<1>9. CASE UNCHANGED vars
  BY <1>9 DEF vars, TypeOK
<1> QED
  BY <1>1, <1>3, <1>4, <1>5, <1>6, <1>7, <1>8, <1>9 DEF Next

\* The type invariant holds in every reachable state.
THEOREM TypeCorrect == Spec => []TypeOK
BY InitTypeOK, NextTypeOK, PTL DEF Spec

-----------------------------------------------------------------------------
\* The inductive invariant.  Main's counts are the published failures in a row;
\* a tree shows Offline only at the limit; and the tree a job wrote out of the
\* main branch as it still is counts each of its pings once, and shows Offline
\* whatever main does, unless the ping was answered.
Earned(tree) == \A t \in Tlds : tree.rows[t] = "Offline" => tree.counts[t] = FailureLimit

InOrder(j) ==
  /\ stage[j] = "checkedOut" => copy[j] = main
  /\ stage[j] = "written" =>
       /\ copy[j].networks = main.networks
       /\ \A t \in Tlds : copy[j].counts[t] =
            IF t \in Monitored(copy[j]) THEN Count(main.counts[t], t \notin dead[j])
            ELSE main.counts[t]
       /\ \A t \in Tlds : main.rows[t] = "Offline" =>
            copy[j].rows[t] = "Offline" \/ t \in Monitored(copy[j]) \ dead[j]

MonitorInv ==
  /\ main.counts = streak
  /\ Earned(main)
  /\ \A j \in Jobs : Earned(copy[j])
  /\ \A j \in fresh : InOrder(j)

\* What the script writes is earned if what it read was.
LEMMA RewrittenEarned ==
  ASSUME NEW tree \in Trees, NEW down \in SUBSET Tlds, Earned(tree)
  PROVE  Earned(Rewritten(tree, down))
<1> SUFFICES ASSUME NEW t \in Tlds, Rewritten(tree, down).rows[t] = "Offline"
             PROVE  Rewritten(tree, down).counts[t] = FailureLimit
  BY DEF Earned
<1>1. Rewritten(tree, down).counts[t] \in 0 .. FailureLimit
  BY RewrittenTree DEF Trees
<1>2. CASE t \in Monitored(tree) /\ tree.rows[t] # "none"
  BY <1>1, <1>2, RewrittenTree, MonitorAssumption DEF Badge
<1>3. CASE t \in Monitored(tree) /\ tree.rows[t] = "none"
  BY <1>3, RewrittenTree
<1>4. CASE t \notin Monitored(tree)
  BY <1>4, RewrittenTree DEF Earned
<1> QED
  BY <1>2, <1>3, <1>4

LEMMA InitMonitorInv == Init => MonitorInv
BY DEF Init, Committed, MonitorInv, Earned

\* No step publishes a count that is not the pings' and no badge without one.
LEMMA NextMonitorInv == TypeOK /\ MonitorInv /\ [Next]_vars => MonitorInv'
<1> SUFFICES ASSUME TypeOK, MonitorInv, [Next]_vars PROVE MonitorInv'
  OBVIOUS
<1>1. ASSUME NEW t \in Tlds, Flip(t) PROVE MonitorInv'
  BY <1>1 DEF Flip, MonitorInv, Earned, InOrder, Monitored
<1>2. ASSUME NEW tree, Merge(tree), Earned(tree), tree.counts = main.counts PROVE MonitorInv'
  BY <1>2 DEF Merge, MonitorInv, Earned
<1>3. ASSUME NEW t \in Tlds, EditNetwork(t) PROVE MonitorInv'
  <2>1. PICK n \in Networks, row \in {main.rows[t], "none", "Active"} :
          Merge([main EXCEPT !.networks[t] = n, !.rows[t] = row])
    BY <1>3 DEF EditNetwork
  <2> DEFINE tree == [main EXCEPT !.networks[t] = n, !.rows[t] = row]
  <2>2. tree.counts = main.counts /\ tree.rows = [main.rows EXCEPT ![t] = row]
    BY DEF TypeOK, Trees
  <2>3. Earned(tree)
    BY <2>2 DEF MonitorInv, Earned, TypeOK, Trees
  <2> QED
    BY <1>2, <2>1, <2>2, <2>3
<1>4. CASE EditHeader
  <2>1. [main EXCEPT !.bare = ~@].counts = main.counts /\ [main EXCEPT !.bare = ~@].rows = main.rows
    BY DEF TypeOK, Trees
  <2>2. Earned([main EXCEPT !.bare = ~@])
    BY <2>1 DEF MonitorInv, Earned
  <2> QED
    BY <1>2, <1>4, <2>1, <2>2 DEF EditHeader
<1>5. ASSUME NEW j \in Jobs, Checkout(j) PROVE MonitorInv'
  BY <1>5 DEF Checkout, MonitorInv, Earned, InOrder, Monitored, TypeOK
<1>6. ASSUME NEW j \in Jobs, RunScript(j) PROVE MonitorInv'
  <2>1. dead'[j] \in SUBSET Tlds
    BY <1>6 DEF RunScript, TypeOK, Monitored
  <2>2. copy[j] \in Trees /\ Earned(copy[j])
    BY DEF TypeOK, MonitorInv
  <2>3. Earned(Rewritten(copy[j], dead'[j]))
    BY <2>1, <2>2, RewrittenEarned
  <2>4. copy'[j] = Rewritten(copy[j], dead'[j]) /\ stage'[j] = "written"
    BY <1>6 DEF RunScript, TypeOK
  <2>5. ASSUME NEW k \in Jobs, k # j PROVE copy'[k] = copy[k] /\ stage'[k] = stage[k] /\ dead'[k] = dead[k]
    BY <1>6, <2>5 DEF RunScript, TypeOK
  <2>6. \A k \in Jobs : Earned(copy[k])'
    BY <2>3, <2>4, <2>5 DEF MonitorInv, Earned
  <2>7. ASSUME j \in fresh PROVE InOrder(j)'
    <3>1. copy[j] = main
      BY <1>6, <2>7 DEF RunScript, MonitorInv, InOrder
    <3>2. copy'[j].networks = main.networks /\ Monitored(copy'[j]) = Monitored(main)
      BY <2>1, <2>2, <2>4, <3>1, RewrittenTree DEF Monitored
    <3>3. \A t \in Tlds : copy'[j].counts[t] =
            IF t \in Monitored(main) THEN Count(main.counts[t], t \notin dead'[j])
            ELSE main.counts[t]
      BY <2>1, <2>2, <2>4, <3>1, RewrittenTree
    <3>4. ASSUME NEW t \in Tlds, main.rows[t] = "Offline"
          PROVE  copy'[j].rows[t] = "Offline" \/ t \in Monitored(copy'[j]) \ dead'[j]
      <4>1. main.counts[t] = FailureLimit /\ main \in Trees
        BY <3>4 DEF MonitorInv, Earned, TypeOK
      <4>2. CASE t \in Monitored(main) /\ t \in dead'[j]
        <5>1. copy'[j].counts[t] = FailureLimit
          BY <3>3, <4>1, <4>2, MonitorAssumption DEF Count
        <5>2. copy'[j].rows[t] = Badge(copy'[j].counts[t])
          BY <2>1, <2>2, <2>4, <3>1, <3>4, <4>2, RewrittenTree
        <5> QED
          BY <5>1, <5>2, MonitorAssumption DEF Badge
      <4>3. CASE t \notin Monitored(main)
        BY <2>1, <2>2, <2>4, <3>1, <3>4, <4>3, RewrittenTree
      <4> QED
        BY <3>2, <4>2, <4>3
    <3>5. UNCHANGED <<main, fresh>>
      BY <1>6 DEF RunScript
    <3> QED
      BY <2>4, <3>2, <3>3, <3>4, <3>5 DEF InOrder, Monitored
  <2>8. ASSUME NEW k \in fresh, k # j PROVE InOrder(k)'
    BY <1>6, <2>5, <2>8 DEF RunScript, MonitorInv, InOrder, Monitored, TypeOK
  <2> QED
    BY <1>6, <2>6, <2>7, <2>8 DEF RunScript, MonitorInv, Earned
<1>7. ASSUME NEW j \in Jobs, ScriptFails(j) \/ PushRejected(j) PROVE MonitorInv'
  <2>1. Earned(Committed)
    BY DEF Earned, Committed
  <2>2. \A k \in Jobs : Earned(copy'[k])
    BY <1>7, <2>1 DEF ScriptFails, PushRejected, End, MonitorInv, TypeOK
  <2>3. fresh' \subseteq fresh /\ j \notin fresh' /\ main' = main /\ streak' = streak
    BY <1>7 DEF ScriptFails, PushRejected
  <2>4. \A k \in fresh' : InOrder(k)'
    BY <1>7, <2>3 DEF ScriptFails, PushRejected, End, MonitorInv, InOrder, Monitored, TypeOK
  <2> QED
    BY <2>2, <2>3, <2>4 DEF MonitorInv, Earned
<1>8. ASSUME NEW j \in Jobs, Push(j) PROVE MonitorInv'
  <2>1. /\ stage[j] = "written" /\ j \in fresh /\ main' = copy[j]
        /\ End(j) /\ copy[j] \in Trees
    BY <1>8 DEF Push, Publish, TypeOK
  <2>2. InOrder(j)
    BY <2>1 DEF MonitorInv
  <2>3. \A t \in Tlds : copy[j].counts[t] = streak'[t]
    BY <1>8, <2>1, <2>2 DEF Push, Publish, InOrder, MonitorInv, Count, Longer, TypeOK
  <2>4. copy[j].counts = streak'
    BY <1>8, <2>1, <2>3 DEF Push, Publish, Trees
  <2>5. Earned(Committed) /\ Earned(copy[j])
    BY DEF Earned, Committed, MonitorInv
  <2>6. \A k \in Jobs : Earned(copy'[k])
    BY <2>1, <2>5 DEF End, MonitorInv, TypeOK
  <2>7. \A k \in fresh' : InOrder(k)'
    BY <1>8, <2>1 DEF Push, Publish, End, MonitorInv, InOrder, Monitored, TypeOK
  <2> QED
    BY <2>1, <2>4, <2>5, <2>6, <2>7 DEF MonitorInv, Earned
<1>9. CASE UNCHANGED vars
  BY <1>9 DEF vars, MonitorInv, Earned, InOrder, Monitored
<1> QED
  BY <1>1, <1>3, <1>4, <1>5, <1>6, <1>7, <1>8, <1>9 DEF Next

\* However jobs overlap and merges come between, a badge says Offline only
\* after the limit of published failures in a row.
THEOREM OfflineIsEarned == Spec => []OfflineEarned
<1>1. MonitorInv => OfflineEarned
  BY DEF MonitorInv, Earned, OfflineEarned
<1> QED
  BY <1>1, TypeCorrect, InitMonitorInv, NextMonitorInv, PTL DEF Spec

\* What lifts a badge that says Offline is a merge, or the push of a job whose
\* ping was answered: a job that was overtaken cannot, and one that was not
\* counts on from the limit.
THEOREM OfflineIsLifted == Spec => OfflineLifted
<1>1. TypeOK /\ MonitorInv /\ [Next]_vars =>
        [\A t \in Tlds : main.rows[t] = "Offline" /\ main'.rows[t] # "Offline" =>
           \/ edits' # edits
           \/ \E j \in Jobs : /\ stage[j] = "written" /\ stage'[j] = "idle"
                             /\ t \in Monitored(copy[j]) \ dead[j]]_vars
  <2> SUFFICES ASSUME TypeOK, MonitorInv, Next, edits' = edits,
                      NEW t \in Tlds, main.rows[t] = "Offline", main'.rows[t] # "Offline"
               PROVE  \E j \in Jobs : /\ stage[j] = "written" /\ stage'[j] = "idle"
                                     /\ t \in Monitored(copy[j]) \ dead[j]
    OBVIOUS
  <2>1. \A tree : ~Merge(tree)
    BY MonitorAssumption DEF Merge, TypeOK
  <2>2. PICK j \in Jobs : Push(j)
    BY <2>1 DEF Next, Flip, EditNetwork, EditHeader, Checkout, RunScript, ScriptFails,
                PushRejected
  <2>3. /\ stage[j] = "written" /\ j \in fresh /\ main' = copy[j]
        /\ stage'[j] = "idle"
    BY <2>2 DEF Push, Publish, End, TypeOK
  <2>4. InOrder(j)
    BY <2>3 DEF MonitorInv
  <2> QED
    BY <2>3, <2>4 DEF InOrder
<1> QED
  BY <1>1, TypeCorrect, InitMonitorInv, NextMonitorInv, PTL DEF Spec, OfflineLifted
=============================================================================
