--------------------------- MODULE UptimeMonitor ---------------------------
(***************************************************************************)
(* src/.github/scripts/monitor_networks.py as the workflow                 *)
(* src/.github/workflows/daily_monitor.yml runs it: a job checks the       *)
(* repository out, pings the bootstrap nodes of every network of           *)
(* networks/, rewrites the badges of ATLAS.md and the counts of            *)
(* uptime_state.json in its checkout, and pushes one commit.  The job runs *)
(* at midnight and whenever somebody dispatches it, and nothing keeps two  *)
(* jobs apart; maintainers merge registrations meanwhile.                  *)
(*                                                                         *)
(* A count beyond FailureLimit is kept at it: the script only compares the *)
(* two.  git refuses a push of a commit that main has moved away from.     *)
(***************************************************************************)
EXTENDS Integers

CONSTANTS
  Tlds,
  Jobs,           \* executions of the workflow that may overlap
  Scheduled,      \* the one of them the cron trigger starts
  FailureLimit,   \* 7
  MaxEdits        \* merges by maintainers

ASSUME MonitorAssumption ==
  /\ Scheduled \in Jobs
  /\ FailureLimit \in Nat \ {0}
  /\ MaxEdits \in Nat

\* A file of networks/ without seed_domain or bootstrap_nodes, or that does not
\* parse, is skipped; a row has a badge; bare is whether a line of ATLAS.md is
\* exactly "| :---".
Networks == {"none", "skipped", "monitored"}
Rows     == {"none", "Active", "Offline"}
Trees    == [networks : [Tlds -> Networks], rows : [Tlds -> Rows],
             counts : [Tlds -> 0 .. FailureLimit], bare : BOOLEAN]

VARIABLES
  main,     \* the tree of the main branch
  edits,    \* merges so far
  alive,    \* the TLDs one of whose bootstrap nodes answers a ping
  stage,    \* [Jobs -> "idle", "checkedOut" or "written"]
  copy,     \* [Jobs -> Trees]: the tree of the job's checkout
  dead,     \* [Jobs -> SUBSET Tlds]: whose ping failed in this job
  fresh,    \* the jobs since whose checkout main has not moved
  streak    \* [Tlds -> Nat]: published failures in a row, up to the limit (for
            \* the properties)

jobs == <<stage, copy, dead>>
vars == <<main, edits, alive, jobs, fresh, streak>>

\* The committed ATLAS.md: no network, and a separator of eight columns.
Committed ==
  [networks |-> [t \in Tlds |-> "none"], rows |-> [t \in Tlds |-> "none"],
   counts |-> [t \in Tlds |-> 0], bare |-> FALSE]

Init ==
  /\ main = Committed
  /\ edits = 0
  /\ alive \in SUBSET Tlds
  /\ stage = [j \in Jobs |-> "idle"]
  /\ copy = [j \in Jobs |-> Committed]
  /\ dead = [j \in Jobs |-> {}]
  /\ fresh = {}
  /\ streak = [t \in Tlds |-> 0]

-----------------------------------------------------------------------------
(* What surrounds the jobs.                                                *)

\* A network goes down or comes back.
Flip(t) ==
  /\ alive' = IF t \in alive THEN alive \ {t} ELSE alive \cup {t}
  /\ UNCHANGED <<main, edits, jobs, fresh, streak>>

\* A merge moves main, and so leaves every checkout behind.
Merge(tree) ==
  /\ edits < MaxEdits
  /\ edits' = edits + 1
  /\ main' = tree
  /\ fresh' = {}
  /\ UNCHANGED <<alive, jobs, streak>>

\* A network is registered, edited or removed; a new row says Active, and no
\* merge writes Offline.  Nobody touches the counts: they stay with the name of
\* the TLD.
EditNetwork(t) ==
  \E n \in Networks, row \in {main.rows[t], "none", "Active"} :
    Merge([main EXCEPT !.networks[t] = n, !.rows[t] = row])

EditHeader == Merge([main EXCEPT !.bare = ~@])

-----------------------------------------------------------------------------
(* A job.                                                                  *)

Checkout(j) ==
  /\ stage[j] = "idle"
  /\ stage' = [stage EXCEPT ![j] = "checkedOut"]
  /\ copy' = [copy EXCEPT ![j] = main]
  /\ fresh' = fresh \cup {j}
  /\ UNCHANGED <<main, edits, alive, dead, streak>>

\* Mutant: a success takes one failure back.
CountDown(n, up) == IF up THEN n - 1 ELSE IF n < FailureLimit THEN n + 1 ELSE n

\* One failure more, or none any longer.
Count(n, up) == IF up THEN 0 ELSE IF n < FailureLimit THEN n + 1 ELSE n

Badge(n) == IF n >= FailureLimit THEN "Offline" ELSE "Active"

Monitored(tree) == {t \in Tlds : tree.networks[t] = "monitored"}

\* The tree the script leaves when the pings of `down` fail.  A monitored
\* network without a row only causes a warning.
Rewritten(tree, down) ==
  LET counts == [t \in Tlds |-> IF t \in Monitored(tree)
                                THEN Count(tree.counts[t], t \notin down)
                                ELSE tree.counts[t]]
  IN [tree EXCEPT
        !.counts = counts,
        !.rows = [t \in Tlds |-> IF t \in Monitored(tree) /\ @[t] # "none"
                                 THEN Badge(counts[t]) ELSE @[t]]]

\* header_lines.index('| :---') finds the line, or networks/ does not exist and
\* the script has returned before.
Rewrites(tree) == tree.bare \/ \A t \in Tlds : tree.networks[t] = "none"

RunScript(j) ==
  /\ stage[j] = "checkedOut"
  /\ Rewrites(copy[j])
  /\ stage' = [stage EXCEPT ![j] = "written"]
  /\ dead' = [dead EXCEPT ![j] = Monitored(copy[j]) \ alive]
  /\ copy' = [copy EXCEPT ![j] = Rewritten(copy[j], dead'[j])]
  /\ UNCHANGED <<main, edits, alive, fresh, streak>>

End(j) ==
  /\ stage' = [stage EXCEPT ![j] = "idle"]
  /\ copy' = [copy EXCEPT ![j] = Committed]
  /\ dead' = [dead EXCEPT ![j] = {}]

\* index raises ValueError with ATLAS.md emptied and the counts not saved; the
\* job fails, the commit step does not run, and the checkout is gone.
ScriptFails(j) ==
  /\ stage[j] = "checkedOut"
  /\ ~Rewrites(copy[j])
  /\ End(j)
  /\ fresh' = fresh \ {j}
  /\ UNCHANGED <<main, edits, alive, streak>>

\* What the properties compare the counts with.
Longer(n) == IF n < FailureLimit THEN n + 1 ELSE n

\* Mutant: the commit takes ATLAS.md only.
PublishBadges(j) ==
  /\ main' = [copy[j] EXCEPT !.counts = main.counts]
  /\ streak' = [t \in Tlds |-> IF t \in Monitored(copy[j])
                               THEN IF t \in dead[j] THEN Longer(streak[t]) ELSE 0
                               ELSE streak[t]]
  /\ End(j)

\* ATLAS.md and uptime_state.json become one commit.
Publish(j) ==
  /\ main' = copy[j]
  /\ streak' = [t \in Tlds |-> IF t \in Monitored(copy[j])
                               THEN IF t \in dead[j] THEN Longer(streak[t]) ELSE 0
                               ELSE streak[t]]
  /\ End(j)

\* Mutant: push --force.
PushForced(j) ==
  /\ stage[j] = "written"
  /\ Publish(j)
  /\ fresh' = {}
  /\ UNCHANGED <<edits, alive>>

\* The commit is pushed; with nothing to commit main stays where it is.
Push(j) ==
  /\ stage[j] = "written"
  /\ j \in fresh
  /\ Publish(j)
  /\ \/ fresh' = {}
     \/ main' = main /\ fresh' = fresh \ {j}
  /\ UNCHANGED <<edits, alive>>

PushRejected(j) ==
  /\ stage[j] = "written"
  /\ j \notin fresh
  /\ End(j)
  /\ UNCHANGED <<main, edits, alive, fresh, streak>>

Next ==
  \/ \E t \in Tlds : Flip(t) \/ EditNetwork(t)
  \/ EditHeader
  \/ \E j \in Jobs : \/ Checkout(j) \/ RunScript(j) \/ ScriptFails(j)
                     \/ Push(j) \/ PushRejected(j)

\* Midnight comes every day, and a job that has started ends.
Fairness ==
  /\ WF_vars(Checkout(Scheduled))
  /\ \A j \in Jobs :
       /\ WF_vars(RunScript(j) \/ ScriptFails(j))
       /\ WF_vars(Push(j) \/ PushRejected(j))

Spec == Init /\ [][Next]_vars /\ Fairness

-----------------------------------------------------------------------------
(* Properties.                                                             *)

\* Every variable has its type, and a job holds pings and a checkout only while
\* it runs.
TypeOK ==
  /\ main \in Trees
  /\ edits \in 0 .. MaxEdits
  /\ alive \subseteq Tlds
  /\ stage \in [Jobs -> {"idle", "checkedOut", "written"}]
  /\ copy \in [Jobs -> Trees]
  /\ dead \in [Jobs -> SUBSET Tlds]
  /\ fresh \subseteq {j \in Jobs : stage[j] # "idle"}
  /\ streak \in [Tlds -> 0 .. FailureLimit]

\* A badge says Offline only after FailureLimit published failures in a row:
\* no job that was overtaken puts an old count or badge back, and no merge
\* brings a badge nobody earned (monitor_networks.py:136-153, daily_monitor.yml).
OfflineEarned ==
  \A t \in Tlds : main.rows[t] = "Offline" => streak[t] = FailureLimit

\* Once it says Offline, a badge is lifted by a merge, or by the push of a job
\* whose own ping the network answered: not by a job that checked out before the
\* last failures were pushed (monitor_networks.py:131-153, daily_monitor.yml).
OfflineLifted ==
  [][\A t \in Tlds : main.rows[t] = "Offline" /\ main'.rows[t] # "Offline" =>
       \/ edits' # edits
       \/ \E j \in Jobs : /\ stage[j] = "written" /\ stage'[j] = "idle"
                         /\ t \in Monitored(copy[j]) \ dead[j]]_vars

\* With a separator the script can find, the badge of a monitored network that
\* stays down, or up, for good ends up saying so, whatever jobs overlap
\* (monitor_networks.py:131-153).
Listed(t) == main.bare /\ main.networks[t] = "monitored" /\ main.rows[t] # "none"

BadgeSettles ==
  \A t \in Tlds :
    /\ <>[](Listed(t) /\ t \notin alive) => <>[](main.rows[t] = "Offline")
    /\ <>[](Listed(t) /\ t \in alive) => <>[](main.rows[t] = "Active")

\* README.md:62: a network that fails the ping for seven consecutive days is
\* marked Offline.
SevenDayRule ==
  \A t \in Tlds :
    <>[](main.networks[t] = "monitored" /\ main.rows[t] # "none" /\ t \notin alive) =>
      <>(main.rows[t] = "Offline")
=============================================================================
