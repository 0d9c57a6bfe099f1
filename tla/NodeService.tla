----------------------------- MODULE NodeService -----------------------------
(***************************************************************************)
(* What a node promises to the handlers of the proxy, without its channel, *)
(* its maps of responders and libp2p: each call gets at most one answer.   *)
(* A lookup of a record is answered with the first record its query meets, *)
(* and None only if it has met none; an error means that the node stopped. *)
(***************************************************************************)
CONSTANTS Calls

VARIABLES
  cmd,      \* [Calls -> commands]: what each call asks
  call,     \* [Calls -> "new", "asked", an answer or "gone"]
  met,      \* the calls whose query has met a record
  stopped   \* the node has stopped

vars == <<cmd, call, met, stopped>>

IsLookup(c) == cmd[c].op = "GetRecord"
Becomes(c, v) == call' = [call EXCEPT ![c] = v]

Init ==
  /\ call = [c \in Calls |-> "new"]
  /\ met = {}
  /\ stopped = FALSE

Ask(c) ==
  /\ call[c] = "new"
  /\ Becomes(c, "asked")
  /\ UNCHANGED <<cmd, met, stopped>>

\* A query meets a record, and its handler, if it still waits, gets it.
Meet(c) ==
  /\ ~stopped /\ IsLookup(c)
  /\ met' = met \cup {c}
  /\ Becomes(c, IF call[c] = "asked" THEN "some" ELSE call[c])
  /\ UNCHANGED <<cmd, stopped>>

Reply(c) ==
  /\ ~stopped /\ call[c] = "asked"
  /\ \/ Becomes(c, "none") /\ (IsLookup(c) => c \notin met)
     \/ Becomes(c, "some") /\ ~IsLookup(c)
  /\ UNCHANGED <<cmd, met, stopped>>

\* The node stops; calls it has taken fail at once, the others when they are
\* handed over.
Stop ==
  /\ ~stopped /\ stopped' = TRUE
  /\ \E failed \in SUBSET {c \in Calls : call[c] = "asked"} :
       call' = [c \in Calls |-> IF c \in failed THEN "error" ELSE call[c]]
  /\ UNCHANGED <<cmd, met>>

Fail(c) ==
  /\ stopped /\ call[c] = "asked"
  /\ Becomes(c, "error")
  /\ UNCHANGED <<cmd, met, stopped>>

Leave(c) ==
  /\ call[c] \notin {"new", "gone"}
  /\ Becomes(c, "gone")
  /\ UNCHANGED <<cmd, met, stopped>>

Next ==
  \/ \E c \in Calls : Ask(c) \/ Meet(c) \/ Reply(c) \/ Fail(c) \/ Leave(c)
  \/ Stop

Spec == Init /\ [][Next]_vars
=============================================================================
