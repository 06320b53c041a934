----------------------------- MODULE HandleLease -----------------------------
(***************************************************************************)
(* What a search that keeps a handle on the device promises: the handle is *)
(* used, and then given back before the search is over, with the outcome   *)
(* decided by its use.  Nothing here of the calls, the network or the      *)
(* device.  Search implements it.                                          *)
(***************************************************************************)
CONSTANTS Searches, Failures

VARIABLES
  phase,    \* where each search is
  pending,  \* the exception on its way out of each search, "none" without one
  outcome   \* how each search ended

vars == <<phase, pending, outcome>>

Init ==
  /\ phase = [s \in Searches |-> "begin"]
  /\ pending = [s \in Searches |-> "none"]
  /\ outcome = [s \in Searches |-> "none"]

Moves(s, from, to) ==
  /\ phase[s] \in from
  /\ phase' = [phase EXCEPT ![s] = to]

\* The search is over, and says how.
Reports(s, o) ==
  /\ outcome' = [outcome EXCEPT ![s] = o]
  /\ pending' = [pending EXCEPT ![s] = IF o = "ok" THEN "none" ELSE o]

Begins(s) == Moves(s, {"begin"}, "opening") /\ UNCHANGED <<pending, outcome>>

\* There is no handle to give back.
OpenFails(s, why) == Moves(s, {"opening"}, "over") /\ Reports(s, why)

Opens(s) == Moves(s, {"opening"}, "using") /\ UNCHANGED <<pending, outcome>>

\* Its use is finished, or has failed: the finder is closed first where there
\* is something to close, and the request that gives the handle back is sent.
Used(s, why) ==
  /\ Moves(s, {"using"}, "closing") \/ Moves(s, {"using"}, "returning")
  /\ pending' = [pending EXCEPT ![s] = why]
  /\ UNCHANGED outcome

\* Whatever closing came to.
Closed(s) == Moves(s, {"closing"}, "returning") /\ UNCHANGED <<pending, outcome>>

\* Whatever giving back came to, the outcome is that of the use.
Returned(s) ==
  /\ Moves(s, {"returning"}, "over")
  /\ Reports(s, IF pending[s] = "none" THEN "ok" ELSE pending[s])

\* Only a cancellation gets in the way of that.
Cancelled(s) == Moves(s, {"closing", "returning"}, "over") /\ Reports(s, "cancelled")

Next ==
  \E s \in Searches :
    \/ Begins(s)
    \/ \E why \in Failures : OpenFails(s, why)
    \/ Opens(s)
    \/ \E why \in Failures \cup {"none"} : Used(s, why)
    \/ Closed(s)
    \/ Returned(s)
    \/ Cancelled(s)

Spec == Init /\ [][Next]_vars

\* A search that began is over some day.
SearchesEnd == \A s \in Searches : phase[s] # "begin" ~> phase[s] = "over"
=============================================================================
