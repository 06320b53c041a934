------------------------------- MODULE Search -------------------------------
(***************************************************************************)
(* The searches that keep a handle on the device: async_find_recordings    *)
(* (a media finder of mediaFileFind.cgi) and async_search_logs (a token of *)
(* log.cgi).  Each is a sequence of calls of async_get_text: one opens the *)
(* handle, some use it, and a finally block gives it back whatever         *)
(* happened to them.                                                       *)
(*                                                                         *)
(* A call ends with the device's answer, or early: the transport's timeout,*)
(* a dropped connection, or the cancellation of the caller's task.  A      *)
(* request abandoned that way is still under way: the device may process   *)
(* it later, after requests sent later, or never.  The device, external,   *)
(* has a limited number of handles.                                        *)
(***************************************************************************)
EXTENDS Naturals, FiniteSets

CONSTANTS
  Tasks,        \* asyncio tasks that search
  Kinds,        \* the searches they make, a subset of AllKinds
  MaxSearches,  \* bound: searches started in a behaviour
  Capacity,     \* handles the device can keep
  Faults        \* ways an awaited call may end early, a subset of AllFaults

AllKinds  == {"recordings", "logs"}
AllFaults == {"timeout", "dropped", "cancelled"}
Searches  == 1..MaxSearches

ASSUME SearchAssumption ==
  /\ Kinds \subseteq AllKinds
  /\ MaxSearches \in Nat
  /\ Capacity \in Nat
  /\ Faults \subseteq AllFaults

VARIABLES
  search,    \* task: the search it is in, 0 for none
  at,        \* search: the call it awaits, "begin" and "over" around them
  handle,    \* search: does it know the handle the device gave it?
  failure,   \* search: the exception on its way out, "none" without one
  ans,       \* search: the answer to the call it awaits
  result,    \* search: how it ended
  wire,      \* requests sent and not processed, awaited or abandoned
  alive,     \* device: searches whose handle it keeps
  found,     \* device: finders with a file search in progress
  trouble    \* history: parts of a search in which a call did not succeed

clientVars == <<search, at, handle, failure, ans, result>>
deviceVars == <<alive, found>>
vars == <<clientVars, wire, deviceVars, trouble>>

-----------------------------------------------------------------------------
(* The calls of a search.                                                  *)

Opening(k) == IF k = "recordings" THEN "factory.create" ELSE "startFind"

\* The part of a search a call belongs to.
OpeningCalls == {"factory.create", "startFind"}
WorkCalls    == {"findFile", "findNextFile", "doFind"}
CleanupCalls == {"close", "destroy", "stopFind"}
Steps        == OpeningCalls \cup WorkCalls \cup CleanupCalls

Part(step) == CASE step \in OpeningCalls -> "opening"
                [] step \in WorkCalls    -> "work"
                [] OTHER                 -> "cleanup"

\* Mutant: the finder is closed and never destroyed.
CloseOnly(step) ==
  CASE step = "factory.create" -> "findFile"
    [] step = "findFile"       -> "findNextFile"
    [] step = "findNextFile"   -> "close"
    [] step = "startFind"      -> "doFind"
    [] step = "doFind"         -> "stopFind"
    [] OTHER                   -> "over"

\* The call after this one, "over" after the last.
After(step) ==
  CASE step = "factory.create" -> "findFile"
    [] step = "findFile"       -> "findNextFile"
    [] step = "findNextFile"   -> "close"
    [] step = "close"          -> "destroy"
    [] step = "startFind"      -> "doFind"
    [] step = "doFind"         -> "stopFind"
    [] OTHER                   -> "over"

\* The first call of the finally block around a call that uses the handle.
FirstCleanup(step) == IF step = "doFind" THEN "stopFind" ELSE "close"

Awaits(s) == at[s] \in Steps
Request   == [search : Searches, step : Steps]

-----------------------------------------------------------------------------
(* The client.                                                             *)

\* Search s awaits the call step, or returns when there is none left.
GoTo(s, step) ==
  /\ at' = [at EXCEPT ![s] = step]
  /\ ans' = [ans EXCEPT ![s] = "none"]
  /\ wire' = IF step = "over" THEN wire ELSE wire \cup {[search |-> s, step |-> step]}

\* Mutant: the task goes on holding the search.
NeverLeft(s, exception) ==
  /\ result' = [result EXCEPT ![s] = IF exception = "none" THEN "ok" ELSE exception]
  /\ UNCHANGED search

\* The search returns, with the exception on its way out if there is one.
Ends(s, exception) ==
  /\ result' = [result EXCEPT ![s] = IF exception = "none" THEN "ok" ELSE exception]
  /\ search' = [t \in Tasks |-> IF search[t] = s THEN 0 ELSE search[t]]

\* Search s goes on to the call step with this exception pending.
GoesOn(s, step, exception) ==
  /\ GoTo(s, step)
  /\ failure' = [failure EXCEPT ![s] = exception]
  /\ IF step = "over" THEN Ends(s, exception) ELSE UNCHANGED <<search, result>>

SearchStarts(t, s, k) ==
  /\ search[t] = 0
  /\ at[s] = "begin"
  /\ \A r \in Searches : r < s => at[r] # "begin"
  /\ search' = [search EXCEPT ![t] = s]
  /\ GoTo(s, Opening(k))
  /\ UNCHANGED <<handle, failure, result, deviceVars, trouble>>

\* The call awaited has succeeded: the next one.
CallSucceeds(s) ==
  /\ Awaits(s)
  /\ ans[s] = "ok"
  /\ handle' = [handle EXCEPT ![s] = TRUE]
  /\ GoesOn(s, After(at[s]), failure[s])
  /\ UNCHANGED <<deviceVars, trouble>>

\* Mutant: a failed cleanup call replaces the exception on its way out.
CleanupFailureRaised(s, why) == why

\* The exception on its way out after a cleanup call has failed: "except
\* Exception" and suppress(Exception) swallow everything but a cancellation.
AfterCleanupFailure(s, why) == IF why = "cancelled" THEN "cancelled" ELSE failure[s]

\* Mutant: the search is not inside a try block with a finally.
NoFinally(s, why) == "over"

\* Where a failed call leads: no handle, no cleanup; the finally block after
\* the calls that use it; and in the finally block the next call of the loop,
\* which a cancellation leaves.
AfterFailure(s, why) ==
  CASE Part(at[s]) = "opening" -> "over"
    [] Part(at[s]) = "work"    -> FirstCleanup(at[s])
    [] OTHER -> IF why = "cancelled" THEN "over" ELSE After(at[s])

\* The call awaited has raised.
Raises(s, why) ==
  /\ GoesOn(s, AfterFailure(s, why),
            IF Part(at[s]) = "cleanup" THEN AfterCleanupFailure(s, why) ELSE why)
  /\ trouble' = [trouble EXCEPT ![s] = @ \cup {Part(at[s])}]
  /\ UNCHANGED <<handle, deviceVars>>

\* The device answered with an error, or with a body that has no handle or
\* cannot be parsed.
CallRefused(s) ==
  /\ Awaits(s)
  /\ ans[s] = "error"
  /\ Raises(s, "error")

\* Mutant: no timeout around the calls of the finally block.
AbandonedBeforeCleanup(s, fault) ==
  /\ Awaits(s)
  /\ fault \in Faults
  /\ Part(at[s]) # "cleanup"
  /\ Raises(s, fault)

\* The call ends before its answer is read.
CallAbandoned(s, fault) ==
  /\ Awaits(s)
  /\ fault \in Faults
  /\ Raises(s, fault)

-----------------------------------------------------------------------------
(* The device and the network.                                             *)

\* May the device carry the request out?
Feasible(r) ==
  CASE r.step \in {"factory.create", "startFind"} -> Cardinality(alive) < Capacity
    [] r.step = "findNextFile"                    -> r.search \in found
    [] OTHER                                      -> r.search \in alive

\* What carrying it out does.
CarryOut(r) ==
  /\ alive' = CASE r.step \in {"factory.create", "startFind"} -> alive \cup {r.search}
                [] r.step \in {"destroy", "stopFind"}         -> alive \ {r.search}
                [] OTHER                                      -> alive
  /\ found' = CASE r.step = "findFile"                        -> found \cup {r.search}
                [] r.step \in {"close", "destroy"}            -> found \ {r.search}
                [] OTHER                                      -> found

\* The answer reaches the search if it still awaits this call.
Answer(r, a) ==
  ans' = IF at[r.search] = r.step /\ ans[r.search] = "none"
           THEN [ans EXCEPT ![r.search] = a] ELSE ans

\* The device does what it is asked; the client may not make sense of its
\* answer all the same.
DeviceCarriesOut(r) ==
  /\ r \in wire
  /\ Feasible(r)
  /\ wire' = wire \ {r}
  /\ CarryOut(r)
  /\ \E a \in {"ok", "error"} : Answer(r, a)
  /\ UNCHANGED <<search, at, handle, failure, result, trouble>>

\* The device refuses: it has no such handle or none left, is busy, or does
\* not implement the call.
DeviceRefuses(r) ==
  /\ r \in wire
  /\ wire' = wire \ {r}
  /\ Answer(r, "error")
  /\ UNCHANGED <<search, at, handle, failure, result, deviceVars, trouble>>

\* A request gets lost; its search, if it still waits, will time out.
RequestLost(r) ==
  /\ r \in wire
  /\ wire' = wire \ {r}
  /\ UNCHANGED <<clientVars, deviceVars, trouble>>

-----------------------------------------------------------------------------

Init ==
  /\ search = [t \in Tasks |-> 0]
  /\ at = [s \in Searches |-> "begin"]
  /\ handle = [s \in Searches |-> FALSE]
  /\ failure = [s \in Searches |-> "none"]
  /\ ans = [s \in Searches |-> "none"]
  /\ result = [s \in Searches |-> "none"]
  /\ wire = {}
  /\ alive = {}
  /\ found = {}
  /\ trouble = [s \in Searches |-> {}]

SearchStep(s) ==
  \/ CallSucceeds(s)
  \/ CallRefused(s)
  \/ \E fault \in AllFaults : CallAbandoned(s, fault)

Next ==
  \/ \E t \in Tasks, s \in Searches, k \in Kinds : SearchStarts(t, s, k)
  \/ \E s \in Searches : SearchStep(s)
  \/ \E r \in wire : DeviceCarriesOut(r) \/ DeviceRefuses(r) \/ RequestLost(r)

Spec == Init /\ [][Next]_vars

\* asyncio runs a task whose answer has come, and every call has the
\* transport's timeout.  Nothing is assumed of the device or the network.
Fairness ==
  \A s \in Searches :
    /\ WF_vars(CallSucceeds(s))
    /\ WF_vars(CallRefused(s))
    /\ WF_vars(CallAbandoned(s, "timeout"))

FairSpec == Spec /\ Fairness

-----------------------------------------------------------------------------
(* Properties.                                                             *)

Over(s) == at[s] = "over"

\* The values the variables take; a task is in one search at a time, and only
\* the search it is in is between its beginning and its end.
TypeOK ==
  /\ search \in [Tasks -> 0..MaxSearches]
  /\ at \in [Searches -> Steps \cup {"begin", "over"}]
  /\ handle \in [Searches -> BOOLEAN]
  /\ failure \in [Searches -> {"none", "error"} \cup AllFaults]
  /\ ans \in [Searches -> {"none", "ok", "error"}]
  /\ result \in [Searches -> {"none", "ok", "error"} \cup AllFaults]
  /\ wire \in SUBSET Request
  /\ alive \in SUBSET Searches
  /\ found \in SUBSET Searches
  /\ trouble \in [Searches -> SUBSET {"opening", "work", "cleanup"}]
  /\ \A s \in Searches : Awaits(s) <=> \E t \in Tasks : search[t] = s

\* A search gives its handle back even when it fails, is cancelled, or its
\* abandoned requests arrive late and out of order: the device keeps a handle
\* of a search that is over only if the call that opened it was abandoned, or
\* a call of the finally block did not succeed.
HandlesReturned ==
  \A s \in alive : Over(s) => trouble[s] \cap {"opening", "cleanup"} # {}

\* Where the lease of a search is.
Phase(s) ==
  CASE at[s] \in {"begin", "over"}        -> at[s]
    [] at[s] \in OpeningCalls             -> "opening"
    [] at[s] \in WorkCalls                -> "using"
    [] at[s] = "close"                    -> "closing"
    [] OTHER                              -> "returning"

Lease == INSTANCE HandleLease WITH
  Failures <- {"error"} \cup AllFaults,
  phase    <- [s \in Searches |-> Phase(s)],
  pending  <- failure,
  outcome  <- result

\* The search implements the lease: once it has a handle it is over only after
\* the request that gives it back was sent, and it reports what the use of the
\* handle came to, whatever the calls of the finally block come to; except
\* that a cancellation there ends it at once.
KeepsLease == Lease!Spec

\* The name of a test: test_finder_is_always_cleaned_up.  A search that is over
\* and knew its finder has had it destroyed, or the request failed.  A
\* cancellation while the finder is being closed refutes it.
AlwaysCleanedUp ==
  [][\A s \in Searches :
       (at[s] \in {"findFile", "findNextFile", "close", "destroy"} /\ Over(s)')
         => at[s] = "destroy"]_vars

\* Every search ends, whatever the device and the network do.
SearchesEnd == Lease!SearchesEnd
=============================================================================
