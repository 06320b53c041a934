----------------------------- MODULE SearchProofs -----------------------------
(***************************************************************************)
(* Theorems about Search, for every number of tasks, searches and handles. *)
(***************************************************************************)
EXTENDS Search, TLAPS

Failures == {"error"} \cup AllFaults

-----------------------------------------------------------------------------
(* Types.                                                                  *)

\* Where a call that succeeds leads.
LEMMA AfterType ==
  ASSUME NEW step \in Steps
  PROVE  /\ After(step) \in WorkCalls \cup CleanupCalls \cup {"over"}
         /\ After(step) = "over" <=> step \in {"destroy", "stopFind"}
         /\ FirstCleanup(step) \in CleanupCalls
BY DEF Steps, After, FirstCleanup, OpeningCalls, WorkCalls, CleanupCalls

\* What every step of a search that goes on, or ends, does.
Moved(s, step, exception) ==
  /\ at' = [at EXCEPT ![s] = step]
  /\ ans' = [ans EXCEPT ![s] = "none"]
  /\ failure' = [failure EXCEPT ![s] = exception]
  /\ step # "over" => /\ wire' = wire \cup {[search |-> s, step |-> step]}
                      /\ UNCHANGED <<search, result>>
  /\ step = "over" => /\ wire' = wire
                      /\ Ends(s, exception)

LEMMA GoesOnMoves ==
  ASSUME NEW s, NEW step, NEW exception, GoesOn(s, step, exception)
  PROVE  Moved(s, step, exception)
BY DEF GoesOn, GoTo, Moved

\* A call that succeeded goes on to the next one, with what was pending.
LEMMA SucceedsMoves ==
  ASSUME TypeOK, NEW s \in Searches, CallSucceeds(s)
  PROVE  /\ at[s] \in Steps /\ ans[s] = "ok"
         /\ Moved(s, After(at[s]), failure[s])
         /\ handle' = [handle EXCEPT ![s] = TRUE]
         /\ UNCHANGED <<alive, found, trouble>>
BY GoesOnMoves DEF CallSucceeds, Awaits, deviceVars

\* A call that raised goes where AfterFailure says.
LEMMA RaisesMoves ==
  ASSUME TypeOK, NEW s \in Searches, NEW why \in Failures, Awaits(s), Raises(s, why)
  PROVE  /\ at[s] \in Steps
         /\ Moved(s, AfterFailure(s, why),
                  IF Part(at[s]) = "cleanup" THEN AfterCleanupFailure(s, why) ELSE why)
         /\ AfterFailure(s, why) \in CleanupCalls \cup {"over"}
         /\ AfterCleanupFailure(s, why) \in Failures \cup {"none"}
         /\ trouble' = [trouble EXCEPT ![s] = @ \cup {Part(at[s])}]
         /\ UNCHANGED <<handle, alive, found>>
<1>1. at[s] \in Steps
  BY DEF Awaits
<1>2. AfterFailure(s, why) \in CleanupCalls \cup {"over"}
  BY <1>1, AfterType
     DEF AfterFailure, Part, Steps, OpeningCalls, WorkCalls, CleanupCalls, After
<1>3. AfterCleanupFailure(s, why) \in Failures \cup {"none"}
  BY DEF AfterCleanupFailure, TypeOK, Failures, AllFaults
<1>. QED
  BY <1>1, <1>2, <1>3, GoesOnMoves DEF Raises, deviceVars

\* Moving on keeps the types of what it changes.
LEMMA MovedTypes ==
  ASSUME TypeOK, NEW s \in Searches, Awaits(s), NEW step \in Steps \cup {"over"},
         NEW exception \in Failures \cup {"none"}, Moved(s, step, exception)
  PROVE  /\ search' \in [Tasks -> 0..MaxSearches]
         /\ at' \in [Searches -> Steps \cup {"begin", "over"}]
         /\ failure' \in [Searches -> {"none", "error"} \cup AllFaults]
         /\ ans' \in [Searches -> {"none", "ok", "error"}]
         /\ result' \in [Searches -> {"none", "ok", "error"} \cup AllFaults]
         /\ wire' \in SUBSET Request
         /\ \A u \in Searches : Awaits(u)' <=> \E t \in Tasks : search'[t] = u
<1>1. /\ at' \in [Searches -> Steps \cup {"begin", "over"}]
      /\ failure' \in [Searches -> {"none", "error"} \cup AllFaults]
      /\ ans' \in [Searches -> {"none", "ok", "error"}]
  BY DEF Moved, TypeOK, Failures
<1>2. CASE step # "over"
  <2>1. wire' \in SUBSET Request
    BY <1>2 DEF Moved, TypeOK, Request
  <2>2. UNCHANGED <<search, result>>
    BY <1>2 DEF Moved
  <2>3. \A u \in Searches : Awaits(u)' <=> Awaits(u)
    BY <1>2 DEF Moved, Awaits, TypeOK
  <2>. QED
    BY <1>1, <2>1, <2>2, <2>3 DEF TypeOK
<1>3. CASE step = "over"
  <2>1. /\ result' \in [Searches -> {"none", "ok", "error"} \cup AllFaults]
        /\ search' = [t \in Tasks |-> IF search[t] = s THEN 0 ELSE search[t]]
        /\ wire' = wire
    BY <1>3 DEF Moved, Ends, TypeOK, Failures
  <2>2. search' \in [Tasks -> 0..MaxSearches]
    BY <2>1, SearchAssumption DEF TypeOK
  <2>3. ASSUME NEW u \in Searches PROVE Awaits(u)' <=> \E t \in Tasks : search'[t] = u
    <3>1. u # 0
      BY SearchAssumption DEF Searches
    <3>2. CASE u = s
      <4>1. ~Awaits(u)'
        BY <1>3, <3>2
           DEF Moved, Awaits, TypeOK, Steps, OpeningCalls, WorkCalls, CleanupCalls
      <4>2. \A t \in Tasks : search'[t] # u
        BY <2>1, <3>1, <3>2
      <4>. QED
        BY <4>1, <4>2
    <3>3. CASE u # s
      <4>1. Awaits(u)' <=> Awaits(u)
        BY <3>3 DEF Moved, Awaits, TypeOK
      <4>2. \A t \in Tasks : search'[t] = u <=> search[t] = u
        BY <2>1, <3>1, <3>3
      <4>. QED
        BY <4>1, <4>2 DEF TypeOK
    <3>. QED
      BY <3>2, <3>3
  <2>. QED
    BY <1>1, <2>1, <2>2, <2>3 DEF TypeOK
<1>. QED
  BY <1>2, <1>3

\* The answer to a request, which may reach nobody.
LEMMA AnswerTypes ==
  ASSUME TypeOK, NEW r \in wire, NEW a \in {"ok", "error"}, Answer(r, a)
  PROVE  ans' \in [Searches -> {"none", "ok", "error"}]
BY DEF Answer, TypeOK

LEMMA TypeStep == TypeOK /\ [Next]_vars => TypeOK'
<1>. SUFFICES ASSUME TypeOK, [Next]_vars PROVE TypeOK'
  OBVIOUS
<1>1. ASSUME NEW t \in Tasks, NEW s \in Searches, NEW k \in Kinds, SearchStarts(t, s, k)
      PROVE  TypeOK'
  <2>1. Opening(k) \in OpeningCalls /\ Opening(k) # "over" /\ Opening(k) \in Steps
    BY DEF Opening, OpeningCalls, Steps
  <2>2. /\ search' = [search EXCEPT ![t] = s] /\ search[t] = 0
        /\ at' = [at EXCEPT ![s] = Opening(k)] /\ at[s] = "begin"
        /\ ans' = [ans EXCEPT ![s] = "none"]
        /\ wire' = wire \cup {[search |-> s, step |-> Opening(k)]}
        /\ UNCHANGED <<handle, failure, result, alive, found, trouble>>
    BY <1>1, <2>1 DEF SearchStarts, GoTo, deviceVars
  <2>3. search' \in [Tasks -> 0..MaxSearches]
    BY <2>2, SearchAssumption DEF TypeOK, Searches
  <2>4. /\ at' \in [Searches -> Steps \cup {"begin", "over"}]
        /\ ans' \in [Searches -> {"none", "ok", "error"}]
        /\ wire' \in SUBSET Request
    BY <2>1, <2>2 DEF TypeOK, Request
  <2>5. ASSUME NEW u \in Searches PROVE Awaits(u)' <=> \E v \in Tasks : search'[v] = u
    <3>1. u # 0
      BY SearchAssumption DEF Searches
    <3>2. CASE u = s
      BY <2>1, <2>2, <3>2 DEF Awaits, TypeOK
    <3>3. CASE u # s
      <4>1. Awaits(u)' <=> Awaits(u)
        BY <2>2, <3>3 DEF Awaits, TypeOK
      <4>2. \A v \in Tasks : search'[v] = u <=> search[v] = u
        BY <2>2, <3>1, <3>3 DEF TypeOK
      <4>. QED
        BY <4>1, <4>2 DEF TypeOK
    <3>. QED
      BY <3>2, <3>3
  <2>. QED
    BY <2>2, <2>3, <2>4, <2>5 DEF TypeOK
<1>2. ASSUME NEW s \in Searches, CallSucceeds(s) PROVE TypeOK'
  <2>1. /\ Awaits(s) /\ After(at[s]) \in Steps \cup {"over"}
        /\ Moved(s, After(at[s]), failure[s])
        /\ handle' \in [Searches -> BOOLEAN]
        /\ UNCHANGED <<alive, found, trouble>>
    BY <1>2, SucceedsMoves, AfterType DEF CallSucceeds, TypeOK, Steps
  <2>2. failure[s] \in Failures \cup {"none"}
    BY DEF TypeOK, Failures
  <2>. HIDE DEF Moved
  <2>. QED
    BY <2>1, <2>2, MovedTypes DEF TypeOK
<1>3. ASSUME NEW s \in Searches, NEW why \in Failures, Awaits(s), Raises(s, why) PROVE TypeOK'
  <2>. DEFINE step == AfterFailure(s, why)
              exception == IF Part(at[s]) = "cleanup" THEN AfterCleanupFailure(s, why) ELSE why
  <2>1. /\ Moved(s, step, exception)
        /\ step \in Steps \cup {"over"}
        /\ exception \in Failures \cup {"none"}
        /\ UNCHANGED <<handle, alive, found>>
    BY <1>3, RaisesMoves DEF Steps
  <2>2. trouble' \in [Searches -> SUBSET {"opening", "work", "cleanup"}]
    BY <1>3, RaisesMoves DEF TypeOK, Part
  <2>. HIDE DEF step, exception
  <2>. QED
    BY <1>3, <2>1, <2>2, MovedTypes DEF TypeOK
<1>4. ASSUME NEW r \in wire,
             DeviceCarriesOut(r) \/ DeviceRefuses(r) \/ RequestLost(r)
      PROVE  TypeOK'
  <2>1. /\ UNCHANGED <<search, at, handle, failure, result, trouble>>
        /\ wire' \in SUBSET Request
    BY <1>4 DEF DeviceCarriesOut, DeviceRefuses, RequestLost, TypeOK, clientVars
  <2>2. ans' \in [Searches -> {"none", "ok", "error"}]
    BY <1>4, AnswerTypes DEF DeviceCarriesOut, DeviceRefuses, RequestLost, TypeOK, clientVars
  <2>3. alive' \in SUBSET Searches /\ found' \in SUBSET Searches
    <3>1. r.search \in Searches
      BY DEF TypeOK, Request
    <3>. QED
      BY <1>4, <3>1
         DEF DeviceCarriesOut, CarryOut, DeviceRefuses, RequestLost, TypeOK, deviceVars
  <2>4. \A u \in Searches : Awaits(u)' <=> \E t \in Tasks : search'[t] = u
    BY <2>1 DEF TypeOK, Awaits
  <2>. QED
    BY <2>1, <2>2, <2>3, <2>4 DEF TypeOK
<1>5. CASE UNCHANGED vars
  BY <1>5 DEF vars, clientVars, deviceVars, TypeOK, Awaits
<1>. QED
  BY <1>1, <1>2, <1>3, <1>4, <1>5
     DEF Next, SearchStep, CallRefused, CallAbandoned, Failures

LEMMA TypeInit == Init => TypeOK
<1>. SUFFICES ASSUME Init PROVE TypeOK
  OBVIOUS
<1>1. \A s \in Searches : s # 0
  BY SearchAssumption DEF Searches
<1>2. \A s \in Searches : ~Awaits(s) /\ \A t \in Tasks : search[t] # s
  BY <1>1 DEF Init, Awaits, Steps, OpeningCalls, WorkCalls, CleanupCalls
<1>3. search \in [Tasks -> 0..MaxSearches]
  BY SearchAssumption DEF Init
<1>. QED
  BY <1>2, <1>3 DEF Init, TypeOK

\* The variables keep their types, a task is in one search at a time, and the
\* searches that wait for a call are those some task is in.
THEOREM TypeCorrect == Spec => []TypeOK
BY TypeInit, TypeStep, PTL DEF Spec

-----------------------------------------------------------------------------
(* Handles are given back.                                                 *)

\* The calls that give a handle back.
Last == {"destroy", "stopFind"}

Failed(s, part) == part \in trouble[s]

\* Why a late request cannot bring a handle to life behind the back of the
\* search: the opening request of a search that went on normally has been
\* processed, and so has the last one of a search that ended normally.
HandleInv(s) ==
  /\ at[s] = "begin" => \A r \in wire : r.search # s
  /\ ans[s] # "none" => [search |-> s, step |-> at[s]] \notin wire
  /\ \A step \in OpeningCalls :
       [search |-> s, step |-> step] \in wire => at[s] = step \/ Failed(s, "opening")
  /\ (at[s] \in Last /\ ans[s] = "ok") => s \notin alive \/ Failed(s, "opening")
  /\ at[s] = "over" => s \notin alive \/ Failed(s, "opening") \/ Failed(s, "cleanup")

RInv == TypeOK /\ \A s \in Searches : HandleInv(s)

\* What a step of another search leaves to show of this one: nothing, as the
\* only request it puts on the wire is its own.
LEMMA HandleFrame ==
  ASSUME NEW s \in Searches, NEW u \in Searches, u # s, HandleInv(s), NEW step,
         wire' \subseteq wire \cup {[search |-> u, step |-> step]},
         UNCHANGED <<at[s], ans[s], trouble[s], alive>>
  PROVE  HandleInv(s)'
BY DEF HandleInv, Failed, Last

\* A search that moves on, having succeeded or failed.
LEMMA HandleMoves ==
  ASSUME RInv, NEW s \in Searches, at[s] \in Steps, NEW exception,
         NEW step \in WorkCalls \cup CleanupCalls \cup {"over"}, Moved(s, step, exception),
         trouble'[s] = trouble[s] \/ trouble'[s] = trouble[s] \cup {Part(at[s])},
         UNCHANGED alive,
         at[s] \in OpeningCalls => ans[s] = "ok" \/ Failed(s, "opening")',
         step = "over" => \/ at[s] \in Last /\ ans[s] = "ok"
                          \/ Failed(s, "opening")' \/ Failed(s, "cleanup")'
  PROVE  HandleInv(s)'
<1>1. /\ at'[s] = step /\ ans'[s] = "none"
      /\ wire' \subseteq wire \cup {[search |-> s, step |-> step]}
  BY DEF Moved, RInv, TypeOK
<1>2. HandleInv(s) /\ trouble[s] \subseteq trouble'[s]
  BY DEF RInv
<1>3. step # "begin" /\ step \notin OpeningCalls
  BY DEF WorkCalls, CleanupCalls, OpeningCalls
<1>4. ASSUME NEW o \in OpeningCalls, [search |-> s, step |-> o] \in wire'
      PROVE  Failed(s, "opening")'
  <2>1. [search |-> s, step |-> o] \in wire
    BY <1>1, <1>3, <1>4
  <2>2. at[s] = o \/ Failed(s, "opening")
    BY <1>2, <2>1 DEF HandleInv
  <2>3. CASE Failed(s, "opening")
    BY <1>2, <2>3 DEF Failed
  <2>4. CASE at[s] = o
    BY <1>2, <2>1, <2>4 DEF HandleInv
  <2>. QED
    BY <2>2, <2>3, <2>4
<1>5. step = "over" => s \notin alive' \/ Failed(s, "opening")' \/ Failed(s, "cleanup")'
  <2>1. CASE at[s] \in Last /\ ans[s] = "ok"
    BY <1>2, <2>1 DEF HandleInv, Failed
  <2>. QED
    BY <2>1
<1>. QED
  BY <1>1, <1>3, <1>4, <1>5 DEF HandleInv

\* The device, and the loss of a request, take one off the wire.
LEMMA HandleDevice ==
  ASSUME RInv, NEW s \in Searches, NEW r \in wire, wire' = wire \ {r},
         UNCHANGED <<at, trouble>>,
         \/ CarryOut(r) /\ \E a \in {"ok", "error"} : Answer(r, a)
         \/ Answer(r, "error") /\ UNCHANGED alive
         \/ UNCHANGED <<ans, alive>>
  PROVE  HandleInv(s)'
<1>1. /\ HandleInv(s) /\ r.search \in Searches /\ r.step \in Steps
      /\ r = [search |-> r.search, step |-> r.step]
  BY DEF RInv, TypeOK, Request
<1>2. ans'[s] = ans[s] \/ (r.search = s /\ r.step = at[s] /\ ans[s] = "none")
  BY <1>1 DEF Answer, RInv, TypeOK
<1>3. \/ s \in alive' => s \in alive
      \/ r.search = s /\ r.step \in OpeningCalls
  BY <1>1 DEF CarryOut, OpeningCalls
<1>4. (r.search = s /\ r.step \in Last) => s \notin alive' \/ ans'[s] # "ok" \/ ans'[s] = ans[s]
  BY <1>1 DEF CarryOut, Last, Answer, RInv, TypeOK
<1>5. ans'[s] # "none" => [search |-> s, step |-> at[s]] \notin wire'
  BY <1>1, <1>2 DEF HandleInv
<1>6. (at[s] \in Last /\ ans'[s] = "ok") => s \notin alive' \/ Failed(s, "opening")
  <2>1. SUFFICES ASSUME at[s] \in Last, ans'[s] = "ok", s \in alive'
                 PROVE  Failed(s, "opening")
    OBVIOUS
  <2>2. at[s] \notin OpeningCalls
    BY <2>1 DEF Last, OpeningCalls
  <2>3. ans'[s] = ans[s]
    BY <1>2, <1>4, <2>1
  <2>4. CASE s \in alive
    BY <1>1, <2>1, <2>3, <2>4 DEF HandleInv
  <2>5. CASE r.search = s /\ r.step \in OpeningCalls
    BY <1>1, <2>2, <2>5 DEF HandleInv
  <2>. QED
    BY <1>3, <2>1, <2>4, <2>5
<1>7. at[s] = "over" => s \notin alive' \/ Failed(s, "opening") \/ Failed(s, "cleanup")
  <2>1. CASE r.search = s /\ r.step \in OpeningCalls
    BY <1>1, <2>1 DEF HandleInv, OpeningCalls
  <2>. QED
    BY <1>1, <1>3, <2>1 DEF HandleInv
<1>. QED
  BY <1>1, <1>5, <1>6, <1>7 DEF HandleInv, Failed

LEMMA HandleStep == RInv /\ [Next]_vars => RInv'
<1>. SUFFICES ASSUME RInv, [Next]_vars, NEW s \in Searches PROVE HandleInv(s)'
  BY TypeStep DEF RInv
<1>0. TypeOK /\ TypeOK' /\ HandleInv(s)
  BY TypeStep DEF RInv
<1>1. ASSUME NEW t \in Tasks, NEW u \in Searches, NEW k \in Kinds, SearchStarts(t, u, k)
      PROVE  HandleInv(s)'
  <2>1. /\ at[u] = "begin" /\ at' = [at EXCEPT ![u] = Opening(k)]
        /\ ans' = [ans EXCEPT ![u] = "none"]
        /\ wire' = wire \cup {[search |-> u, step |-> Opening(k)]}
        /\ UNCHANGED <<alive, trouble>>
    BY <1>1 DEF SearchStarts, GoTo, deviceVars, Opening
  <2>2. CASE u = s
    BY <1>0, <2>1, <2>2 DEF HandleInv, TypeOK, Opening, Failed, Last
  <2>3. CASE u # s
    BY <1>0, <2>1, <2>3, HandleFrame DEF TypeOK
  <2>. QED
    BY <2>2, <2>3
<1>2. ASSUME NEW u \in Searches, CallSucceeds(u) PROVE HandleInv(s)'
  <2>1. /\ at[u] \in Steps /\ ans[u] = "ok" /\ Moved(u, After(at[u]), failure[u])
        /\ UNCHANGED <<alive, trouble>>
        /\ After(at[u]) \in WorkCalls \cup CleanupCalls \cup {"over"}
        /\ After(at[u]) = "over" <=> at[u] \in Last
    BY <1>0, <1>2, SucceedsMoves, AfterType DEF Last
  <2>2. CASE u = s
    BY <2>1, <2>2, HandleMoves
  <2>3. CASE u # s
    BY <1>0, <2>1, <2>3, HandleFrame DEF Moved, TypeOK
  <2>. QED
    BY <2>2, <2>3
<1>3. ASSUME NEW u \in Searches, NEW why \in Failures, Awaits(u), Raises(u, why)
      PROVE  HandleInv(s)'
  <2>. DEFINE step == AfterFailure(u, why)
              exception == IF Part(at[u]) = "cleanup" THEN AfterCleanupFailure(u, why) ELSE why
  <2>1. /\ at[u] \in Steps /\ Moved(u, step, exception)
        /\ trouble' = [trouble EXCEPT ![u] = @ \cup {Part(at[u])}]
        /\ UNCHANGED alive
        /\ step \in CleanupCalls \cup {"over"}
    BY <1>0, <1>3, RaisesMoves
  <2>2. step = "over" => Part(at[u]) \in {"opening", "cleanup"}
    BY <2>1, AfterType DEF AfterFailure, Part, CleanupCalls
  <2>3. CASE u = s
    <3>1. at[s] \in OpeningCalls => Part(at[s]) = "opening"
      BY DEF Part, OpeningCalls, WorkCalls
    <3>2. trouble'[s] = trouble[s] \cup {Part(at[s])}
      BY <1>0, <2>1, <2>3 DEF TypeOK
    <3>3. at[s] \in OpeningCalls => Failed(s, "opening")'
      BY <3>1, <3>2 DEF Failed
    <3>4. step = "over" => Failed(s, "opening")' \/ Failed(s, "cleanup")'
      BY <2>2, <2>3, <3>2 DEF Failed
    <3>. HIDE DEF step, exception
    <3>. QED
      BY <2>1, <2>3, <3>2, <3>3, <3>4, HandleMoves
  <2>4. CASE u # s
    <3>. HIDE DEF step, exception
    <3>. QED
      BY <1>0, <2>1, <2>4, HandleFrame DEF Moved, TypeOK
  <2>. QED
    BY <2>3, <2>4
<1>4. ASSUME NEW r \in wire,
             DeviceCarriesOut(r) \/ DeviceRefuses(r) \/ RequestLost(r)
      PROVE  HandleInv(s)'
  BY <1>4, HandleDevice
     DEF DeviceCarriesOut, DeviceRefuses, RequestLost, clientVars, deviceVars
<1>5. CASE UNCHANGED vars
  BY <1>0, <1>5 DEF vars, clientVars, deviceVars, HandleInv, Failed
<1>. QED
  BY <1>1, <1>2, <1>3, <1>4, <1>5
     DEF Next, SearchStep, CallRefused, CallAbandoned, Failures

\* The device keeps a handle of a search that is over only if the call that
\* opened it was abandoned or a call of the finally block did not succeed,
\* however late and in whatever order it processes abandoned requests.
THEOREM Returned == Spec => []HandlesReturned
<1>1. Init => RInv
  <2>1. ASSUME Init, NEW s \in Searches PROVE HandleInv(s)
    BY <2>1 DEF Init, HandleInv, Last
  <2>. QED
    BY <2>1, TypeInit DEF RInv
<1>2. RInv => HandlesReturned
  <2>1. ASSUME RInv, NEW s \in alive, Over(s)
        PROVE  trouble[s] \cap {"opening", "cleanup"} # {}
    <3>1. HandleInv(s)
      BY <2>1 DEF RInv, TypeOK
    <3>. QED
      BY <2>1, <3>1 DEF HandleInv, Failed, Over
  <2>. QED
    BY <2>1 DEF HandlesReturned
<1>. QED
  BY <1>1, <1>2, HandleStep, PTL DEF Spec

-----------------------------------------------------------------------------
(* The search implements the lease of a handle.                            *)

\* The phase of a search, as a function.
PhaseOf == [s \in Searches |-> Phase(s)]

\* A search that moves changes no phase but its own.
LEMMA PhaseMoves ==
  ASSUME TypeOK, NEW s \in Searches, NEW step \in Steps \cup {"over"},
         at' = [at EXCEPT ![s] = step]
  PROVE  PhaseOf' = [PhaseOf EXCEPT ![s] = Phase(s)']
<1>1. \A u \in Searches : u # s => Phase(u)' = Phase(u)
  BY DEF TypeOK, Phase
<1>. QED
  BY <1>1 DEF PhaseOf

\* The last call of a search, or a cancelled one, makes it report.
LEMMA MovedReports ==
  ASSUME TypeOK, NEW s \in Searches, NEW o \in Failures \cup {"none"}, Moved(s, "over", o)
  PROVE  Lease!Reports(s, IF o = "none" THEN "ok" ELSE o)
BY DEF Moved, Ends, Lease!Reports, TypeOK, Failures, AllFaults

LEMMA SucceedsStep ==
  ASSUME TypeOK, NEW s \in Searches, CallSucceeds(s)
  PROVE  Lease!Next \/ UNCHANGED Lease!vars
<1>. DEFINE step == After(at[s])
<1>1. /\ at[s] \in Steps /\ Moved(s, step, failure[s])
      /\ step \in Steps \cup {"over"}
      /\ at' = [at EXCEPT ![s] = step] /\ at'[s] = step
      /\ failure' = failure
  BY SucceedsMoves, AfterType DEF Moved, Steps, TypeOK
<1>2. PhaseOf' = [PhaseOf EXCEPT ![s] = Phase(s)'] /\ PhaseOf[s] = Phase(s)
  BY <1>1, PhaseMoves DEF PhaseOf
<1>3. step # "over" => UNCHANGED <<result, failure>>
  BY <1>1 DEF Moved
<1>4. failure[s] \in Failures \cup {"none"} /\ failure' = [failure EXCEPT ![s] = failure[s]]
  BY <1>1 DEF TypeOK, Failures
<1>. USE DEF PhaseOf
<1>5. CASE at[s] \in OpeningCalls
  <2>1. step \in WorkCalls
    BY <1>5 DEF OpeningCalls, WorkCalls, After
  <2>2. Phase(s) = "opening" /\ Phase(s)' = "using"
    BY <1>1, <1>5, <2>1 DEF Phase, OpeningCalls, WorkCalls
  <2>3. Lease!Opens(s)
    BY <1>2, <1>3, <2>1, <2>2 DEF Lease!Opens, Lease!Moves, WorkCalls
  <2>. QED
    BY <2>3 DEF Lease!Next
<1>6. CASE at[s] = "findFile"
  <2>1. step = "findNextFile"
    BY <1>6 DEF After
  <2>2. Phase(s) = "using" /\ Phase(s)' = "using"
    BY <1>1, <1>6, <2>1 DEF Phase, OpeningCalls, WorkCalls
  <2>. QED
    BY <1>2, <1>3, <2>1, <2>2 DEF Lease!vars
<1>7. CASE at[s] \in {"findNextFile", "doFind"}
  <2>1. step \in {"close", "stopFind"}
    BY <1>7 DEF After
  <2>2. Phase(s) = "using" /\ Phase(s)' \in {"closing", "returning"}
    BY <1>1, <1>7, <2>1 DEF Phase, OpeningCalls, WorkCalls
  <2>3. Lease!Used(s, failure[s])
    BY <1>2, <1>3, <1>4, <2>1, <2>2 DEF Lease!Used, Lease!Moves
  <2>. QED
    BY <1>4, <2>3 DEF Lease!Next, Failures
<1>8. CASE at[s] = "close"
  <2>1. step = "destroy"
    BY <1>8 DEF After
  <2>2. Phase(s) = "closing" /\ Phase(s)' = "returning"
    BY <1>1, <1>8, <2>1 DEF Phase, OpeningCalls, WorkCalls
  <2>3. Lease!Closed(s)
    BY <1>2, <1>3, <2>1, <2>2 DEF Lease!Closed, Lease!Moves
  <2>. QED
    BY <2>3 DEF Lease!Next
<1>9. CASE at[s] \in Last
  <2>1. step = "over"
    BY <1>9 DEF After, Last
  <2>2. Phase(s) = "returning" /\ Phase(s)' = "over"
    BY <1>1, <1>9, <2>1 DEF Phase, OpeningCalls, WorkCalls, Last
  <2>3. Lease!Reports(s, IF failure[s] = "none" THEN "ok" ELSE failure[s])
    BY <1>1, <1>4, <2>1, MovedReports
  <2>4. Lease!Returned(s)
    BY <1>2, <2>2, <2>3 DEF Lease!Returned, Lease!Moves
  <2>. QED
    BY <2>4 DEF Lease!Next
<1>. QED
  BY <1>1, <1>5, <1>6, <1>7, <1>8, <1>9
     DEF Steps, OpeningCalls, WorkCalls, CleanupCalls, Last

LEMMA RaisesStep ==
  ASSUME TypeOK, NEW s \in Searches, NEW why \in Failures, Awaits(s), Raises(s, why)
  PROVE  Lease!Next
<1>. DEFINE step == AfterFailure(s, why)
            exception == IF Part(at[s]) = "cleanup" THEN AfterCleanupFailure(s, why) ELSE why
<1>1. /\ at[s] \in Steps /\ Moved(s, step, exception)
      /\ step \in Steps \cup {"over"}
      /\ exception \in Failures \cup {"none"}
  BY RaisesMoves DEF Steps
<1>2. /\ at' = [at EXCEPT ![s] = step] /\ at'[s] = step
      /\ failure' = [failure EXCEPT ![s] = exception]
      /\ step # "over" => UNCHANGED result
  BY <1>1 DEF Moved, TypeOK
<1>3. PhaseOf' = [PhaseOf EXCEPT ![s] = Phase(s)'] /\ PhaseOf[s] = Phase(s)
  BY <1>1, <1>2, PhaseMoves DEF PhaseOf
<1>4. why \notin {"none", "ok"}
  BY DEF Failures, AllFaults
<1>5. step = "over" => Lease!Reports(s, IF exception = "none" THEN "ok" ELSE exception)
  BY <1>1, MovedReports
<1>. USE DEF PhaseOf
<1>6. CASE at[s] \in OpeningCalls
  <2>1. step = "over" /\ exception = why
    BY <1>6 DEF AfterFailure, Part, OpeningCalls, WorkCalls
  <2>2. Phase(s) = "opening" /\ Phase(s)' = "over"
    BY <1>2, <1>6, <2>1 DEF Phase, OpeningCalls, WorkCalls
  <2>3. Lease!OpenFails(s, why)
    BY <1>3, <1>4, <1>5, <2>1, <2>2 DEF Lease!OpenFails, Lease!Moves
  <2>. QED
    BY <2>3 DEF Lease!Next, Failures
<1>7. CASE at[s] \in WorkCalls
  <2>1. step \in {"close", "stopFind"} /\ exception = why
    BY <1>7 DEF AfterFailure, Part, FirstCleanup, OpeningCalls, WorkCalls
  <2>2. Phase(s) = "using" /\ Phase(s)' \in {"closing", "returning"}
    BY <1>2, <1>7, <2>1 DEF Phase, OpeningCalls, WorkCalls
  <2>3. Lease!Used(s, why)
    BY <1>2, <1>3, <2>1, <2>2 DEF Lease!Used, Lease!Moves
  <2>. QED
    BY <2>3 DEF Lease!Next, Failures
<1>8. CASE at[s] \in CleanupCalls /\ why = "cancelled"
  <2>1. step = "over" /\ exception = "cancelled"
    BY <1>8 DEF AfterFailure, AfterCleanupFailure, Part, OpeningCalls, WorkCalls, CleanupCalls
  <2>2. Phase(s) \in {"closing", "returning"} /\ Phase(s)' = "over"
    BY <1>2, <1>8, <2>1 DEF Phase, OpeningCalls, WorkCalls, CleanupCalls
  <2>3. Lease!Cancelled(s)
    BY <1>3, <1>5, <2>1, <2>2 DEF Lease!Cancelled, Lease!Moves
  <2>. QED
    BY <2>3 DEF Lease!Next
<1>9. CASE at[s] = "close" /\ why # "cancelled"
  <2>1. step = "destroy" /\ exception = failure[s]
    BY <1>9 DEF AfterFailure, AfterCleanupFailure, Part, After, OpeningCalls, WorkCalls
  <2>2. Phase(s) = "closing" /\ Phase(s)' = "returning"
    BY <1>2, <1>9, <2>1 DEF Phase, OpeningCalls, WorkCalls
  <2>3. UNCHANGED <<failure, result>>
    BY <1>2, <2>1 DEF TypeOK
  <2>4. Lease!Closed(s)
    BY <1>3, <2>2, <2>3 DEF Lease!Closed, Lease!Moves
  <2>. QED
    BY <2>4 DEF Lease!Next
<1>10. CASE at[s] \in Last /\ why # "cancelled"
  <2>1. step = "over" /\ exception = failure[s]
    BY <1>10 DEF AfterFailure, AfterCleanupFailure, Part, After, OpeningCalls, WorkCalls, Last
  <2>2. Phase(s) = "returning" /\ Phase(s)' = "over"
    BY <1>2, <1>10, <2>1 DEF Phase, OpeningCalls, WorkCalls, Last
  <2>3. Lease!Returned(s)
    BY <1>3, <1>5, <2>1, <2>2 DEF Lease!Returned, Lease!Moves
  <2>. QED
    BY <2>3 DEF Lease!Next
<1>. QED
  BY <1>1, <1>6, <1>7, <1>8, <1>9, <1>10
     DEF Steps, OpeningCalls, WorkCalls, CleanupCalls, Last

LEMMA LeaseStep == TypeOK /\ [Next]_vars => [Lease!Next]_(Lease!vars)
<1>. SUFFICES ASSUME TypeOK, [Next]_vars PROVE Lease!Next \/ UNCHANGED Lease!vars
  OBVIOUS
<1>1. ASSUME NEW t \in Tasks, NEW s \in Searches, NEW k \in Kinds, SearchStarts(t, s, k)
      PROVE  Lease!Next
  <2>1. /\ at[s] = "begin" /\ at' = [at EXCEPT ![s] = Opening(k)]
        /\ UNCHANGED <<failure, result>>
        /\ Opening(k) \in OpeningCalls
    BY <1>1 DEF SearchStarts, GoTo, Opening, OpeningCalls
  <2>2. Phase(s) = "begin" /\ Phase(s)' = "opening"
    BY <2>1 DEF Phase, TypeOK, OpeningCalls, WorkCalls
  <2>3. PhaseOf' = [PhaseOf EXCEPT ![s] = Phase(s)'] /\ PhaseOf[s] = Phase(s)
    BY <2>1, PhaseMoves DEF PhaseOf, Steps
  <2>4. Lease!Begins(s)
    BY <2>1, <2>2, <2>3 DEF Lease!Begins, Lease!Moves, PhaseOf
  <2>. QED
    BY <2>4 DEF Lease!Next
<1>2. ASSUME UNCHANGED <<at, failure, result>> PROVE UNCHANGED Lease!vars
  BY <1>2 DEF Lease!vars, Phase
<1>3. ASSUME NEW r \in wire, DeviceCarriesOut(r) \/ DeviceRefuses(r) \/ RequestLost(r)
      PROVE  UNCHANGED Lease!vars
  BY <1>2, <1>3 DEF DeviceCarriesOut, DeviceRefuses, RequestLost, clientVars
<1>4. CASE UNCHANGED vars
  BY <1>2, <1>4 DEF vars, clientVars
<1>. QED
  BY <1>1, <1>3, <1>4, SucceedsStep, RaisesStep
     DEF Next, SearchStep, CallRefused, CallAbandoned, Failures

\* For any number of tasks, searches and handles, and whatever the network and
\* the device do to their requests, each search is a lease: it does not end
\* before it has sent the request that gives its handle back, and reports what
\* its use came to, a cancellation of the finally block excepted.
THEOREM ImplementsLease == Spec => KeepsLease
<1>1. Init => Lease!Init
  BY DEF Init, Lease!Init, Phase, OpeningCalls, WorkCalls
<1>. QED
  BY <1>1, TypeInit, TypeStep, LeaseStep, PTL DEF Spec, KeepsLease, Lease!Spec

=============================================================================
