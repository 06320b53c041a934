--------------------------- MODULE DeviceOpsProofs ---------------------------
(***************************************************************************)
(* Theorems about DeviceOps, for every number of calls and of rules.       *)
(***************************************************************************)
EXTENDS DeviceOps, TLAPS

\* The requests an operation makes.
StepsOf(o) ==
  CASE o = "motion"                            -> {"probe", "legacy"}
    [] o \in Writes                            -> {"write"}
    [] o = "all rules"                         -> {"read", "write"}
    [] o \in {"getter", "reader", "snapshot"}  -> {"read"}

\* The call awaits a request its operation makes.  A read, the first request of
\* a call that makes one, has nothing to set.
StepsAreOfOp ==
  \A c \in Calls :
    /\ pc[c] \in Steps => op[c] \in Ops /\ pc[c] \in StepsOf(op[c])
    /\ pc[c] = "read" => target[c] = {}

\* What a call has set is what it is about, or nothing.
AppliedWhole == \A c \in Calls : applied[c] \in {{}, target[c]}

\* A request is one its call made: it sets something, unless it is a read.
WireHasSender ==
  \A m \in wire : /\ pc[m.call] # "unborn"
                  /\ m.step # "read" => target[m.call] # {}

\* A call that has not begun has set nothing.
UnbornIsIdle == \A c \in Calls : pc[c] = "unborn" => applied[c] = {}

\* The inductive invariant.
IInv ==
  /\ TypeOK
  /\ StepsAreOfOp
  /\ AppliedWhole
  /\ UnbornIsIdle
  /\ WireHasSender
  /\ AcknowledgedIsApplied
  /\ OfflineIsNoAnswer
  /\ NothingLeftBehind

-----------------------------------------------------------------------------
(* What a call does with what it got.                                      *)

Lost == {"DahuaTimeoutError", "DahuaConnectionError", "CancelledError"}

LEMMA ExceptionValues ==
  /\ Exceptions = ResponseErrors \cup Lost
  /\ \A f \in Faults \ {"garbled"} : FaultVerdict(f) \in Lost
  /\ FaultVerdict("garbled") \in ResponseErrors
  /\ ResponseErrors \cap Lost = {}
<1>1. /\ FaultVerdict("timeout") = "DahuaTimeoutError"
      /\ FaultVerdict("dropped") = "DahuaConnectionError"
      /\ FaultVerdict("cancelled") = "CancelledError"
      /\ FaultVerdict("garbled") = "DahuaResponseError"
  BY DEF FaultVerdict
<1>. QED
  BY <1>1 DEF Exceptions, ResponseErrors, Faults, Lost

\* A verdict is "returned" or the exception of an error.
LEMMA VerdictValues ==
  ASSUME NEW c \in Calls, NEW r \in Response
  PROVE  Verdict(c, r) \in {"returned"} \cup ResponseErrors
BY DEF Verdict, TextVerdict, BytesVerdict, ResponseErrors

\* A refusal that passes the transport is no acknowledgement.
LEMMA RefusalIsNoOk ==
  ASSUME NEW c \in Calls, NEW step \in Steps, NEW r \in Refusals(step),
         Verdict(c, r) = "returned"
  PROVE  r \in Response /\ r.body # "OK"
<1>1. r \in Response /\ (r.status >= 400 \/ r.body # "OK")
  BY DEF Refusals
<1>2. r.status \in Statuses /\ r.body \in Bodies
  BY <1>1 DEF Response
<1>. QED
  BY <1>1, <1>2
     DEF Verdict, TextVerdict, BytesVerdict, Statuses, Bodies, IsErrorResponse,
         IsNotSupportedResponse

\* The call goes on with its second request.
GoesOn(c, others) ==
  \/ /\ pc[c] = "probe"
     /\ Sends(c, "legacy", others)
     /\ UNCHANGED target
  \/ /\ pc[c] = "read" /\ op[c] = "all rules"
     /\ \E listed \in (SUBSET Settings) \ {{}} : target' = [target EXCEPT ![c] = listed]
     /\ Sends(c, "write", others)

\* The call ends.
Finishes(c, outcome, others) ==
  /\ Ends(c, outcome, others)
  /\ UNCHANGED target

\* Reading the section leads to a write of the rules it lists, or to the end.
LEMMA RulesReadMoves ==
  ASSUME IInv, NEW c \in Calls, NEW listed \in SUBSET Settings, NEW others,
         pc[c] = "read", op[c] = "all rules", RulesRead(c, listed, others)
  PROVE  GoesOn(c, others) \/ Finishes(c, "none", others)
<1>1. CASE listed = {}
  <2>1. target[c] = {} /\ target \in [Calls -> SUBSET Settings]
    BY DEF IInv, TypeOK, StepsAreOfOp
  <2>2. target' = target
    BY <1>1, <2>1 DEF RulesRead
  <2>. QED
    BY <1>1, <2>2 DEF RulesRead, Finishes
<1>2. CASE listed # {}
  BY <1>2 DEF RulesRead, GoesOn
<1>. QED
  BY <1>1, <1>2

\* A body that passed the transport: only "OK" is taken for an acknowledgement.
LEMMA ReturnedMoves ==
  ASSUME IInv, NEW c \in Calls, pc[c] \in Steps, NEW body, NEW others,
         Returned(c, body, others)
  PROVE  \/ GoesOn(c, others)
         \/ \E e \in Outcomes \ {"pending"} :
              Finishes(c, e, others) /\ (e = "acknowledged" => body = "OK")
<1>1. CASE op[c] = "all rules" /\ pc[c] = "read"
           /\ RulesRead(c, {<<"rule", i>> : i \in {j \in rules : j < RulesTried}}, others)
  <2>1. {<<"rule", i>> : i \in {j \in rules : j < RulesTried}} \in SUBSET Settings
    BY DEF IInv, TypeOK, Settings
  <2>2. GoesOn(c, others) \/ Finishes(c, "none", others)
    BY <1>1, <2>1, RulesReadMoves
  <2>. QED
    BY <2>2 DEF Outcomes
<1>2. ASSUME NEW e \in {"acknowledged", "DahuaResponseError", "refused", "data"},
             Ends(c, e, others), e = "acknowledged" => body = "OK", UNCHANGED target
      PROVE  \E x \in Outcomes \ {"pending"} :
               Finishes(c, x, others) /\ (x = "acknowledged" => body = "OK")
  BY <1>2, ExceptionValues DEF Outcomes, Finishes, ResponseErrors
<1>3. CASE op[c] \in Verified /\ pc[c] = "write" /\ UNCHANGED target
           /\ Ends(c, IF VerifiedOk(body) THEN "acknowledged" ELSE "DahuaResponseError",
                   others)
  BY <1>2, <1>3 DEF VerifiedOk
<1>4. CASE op[c] \in {"config", "overlay"} /\ UNCHANGED target
           /\ Ends(c, IF body = "OK" THEN "acknowledged" ELSE "refused", others)
  BY <1>2, <1>4
<1>5. CASE pc[c] = "probe" /\ UNCHANGED target
           /\ IF body = "OK" THEN Ends(c, "acknowledged", others)
                             ELSE Sends(c, "legacy", others)
  BY <1>2, <1>5 DEF GoesOn
<1>6. CASE pc[c] = "legacy" /\ UNCHANGED target
           /\ Ends(c, IF body = "OK" THEN "acknowledged" ELSE "data", others)
  BY <1>2, <1>6
<1>7. CASE op[c] \in {"setter", "getter", "reader", "snapshot"} /\ UNCHANGED target
           /\ Ends(c, "data", others)
  BY <1>2, <1>7
<1>. QED
  BY <1>1, <1>3, <1>4, <1>5, <1>6, <1>7 DEF Returned

\* An exception: one that is no error of the device ends the call with it, and
\* none becomes an acknowledgement.
LEMMA RaisedMoves ==
  ASSUME IInv, NEW c \in Calls, pc[c] \in Steps, NEW e \in Exceptions, NEW others,
         Raised(c, e, others)
  PROVE  /\ \/ GoesOn(c, others)
            \/ \E x \in Outcomes \ {"pending", "acknowledged"} : Finishes(c, x, others)
         /\ e \in Lost => Finishes(c, e, others)
<1>1. e \in Outcomes \ {"pending", "acknowledged"}
  BY ExceptionValues DEF Outcomes, ResponseErrors, Lost
<1>2. e \in Lost => e \notin ResponseErrors
  BY ExceptionValues
<1>3. CASE pc[c] = "probe" /\ e \in ProbeRejected /\ Sends(c, "legacy", others)
           /\ UNCHANGED target
  BY <1>2, <1>3 DEF GoesOn, ProbeRejected
<1>4. CASE op[c] = "getter" /\ e \in ResponseErrors /\ Ends(c, "default", others)
           /\ UNCHANGED target
  <2>1. "default" \in Outcomes \ {"pending", "acknowledged"}
    BY DEF Outcomes
  <2>. QED
    BY <1>2, <1>4, <2>1 DEF Finishes
<1>5. CASE op[c] = "all rules" /\ pc[c] = "read" /\ e \in ResponseErrors
           /\ RulesRead(c, {}, others)
  <2>1. GoesOn(c, others) \/ Finishes(c, "none", others)
    BY <1>5, RulesReadMoves
  <2>2. "none" \in Outcomes \ {"pending", "acknowledged"}
    BY DEF Outcomes
  <2>. QED
    BY <1>2, <1>5, <2>1, <2>2
<1>6. CASE Ends(c, e, others) /\ UNCHANGED target
  BY <1>1, <1>6 DEF Finishes
<1>. QED
  BY <1>3, <1>4, <1>5, <1>6 DEF Raised

\* A request that was dealt with: its call moves on, or nobody awaits it.
LEMMA ReportedMoves ==
  ASSUME IInv, NEW m \in wire, NEW responses \in SUBSET Response, Reported(m, responses)
  PROVE  \/ /\ pc[m.call] = m.step
            /\ answered' = [answered EXCEPT ![m.call] = TRUE]
            /\ \/ GoesOn(m.call, wire \ {m})
               \/ \E e \in Outcomes \ {"pending"} :
                    /\ Finishes(m.call, e, wire \ {m})
                    /\ e = "acknowledged" =>
                         \E r \in responses : Verdict(m.call, r) = "returned" /\ r.body = "OK"
         \/ wire' = wire \ {m} /\ UNCHANGED <<target, pc, result, answered>>
<1>0. m.call \in Calls /\ m.step \in Steps
  BY DEF IInv, TypeOK
<1>1. ASSUME pc[m.call] = m.step, NEW r \in responses, Answered(m.call, r, wire \ {m})
      PROVE  \/ GoesOn(m.call, wire \ {m})
             \/ \E e \in Outcomes \ {"pending"} :
                  /\ Finishes(m.call, e, wire \ {m})
                  /\ e = "acknowledged" => Verdict(m.call, r) = "returned" /\ r.body = "OK"
  <2>1. CASE Verdict(m.call, r) = "returned"
    <3>1. Returned(m.call, r.body, wire \ {m})
      BY <1>1, <2>1 DEF Answered
    <3>. QED
      BY <1>0, <1>1, <2>1, <3>1, ReturnedMoves
  <2>2. CASE Verdict(m.call, r) # "returned"
    <3>1. Raised(m.call, Verdict(m.call, r), wire \ {m})
      BY <1>1, <2>2 DEF Answered
    <3>2. Verdict(m.call, r) \in Exceptions
      BY <1>0, <2>2, VerdictValues, ExceptionValues
    <3>. QED
      BY <1>0, <1>1, <3>1, <3>2, RaisedMoves
  <2>. QED
    BY <2>1, <2>2
<1>2. ASSUME pc[m.call] = m.step, Raised(m.call, FaultVerdict("garbled"), wire \ {m})
      PROVE  \/ GoesOn(m.call, wire \ {m})
             \/ \E e \in Outcomes \ {"pending", "acknowledged"} :
                  Finishes(m.call, e, wire \ {m})
  BY <1>0, <1>2, RaisedMoves, ExceptionValues
<1>. QED
  BY <1>1, <1>2 DEF Reported

-----------------------------------------------------------------------------
(* What a move of a call keeps.                                            *)

\* The settings of c's call may be made, if it has any.
MayApply(c) ==
  \/ UNCHANGED applied
  \/ target[c] # {} /\ applied' = [applied EXCEPT ![c] = @ \cup target[c]]

LEMMA MayApplyFacts ==
  ASSUME IInv, NEW c \in Calls, MayApply(c)
  PROVE  /\ applied' \in [Calls -> SUBSET Settings]
         /\ target[c] = {} => applied' = applied
         /\ \A d \in Calls : applied'[d] \in {applied[d], target[d]}
         /\ \A d \in Calls : d # c => applied'[d] = applied[d]
BY DEF IInv, TypeOK, AppliedWhole, MayApply

\* A request of c that is still on its way, beside the one c awaits, cannot be:
\* the call would have ended.
LEMMA OneRequest ==
  ASSUME IInv, NEW c \in Calls, pc[c] \in Steps, NEW m \in wire, m.call = c
  PROVE  m = [call |-> c, step |-> pc[c]]
<1>1. result[c] = "pending"
  BY DEF IInv, TypeOK, Over, Steps
<1>2. m.step = pc[c]
  BY <1>1 DEF IInv, NothingLeftBehind
<1>. QED
  BY <1>2 DEF IInv, TypeOK

LEMMA GoesOnKeeps ==
  ASSUME IInv, NEW c \in Calls, pc[c] \in Steps,
         GoesOn(c, wire \ {[call |-> c, step |-> pc[c]]}),
         answered' = [answered EXCEPT ![c] = TRUE], MayApply(c), UNCHANGED <<op, rules>>
  PROVE  IInv'
<1> DEFINE others == wire \ {[call |-> c, step |-> pc[c]]}
           step   == IF pc[c] = "probe" THEN "legacy" ELSE "write"
<1>1. /\ pc' = [pc EXCEPT ![c] = step]
      /\ wire' = others \cup {[call |-> c, step |-> step]}
      /\ result' = result
      /\ step \in {"legacy", "write"}
  BY DEF GoesOn, Sends
<1>2. /\ target' \in [Calls -> SUBSET Settings]
      /\ target'[c] # {}
      /\ \A d \in Calls : d # c => target'[d] = target[d]
      /\ pc[c] # "read" => target' = target
      /\ pc[c] = "read" => target[c] = {} /\ op[c] = "all rules"
      /\ pc[c] # "read" => pc[c] = "probe"
  BY DEF GoesOn, IInv, TypeOK, StepsAreOfOp
<1>3. result[c] = "pending"
  BY DEF IInv, TypeOK, Over, Steps
<1>4. \A m \in others : m.call # c
  BY OneRequest
<1>5. /\ applied' \in [Calls -> SUBSET Settings]
      /\ target[c] = {} => applied' = applied
      /\ \A d \in Calls : applied'[d] \in {applied[d], target[d]}
      /\ \A d \in Calls : d # c => applied'[d] = applied[d]
  BY MayApplyFacts
<1>6. TypeOK'
  <2>1. /\ pc' \in [Calls -> Steps \cup {"unborn", "over"}]
        /\ wire' \subseteq [call : Calls, step : Steps]
        /\ answered' \in [Calls -> BOOLEAN]
    BY <1>1 DEF IInv, TypeOK, Steps
  <2>2. \A d \in Calls : pc'[d] \in {"probe", "legacy", "write"} => target'[d] # {}
    BY <1>1, <1>2 DEF IInv, TypeOK
  <2>3. \A d \in Calls : pc'[d] = "over" <=> result'[d] # "pending"
    BY <1>1, <1>3 DEF IInv, TypeOK, Over
  <2>. QED
    BY <1>1, <1>2, <1>5, <2>1, <2>2, <2>3 DEF IInv, TypeOK, Over
<1>7. StepsAreOfOp'
  <2>1. step \in StepsOf(op[c]) /\ op[c] \in Ops
    BY <1>2 DEF IInv, StepsAreOfOp, StepsOf, Writes, Ops, Reads
  <2>. QED
    BY <1>1, <1>2, <2>1 DEF IInv, TypeOK, StepsAreOfOp
<1>8. AppliedWhole'
  <2>1. ASSUME NEW d \in Calls PROVE applied'[d] \in {{}, target'[d]}
    <3>1. CASE target'[d] = target[d]
      BY <1>5, <3>1 DEF IInv, AppliedWhole
    <3>2. CASE target'[d] # target[d]
      <4>1. d = c /\ target[c] = {}
        BY <1>2, <3>2
      <4>. QED
        BY <1>5, <4>1 DEF IInv, AppliedWhole
    <3>. QED
      BY <3>1, <3>2
  <2>. QED
    BY <2>1 DEF AppliedWhole
<1>9. WireHasSender'
  <2>1. ASSUME NEW m \in wire' PROVE pc'[m.call] # "unborn" /\ (m.step # "read" => target'[m.call] # {})
    <3>1. CASE m.call = c
      BY <1>1, <1>2, <3>1 DEF IInv, TypeOK
    <3>2. CASE m.call # c
      <4>1. m \in wire /\ m.call \in Calls
        BY <1>1, <3>2 DEF IInv, TypeOK
      <4>. QED
        BY <1>1, <1>2, <3>2, <4>1 DEF IInv, TypeOK, WireHasSender
    <3>. QED
      BY <3>1, <3>2
  <2>. QED
    BY <2>1 DEF WireHasSender
<1>10. AcknowledgedIsApplied'
  <2>1. ASSUME NEW d \in Calls, result'[d] = "acknowledged"
        PROVE  applied'[d] = target'[d] /\ applied'[d] # {}
    <3>1. d # c /\ result[d] = "acknowledged"
      BY <1>1, <1>3, <2>1
    <3>. QED
      BY <1>2, <1>5, <3>1 DEF IInv, AcknowledgedIsApplied
  <2>. QED
    BY <2>1 DEF AcknowledgedIsApplied
<1>11. OfflineIsNoAnswer'
  BY <1>1 DEF IInv, TypeOK, OfflineIsNoAnswer
<1>12. NothingLeftBehind'
  <2>1. ASSUME NEW m \in wire', m.step # pc'[m.call]
        PROVE  result'[m.call] \in {"DahuaTimeoutError", "DahuaConnectionError", "CancelledError"}
    <3>1. m \in others /\ m.call # c /\ m.call \in Calls
      BY <1>1, <1>4, <2>1 DEF IInv, TypeOK
    <3>. QED
      BY <1>1, <2>1, <3>1 DEF IInv, TypeOK, NothingLeftBehind
  <2>. QED
    BY <2>1 DEF NothingLeftBehind
<1>13. UnbornIsIdle'
  BY <1>1, <1>5 DEF IInv, TypeOK, UnbornIsIdle
<1>. QED
  BY <1>6, <1>7, <1>8, <1>9, <1>10, <1>11, <1>12, <1>13 DEF IInv

LEMMA FinishesKeeps ==
  ASSUME IInv, NEW c \in Calls, pc[c] \in Steps, NEW e \in Outcomes \ {"pending"},
         NEW others \in SUBSET wire, NEW a \in BOOLEAN,
         Finishes(c, e, others), answered' = [answered EXCEPT ![c] = a],
         MayApply(c), UNCHANGED <<op, rules>>,
         e = "acknowledged" => applied'[c] = target[c] /\ target[c] # {},
         e \notin Exceptions => a,
         e \in Lost \/ others = wire \ {[call |-> c, step |-> pc[c]]}
  PROVE  IInv'
<1>1. /\ pc' = [pc EXCEPT ![c] = "over"]
      /\ result' = [result EXCEPT ![c] = e]
      /\ wire' = others
      /\ target' = target
  BY DEF Finishes, Ends
<1>2. /\ applied' \in [Calls -> SUBSET Settings]
      /\ \A d \in Calls : applied'[d] \in {applied[d], target[d]}
      /\ \A d \in Calls : d # c => applied'[d] = applied[d]
  BY MayApplyFacts
<1>3. TypeOK'
  <2>1. /\ pc' \in [Calls -> Steps \cup {"unborn", "over"}]
        /\ result' \in [Calls -> Outcomes]
        /\ wire' \subseteq [call : Calls, step : Steps]
        /\ answered' \in [Calls -> BOOLEAN]
    BY <1>1 DEF IInv, TypeOK
  <2>2. \A d \in Calls : pc'[d] \in {"probe", "legacy", "write"} => target'[d] # {}
    BY <1>1 DEF IInv, TypeOK
  <2>3. \A d \in Calls : pc'[d] = "over" <=> result'[d] # "pending"
    BY <1>1 DEF IInv, TypeOK, Over
  <2>. QED
    BY <1>1, <1>2, <2>1, <2>2, <2>3 DEF IInv, TypeOK, Over
<1>4. StepsAreOfOp'
  BY <1>1 DEF IInv, TypeOK, StepsAreOfOp, Steps
<1>5. AppliedWhole'
  BY <1>1, <1>2 DEF IInv, AppliedWhole
<1>6. WireHasSender'
  BY <1>1 DEF IInv, TypeOK, WireHasSender
<1>7. AcknowledgedIsApplied'
  BY <1>1, <1>2 DEF IInv, TypeOK, AcknowledgedIsApplied
<1>8. OfflineIsNoAnswer'
  BY <1>1 DEF IInv, TypeOK, OfflineIsNoAnswer
<1>9. NothingLeftBehind'
  <2>1. ASSUME NEW m \in wire', m.step # pc'[m.call]
        PROVE  result'[m.call] \in {"DahuaTimeoutError", "DahuaConnectionError", "CancelledError"}
    <3>1. m \in wire /\ m \in others /\ m.call \in Calls
      BY <1>1 DEF IInv, TypeOK
    <3>2. CASE m.call = c
      <4>1. others # wire \ {[call |-> c, step |-> pc[c]]}
        BY <3>1, <3>2, OneRequest
      <4>. QED
        BY <1>1, <3>2, <4>1 DEF IInv, TypeOK, Lost
    <3>3. CASE m.call # c
      BY <1>1, <2>1, <3>1, <3>3 DEF IInv, TypeOK, NothingLeftBehind
    <3>. QED
      BY <3>2, <3>3
  <2>. QED
    BY <2>1 DEF NothingLeftBehind
<1>10. UnbornIsIdle'
  BY <1>1, <1>2 DEF IInv, TypeOK, UnbornIsIdle
<1>. QED
  BY <1>3, <1>4, <1>5, <1>6, <1>7, <1>8, <1>9, <1>10 DEF IInv

\* A request nobody awaits any more is dealt with.
LEMMA UnawaitedKeeps ==
  ASSUME IInv, NEW c \in Calls, pc[c] # "unborn", MayApply(c), wire' \subseteq wire,
         UNCHANGED <<op, target, pc, result, answered, rules>>
  PROVE  IInv'
<1>1. /\ applied' \in [Calls -> SUBSET Settings]
      /\ \A d \in Calls : applied'[d] \in {applied[d], target[d]}
  BY MayApplyFacts
<1>2. UnbornIsIdle'
  BY MayApplyFacts DEF IInv, UnbornIsIdle
<1>. QED
  BY <1>1, <1>2
     DEF IInv, TypeOK, StepsAreOfOp, AppliedWhole, WireHasSender, AcknowledgedIsApplied,
         OfflineIsNoAnswer, NothingLeftBehind, Over

-----------------------------------------------------------------------------
(* The steps.                                                              *)

\* A call that reads has nothing to write; every other one has.
LEMMA TargetsOfOps ==
  ASSUME NEW o \in Ops, NEW w \in Targets(o)
  PROVE  w \in SUBSET Settings /\ (w = {} <=> o \in Reads)
<1> DEFINE M == {{<<"motion", 0>>}}
           R == {{<<"rule", i>>} : i \in Rules}
           C == {{s} : s \in Settings}
           W == {{s, t} : s, t \in Settings}
           N == {{}}
<1>1. Targets(o) = CASE o = "motion"                -> M
                     [] o = "rule"                  -> R
                     [] o \in {"config", "overlay"} -> C
                     [] o = "setter"                -> W
                     [] o \in Reads                 -> N
  BY DEF Targets
<1>2. <<"motion", 0>> \in Settings /\ \A i \in Rules : <<"rule", i>> \in Settings
  BY DEF Settings
<1>3. \A x \in M : x \in SUBSET Settings /\ x # {}
  BY <1>2
<1>4. \A x \in R : x \in SUBSET Settings /\ x # {}
  BY <1>2
<1>5. \A x \in C : x \in SUBSET Settings /\ x # {}
  OBVIOUS
<1>6. \A x \in W : x \in SUBSET Settings /\ x # {}
  OBVIOUS
<1>7. \A x \in N : x = {}
  OBVIOUS
<1> HIDE DEF M, R, C, W, N
<1>8. CASE o \in Reads
  <2>1. Targets(o) = N
    BY <1>1, <1>8 DEF Reads
  <2>. QED
    BY <1>7, <1>8, <2>1
<1>9. CASE o \notin Reads
  <2>1. Targets(o) \in {M, R, C, W}
    BY <1>1, <1>9 DEF Ops, Writes, Reads
  <2>. QED
    BY <1>3, <1>4, <1>5, <1>6, <1>9, <2>1
<1>. QED
  BY <1>8, <1>9

LEMMA StartKeeps ==
  ASSUME IInv, NEW c \in Calls, OperationStarts(c)
  PROVE  IInv'
<1>0. PICK o \in Ops :
        /\ op' = [op EXCEPT ![c] = o]
        /\ \E s \in Targets(o) : target' = [target EXCEPT ![c] = s]
        /\ Sends(c, FirstStep(o), wire)
  BY DEF OperationStarts
<1>. PICK s \in Targets(o) : target' = [target EXCEPT ![c] = s]
  BY <1>0
<1>1. /\ op' = [op EXCEPT ![c] = o]
      /\ target' = [target EXCEPT ![c] = s]
      /\ pc' = [pc EXCEPT ![c] = FirstStep(o)]
      /\ wire' = wire \cup {[call |-> c, step |-> FirstStep(o)]}
      /\ UNCHANGED <<result, rules, answered, applied>>
  BY <1>0 DEF OperationStarts, Sends, deviceVars
<1>2. /\ FirstStep(o) \in StepsOf(o)
      /\ FirstStep(o) \in {"probe", "read", "write"}
      /\ FirstStep(o) = "read" => o \in Reads
  BY DEF FirstStep, StepsOf, Ops, Writes, Reads
<1>3. s \in SUBSET Settings /\ (s = {} <=> o \in Reads)
  BY TargetsOfOps
<1>4. pc[c] = "unborn" /\ result[c] = "pending" /\ \A m \in wire : m.call # c
  BY DEF OperationStarts, IInv, TypeOK, Over, WireHasSender
<1>5. s # {} <=> FirstStep(o) # "read"
  BY <1>3 DEF FirstStep, Ops, Writes, Reads
<1>6. TypeOK'
  <2>1. /\ op' \in [Calls -> Ops \cup {"none"}]
        /\ target' \in [Calls -> SUBSET Settings]
        /\ pc' \in [Calls -> Steps \cup {"unborn", "over"}]
        /\ wire' \subseteq [call : Calls, step : Steps]
    BY <1>1, <1>2, <1>3 DEF IInv, TypeOK, Steps
  <2>2. \A d \in Calls : pc'[d] \in {"probe", "legacy", "write"} => target'[d] # {}
    BY <1>1, <1>5 DEF IInv, TypeOK
  <2>3. \A d \in Calls : pc'[d] = "over" <=> result'[d] # "pending"
    BY <1>1, <1>2, <1>4 DEF IInv, TypeOK, Over
  <2>. QED
    BY <1>1, <2>1, <2>2, <2>3 DEF IInv, TypeOK, Over
<1>7. StepsAreOfOp'
  BY <1>1, <1>2, <1>5 DEF IInv, TypeOK, StepsAreOfOp
<1>8. applied[c] = {}
  BY <1>4 DEF IInv, UnbornIsIdle
<1>9. AppliedWhole'
  BY <1>1, <1>8 DEF IInv, TypeOK, AppliedWhole
<1>10. WireHasSender'
  <2>1. ASSUME NEW m \in wire'
        PROVE  pc'[m.call] # "unborn" /\ (m.step # "read" => target'[m.call] # {})
    <3>1. CASE m \in wire
      <4>1. m.call # c /\ m.call \in Calls
        BY <1>4, <3>1 DEF IInv, TypeOK
      <4>. QED
        BY <1>1, <3>1, <4>1 DEF IInv, TypeOK, WireHasSender
    <3>2. CASE m = [call |-> c, step |-> FirstStep(o)]
      BY <1>1, <1>2, <1>5, <3>2 DEF IInv, TypeOK
    <3>. QED
      BY <1>1, <3>1, <3>2
  <2>. QED
    BY <2>1 DEF WireHasSender
<1>11. AcknowledgedIsApplied'
  BY <1>1, <1>4 DEF IInv, TypeOK, AcknowledgedIsApplied
<1>12. OfflineIsNoAnswer'
  BY <1>1 DEF IInv, OfflineIsNoAnswer
<1>13. NothingLeftBehind'
  <2>1. ASSUME NEW m \in wire', m.step # pc'[m.call]
        PROVE  result'[m.call] \in {"DahuaTimeoutError", "DahuaConnectionError", "CancelledError"}
    <3>1. m \in wire /\ m.call # c
      BY <1>1, <1>4, <2>1 DEF IInv, TypeOK
    <3>. QED
      BY <1>1, <2>1, <3>1 DEF IInv, TypeOK, NothingLeftBehind
  <2>. QED
    BY <2>1 DEF NothingLeftBehind
<1>14. UnbornIsIdle'
  BY <1>1, <1>2 DEF IInv, TypeOK, UnbornIsIdle
<1>. QED
  BY <1>6, <1>7, <1>9, <1>10, <1>11, <1>12, <1>13, <1>14 DEF IInv

LEMMA AwaitFailsKeeps ==
  ASSUME IInv, NEW c \in Calls, AwaitFails(c)
  PROVE  IInv'
<1>1. PICK f \in Faults \ {"garbled"} : Raised(c, FaultVerdict(f), wire)
  BY DEF AwaitFails
<1>2. FaultVerdict(f) \in Lost \cap Exceptions
  BY ExceptionValues
<1>3. Finishes(c, FaultVerdict(f), wire)
  BY <1>1, <1>2, RaisedMoves DEF AwaitFails
<1>4. FaultVerdict(f) \in Outcomes \ {"pending", "acknowledged"}
  BY <1>2 DEF Outcomes, Lost
<1>. QED
  BY <1>2, <1>3, <1>4, FinishesKeeps DEF AwaitFails, MayApply, deviceVars

\* A request dealt with, by a device that may have made its settings.
LEMMA ReportedKeeps ==
  ASSUME IInv, NEW m \in wire, NEW responses \in SUBSET Response,
         Reported(m, responses), MayApply(m.call), UNCHANGED <<op, rules>>,
         \A r \in responses :
           Verdict(m.call, r) = "returned" /\ r.body = "OK" =>
             applied'[m.call] = target[m.call] /\ target[m.call] # {}
  PROVE  IInv'
<1> DEFINE c == m.call
<1>1. c \in Calls /\ m.step \in Steps /\ m = [call |-> c, step |-> m.step]
  BY DEF IInv, TypeOK
<1>2. CASE wire' = wire \ {m} /\ UNCHANGED <<target, pc, result, answered>>
  BY <1>1, <1>2, UnawaitedKeeps DEF IInv, WireHasSender
<1>3. ASSUME pc[c] = m.step, answered' = [answered EXCEPT ![c] = TRUE],
             GoesOn(c, wire \ {m})
      PROVE  IInv'
  BY <1>1, <1>3, GoesOnKeeps
<1>4. ASSUME pc[c] = m.step, answered' = [answered EXCEPT ![c] = TRUE],
             NEW e \in Outcomes \ {"pending"}, Finishes(c, e, wire \ {m}),
             e = "acknowledged" =>
               \E r \in responses : Verdict(c, r) = "returned" /\ r.body = "OK"
      PROVE  IInv'
  <2>1. e = "acknowledged" => applied'[c] = target[c] /\ target[c] # {}
    BY <1>4
  <2>2. wire \ {m} \in SUBSET wire /\ wire \ {m} = wire \ {[call |-> c, step |-> pc[c]]}
    BY <1>1, <1>4
  <2>. QED
    BY <1>1, <1>4, <2>1, <2>2, FinishesKeeps
<1>. QED
  BY <1>2, <1>3, <1>4, ReportedMoves

LEMMA CarriesOutKeeps ==
  ASSUME IInv, NEW m \in wire, DeviceCarriesOut(m)
  PROVE  IInv'
<1> DEFINE responses == {Success(m.step), [status |-> 500, body |-> "error"]}
<1>1. m.call \in Calls /\ m.step \in Steps
  BY DEF IInv, TypeOK
<1>2. responses \in SUBSET Response
  BY DEF Response, Success, Statuses, Bodies
<1>3. MayApply(m.call)
  BY DEF DeviceCarriesOut, MayApply, IInv, WireHasSender
<1>4. ASSUME NEW r \in responses, r.body = "OK"
      PROVE  applied'[m.call] = target[m.call] /\ target[m.call] # {}
  <2>1. m.step # "read"
    BY <1>4 DEF Success
  <2>2. applied'[m.call] = applied[m.call] \cup target[m.call]
    BY <1>1, <2>1 DEF DeviceCarriesOut, IInv, TypeOK
  <2>. QED
    BY <1>1, <2>1, <2>2 DEF IInv, AppliedWhole, WireHasSender
<1>. QED
  BY <1>2, <1>3, <1>4, ReportedKeeps DEF DeviceCarriesOut, deviceVars

LEMMA RefusesKeeps ==
  ASSUME IInv, NEW m \in wire, DeviceRefuses(m)
  PROVE  IInv'
<1>1. m.call \in Calls /\ m.step \in Steps
  BY DEF IInv, TypeOK
<1>2. Refusals(m.step) \in SUBSET Response
  BY DEF Refusals
<1>3. \A r \in Refusals(m.step) : Verdict(m.call, r) = "returned" => r.body # "OK"
  BY <1>1, RefusalIsNoOk
<1>. QED
  BY <1>2, <1>3, ReportedKeeps DEF DeviceRefuses, MayApply, deviceVars

-----------------------------------------------------------------------------
(* The theorems.                                                           *)

\* The inductive invariant holds in every reachable state.
THEOREM DeviceOpsInvariant == Spec => []IInv
<1>1. Init => IInv
  <2>1. ASSUME Init PROVE IInv
    <3>1. TypeOK
      BY <2>1 DEF Init, TypeOK, Outcomes, Over, Steps
    <3>2. StepsAreOfOp /\ AppliedWhole /\ UnbornIsIdle
      BY <2>1 DEF Init, StepsAreOfOp, AppliedWhole, UnbornIsIdle, Steps
    <3>3. WireHasSender /\ NothingLeftBehind
      BY <2>1 DEF Init, WireHasSender, NothingLeftBehind
    <3>4. AcknowledgedIsApplied /\ OfflineIsNoAnswer
      BY <2>1 DEF Init, AcknowledgedIsApplied, OfflineIsNoAnswer
    <3>. QED
      BY <3>1, <3>2, <3>3, <3>4 DEF IInv
  <2>. QED
    BY <2>1
<1>2. IInv /\ [Next]_vars => IInv'
  <2>. SUFFICES ASSUME IInv, [Next]_vars PROVE IInv'
    OBVIOUS
  <2>1. ASSUME NEW c \in Calls, OperationStarts(c) PROVE IInv'
    BY <2>1, StartKeeps
  <2>2. ASSUME NEW c \in Calls, AwaitFails(c) PROVE IInv'
    BY <2>2, AwaitFailsKeeps
  <2>3. ASSUME NEW m \in wire, DeviceCarriesOut(m) PROVE IInv'
    BY <2>3, CarriesOutKeeps
  <2>4. ASSUME NEW m \in wire, DeviceRefuses(m) PROVE IInv'
    BY <2>4, RefusesKeeps
  <2>5. CASE UNCHANGED vars
    BY <2>5
       DEF vars, deviceVars, IInv, TypeOK, StepsAreOfOp, AppliedWhole, UnbornIsIdle,
           WireHasSender, AcknowledgedIsApplied, OfflineIsNoAnswer, NothingLeftBehind, Over
  <2>. QED
    BY <2>1, <2>2, <2>3, <2>4, <2>5 DEF Next
<1>. QED
  BY <1>1, <1>2, PTL DEF Spec

\* Every variable keeps its type, and a write names what it writes.
THEOREM DeviceOpsTypes == Spec => []TypeOK
<1>1. IInv => TypeOK
  BY DEF IInv
<1>. QED
  BY <1>1, DeviceOpsInvariant, PTL

\* A write that reports success has been carried out, whole and nothing else.
THEOREM DeviceOpsAcknowledged == Spec => []AcknowledgedIsApplied
<1>1. IInv => AcknowledgedIsApplied
  BY DEF IInv
<1>. QED
  BY <1>1, DeviceOpsInvariant, PTL

\* What a call returns stands for an answer of the device.
THEOREM DeviceOpsOffline == Spec => []OfflineIsNoAnswer
<1>1. IInv => OfflineIsNoAnswer
  BY DEF IInv
<1>. QED
  BY <1>1, DeviceOpsInvariant, PTL

\* Only a call that lost its answer leaves a request behind.
THEOREM DeviceOpsNothingLeft == Spec => []NothingLeftBehind
<1>1. IInv => NothingLeftBehind
  BY DEF IInv
<1>. QED
  BY <1>1, DeviceOpsInvariant, PTL

=============================================================================
