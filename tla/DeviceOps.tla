----------------------------- MODULE DeviceOps -----------------------------
(***************************************************************************)
(* The operations of the client on a device's settings and readings, by    *)
(* the control they have (client.py):                                      *)
(*                                                                         *)
(*   "motion"     enable_motion_detection, a probe and the older form      *)
(*   "all rules"  async_set_all_ivs_rules, a read and a write              *)
(*   "rule"       async_set_ivs_rule, and every other verified write       *)
(*   "config"     async_set_config, whose result is a boolean              *)
(*   "overlay"    the overlay and day/night setters, which raise Exception *)
(*   "setter"     the writes that return whatever body passes: reboot, the *)
(*                lights, the coaxial controls, linkage, recording, doors  *)
(*   "getter"     the getters that fall back on a default                  *)
(*   "reader"     the getters that do not                                  *)
(*   "snapshot"   async_get_snapshot, through the binary transport         *)
(*                                                                         *)
(* Calls run concurrently on one device.  A request whose caller has given *)
(* up stays on its way, and may still be carried out.                      *)
(***************************************************************************)
EXTENDS Transport

CONSTANTS
  Calls,      \* the calls made on the client
  RulesTried, \* the rules async_set_all_ivs_rules asks for: range(10)
  MaxRule     \* bound: the highest rule index a device has

ASSUME DeviceOpsAssumption == RulesTried \in Nat \ {0} /\ MaxRule \in Nat

VARIABLES
  op,       \* call: the operation
  target,   \* call: the settings it writes
  pc,       \* call: the request it awaits, or "unborn" or "over"
  result,   \* call: what it returned or raised
  wire,     \* network: requests on their way
  v3,       \* device: does its firmware know DetectVersion?
  rules,    \* device: the IVS rules it has
  answered, \* history: did the device answer the call's last request?
  applied   \* history: the settings a call's requests have set

deviceVars == <<v3, rules>>
vars == <<op, target, pc, result, wire, deviceVars, answered, applied>>

Writes   == {"rule", "config", "overlay", "setter"}
Reads    == {"all rules", "getter", "reader", "snapshot"}
Ops      == {"motion"} \cup Writes \cup Reads
Steps    == {"probe", "legacy", "read", "write"}
Rules    == 0..MaxRule
Settings == {<<"motion", 0>>} \cup {<<"rule", i>> : i \in Rules}
Verified == {"all rules", "rule"}

\* What a call may be asked to write.  A lights setter sends a mode and a
\* brightness in one request.
Targets(o) ==
  CASE o = "motion"                -> {{<<"motion", 0>>}}
    [] o = "rule"                  -> {{<<"rule", i>>} : i \in Rules}
    [] o \in {"config", "overlay"} -> {{s} : s \in Settings}
    [] o = "setter"                -> {{s, t} : s, t \in Settings}
    [] o \in Reads                 -> {{}}

FirstStep(o) ==
  CASE o = "motion" -> "probe"
    [] o \in Writes -> "write"
    [] o \in Reads  -> "read"

-----------------------------------------------------------------------------
(* The calls.                                                              *)

\* The call c goes on with another request, beside those still on their way.
Sends(c, step, others) ==
  /\ pc' = [pc EXCEPT ![c] = step]
  /\ wire' = others \cup {[call |-> c, step |-> step]}
  /\ UNCHANGED result

Ends(c, outcome, others) ==
  /\ pc' = [pc EXCEPT ![c] = "over"]
  /\ result' = [result EXCEPT ![c] = outcome]
  /\ wire' = others

OperationStarts(c) ==
  /\ pc[c] = "unborn"
  /\ \E o \in Ops :
       /\ op' = [op EXCEPT ![c] = o]
       /\ \E s \in Targets(o) : target' = [target EXCEPT ![c] = s]
       /\ Sends(c, FirstStep(o), wire)
  /\ UNCHANGED <<deviceVars, answered, applied>>

\* Mutant: the length of the list is not tested.
WritesAnyway(c, listed, others) ==
  /\ target' = [target EXCEPT ![c] = listed]
  /\ Sends(c, "write", others)

\* async_set_all_ivs_rules, with the rules that the section it read lists.
RulesRead(c, listed, others) ==
  /\ target' = [target EXCEPT ![c] = listed]
  /\ IF listed = {} THEN Ends(c, "none", others) ELSE Sends(c, "write", others)

\* Mutant: a write without verify_ok.
Unverified(body) == TRUE

\* get(url, verify_ok=True): the body has to be the acknowledgement.
VerifiedOk(body) == body = "OK"

\* A body that passed the transport.  A write that was not acknowledged is
\* refused: async_set_config returns False, an overlay setter raises Exception.
Returned(c, body, others) ==
  \/ /\ op[c] = "all rules" /\ pc[c] = "read"
     /\ RulesRead(c, {<<"rule", i>> : i \in {j \in rules : j < RulesTried}}, others)
  \/ /\ op[c] \in Verified /\ pc[c] = "write"
     /\ Ends(c, IF VerifiedOk(body) THEN "acknowledged" ELSE "DahuaResponseError", others)
     /\ UNCHANGED target
  \/ /\ op[c] \in {"config", "overlay"}
     /\ Ends(c, IF body = "OK" THEN "acknowledged" ELSE "refused", others)
     /\ UNCHANGED target
  \/ /\ pc[c] = "probe"
     /\ IF body = "OK" THEN Ends(c, "acknowledged", others) ELSE Sends(c, "legacy", others)
     /\ UNCHANGED target
  \/ /\ pc[c] = "legacy"
     /\ Ends(c, IF body = "OK" THEN "acknowledged" ELSE "data", others)
     /\ UNCHANGED target
  \/ /\ op[c] \in {"setter", "getter", "reader", "snapshot"}
     /\ Ends(c, "data", others)
     /\ UNCHANGED target

\* Mutant: the probe is taken for rejected whatever went wrong with it.
AnyFailure == Exceptions \ {"CancelledError"}

\* What enable_motion_detection takes for a rejected probe.
ProbeRejected == ResponseErrors

\* The reads that take a response error for an answer.
Forgiving == {"getter", "all rules"}

\* An exception of the transport, and who handles it.
Raised(c, e, others) ==
  \/ /\ pc[c] = "probe" /\ e \in ProbeRejected
     /\ Sends(c, "legacy", others)
     /\ UNCHANGED target
  \/ /\ op[c] = "getter" /\ e \in ResponseErrors
     /\ Ends(c, "default", others)
     /\ UNCHANGED target
  \/ /\ op[c] = "all rules" /\ pc[c] = "read" /\ e \in ResponseErrors
     /\ RulesRead(c, {}, others)
  \/ /\ ~ (pc[c] = "probe" /\ e \in ProbeRejected)
     /\ ~ (pc[c] = "read" /\ op[c] \in Forgiving /\ e \in ResponseErrors)
     /\ Ends(c, e, others)
     /\ UNCHANGED target

Verdict(c, r) == IF op[c] = "snapshot" THEN BytesVerdict(r) ELSE TextVerdict(r)

\* The response r reaches the call that awaits it.
Answered(c, r, others) ==
  IF Verdict(c, r) = "returned"
    THEN Returned(c, r.body, others)
    ELSE Raised(c, Verdict(c, r), others)

\* The timeout of the transport passes, the connection drops, or the task is
\* cancelled; the request stays where it is.
AwaitFails(c) ==
  /\ pc[c] \in Steps
  /\ \E f \in Faults \ {"garbled"} : Raised(c, FaultVerdict(f), wire)
  /\ answered' = [answered EXCEPT ![c] = FALSE]
  /\ UNCHANGED <<op, deviceVars, applied>>

-----------------------------------------------------------------------------
(* The device, external.  It answers with an acknowledgement, or a read    *)
(* with data, only if it has carried the request out; it may carry it out  *)
(* and answer with an error all the same.                                  *)

Success(step) == [status |-> 200, body |-> IF step = "read" THEN "data" ELSE "OK"]

Refusals(step) == {r \in Response : r.status >= 400 \/ r.body # "OK"} \ {Success(step)}

\* What a request that has been dealt with does to its call.
Reported(m, responses) ==
  LET others == wire \ {m} IN
  \/ /\ pc[m.call] = m.step
     /\ \/ \E r \in responses : Answered(m.call, r, others)
        \/ Raised(m.call, FaultVerdict("garbled"), others)
     /\ answered' = [answered EXCEPT ![m.call] = TRUE]
  \/ /\ wire' = others
     /\ UNCHANGED <<target, pc, result, answered>>

DeviceCarriesOut(m) ==
  /\ m.step = "probe" => v3
  /\ IF m.step = "read"
       THEN UNCHANGED applied
       ELSE applied' = [applied EXCEPT ![m.call] = @ \cup target[m.call]]
  /\ Reported(m, {Success(m.step), [status |-> 500, body |-> "error"]})
  /\ UNCHANGED <<op, deviceVars>>

DeviceRefuses(m) ==
  /\ Reported(m, Refusals(m.step))
  /\ UNCHANGED <<op, deviceVars, applied>>

-----------------------------------------------------------------------------

Init ==
  /\ op = [c \in Calls |-> "none"]
  /\ target = [c \in Calls |-> {}]
  /\ pc = [c \in Calls |-> "unborn"]
  /\ result = [c \in Calls |-> "pending"]
  /\ wire = {}
  /\ v3 \in BOOLEAN
  /\ rules \in SUBSET Rules
  /\ answered = [c \in Calls |-> FALSE]
  /\ applied = [c \in Calls |-> {}]

Next ==
  \/ \E c \in Calls : OperationStarts(c) \/ AwaitFails(c)
  \/ \E m \in wire : DeviceCarriesOut(m) \/ DeviceRefuses(m)

Spec == Init /\ [][Next]_vars

-----------------------------------------------------------------------------

Over(c) == pc[c] = "over"

Outcomes == {"pending", "acknowledged", "refused", "data", "default", "none"} \cup Exceptions

\* The variables keep their types, and a write names what it writes.
TypeOK ==
  /\ op \in [Calls -> Ops \cup {"none"}]
  /\ target \in [Calls -> SUBSET Settings]
  /\ pc \in [Calls -> Steps \cup {"unborn", "over"}]
  /\ result \in [Calls -> Outcomes]
  /\ wire \subseteq [call : Calls, step : Steps]
  /\ rules \subseteq Rules
  /\ answered \in [Calls -> BOOLEAN]
  /\ applied \in [Calls -> SUBSET Settings]
  /\ \A c \in Calls : pc[c] \in {"probe", "legacy", "write"} => target[c] # {}
  /\ \A c \in Calls : Over(c) <=> result[c] # "pending"

\* A write that reports success has been carried out, by whichever of its
\* requests, and has set what the call was about and nothing else: verify_ok,
\* the boolean of async_set_config, the OK of the overlay setters and of
\* enable_motion_detection.
AcknowledgedIsApplied ==
  \A c \in Calls : result[c] = "acknowledged" => applied[c] = target[c] /\ applied[c] # {}

\* What a call returns, a default and "no rules" included, stands for an answer
\* of the device and never for a device that is not there: "callers probe
\* endpoints and read the distinction as unsupported vs offline"
\* (async_get_text).  An acknowledgement that an abandoned request got counts
\* for nothing.
OfflineIsNoAnswer ==
  \A c \in Calls : result[c] \notin Exceptions \cup {"pending"} => answered[c]

\* Only a call that lost its answer leaves a request behind: the two writes of
\* enable_motion_detection are never on their way together, and what a call
\* that got its answer has asked for cannot be carried out later, over what
\* another call has set since.
NothingLeftBehind ==
  \A m \in wire :
    \/ m.step = pc[m.call]
    \/ result[m.call] \in {"DahuaTimeoutError", "DahuaConnectionError", "CancelledError"}

=============================================================================
