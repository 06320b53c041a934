---------------------------- MODULE Negotiation ----------------------------
(***************************************************************************)
(* Authentication of requests: DahuaClient._authed_request (client.py) and *)
(* the DigestAuth helper it creates for each request (digest.py), inside   *)
(* the transport call (async_get_text and its siblings) that sets the      *)
(* timeout and closes the response.                                        *)
(*                                                                         *)
(* Several asyncio tasks share one client, so the code between two awaits  *)
(* is atomic and one action of this module; what other tasks do happens at *)
(* the awaits.  They share the remembered digest state and the sticky      *)
(* switch to basic authentication; each request has a DigestAuth of its    *)
(* own, primed from the shared state when the request starts and written   *)
(* back when the digest handshake has returned.                            *)
(*                                                                         *)
(* The device is external.  It is modelled from how the client uses it: it *)
(* accepts some schemes, denies with or without a digest challenge, issues *)
(* nonces that expire, and may lock every account out for a while.         *)
(***************************************************************************)
EXTENDS Naturals

CONSTANTS
  Tasks,          \* asyncio tasks that share the client
  MaxCalls,       \* bound: calls started in a behaviour
  MaxNonce,       \* bound: nonces the device issues
  MaxLockouts,    \* bound: times the device locks every login out
  Faults          \* ways an awaited call may end early, a subset of AllFaults

AllFaults == {"timeout", "cancelled", "dropped"}
Schemes   == {"digest", "basic"}
Nonces    == 1..MaxNonce

ASSUME NegotiationAssumption ==
  /\ MaxCalls \in Nat
  /\ MaxNonce \in Nat \ {0}
  /\ MaxLockouts \in Nat
  /\ Faults \subseteq AllFaults

VARIABLES
  fallback,  \* client: _basic_auth_fallback, fixed by the constructor
  useBasic,  \* client: _use_basic_auth
  digest,    \* client: _digest_state
  pc,        \* task: where its call awaits
  auth,      \* task: the DigestAuth object of its call
  req,       \* task: credentials on the request in flight
  ans,       \* task: the device's answer to that request
  sends,     \* task: requests its call has sent
  open,      \* task: responses its call has received and not closed
  result,    \* task: how its last call ended
  accepts,   \* device: schemes it accepts from this account
  header,    \* device: the WWW-Authenticate header its denials carry
  issued,    \* device: the latest nonce it issued, 0 before the first
  valid,     \* device: nonces it still honours
  locked,    \* device: locked out
  lockouts,  \* history: times the device has locked
  calls,     \* history: calls started
  began,     \* history: the credentials the task's call started with
  sent,      \* history: requests sent by all calls
  uses,      \* history: requests sent under each nonce
  serial     \* history: have all calls been made one after the other, unfailing?

clientVars  == <<fallback, useBasic, digest>>
taskVars    == <<pc, auth, req, ans, sends, open, result>>
deviceVars  == <<accepts, header, issued, valid, locked>>
historyVars == <<lockouts, calls, began, sent, uses, serial>>
vars == <<clientVars, taskVars, deviceVars, historyVars>>

-----------------------------------------------------------------------------
(* Challenges, digest state, requests and answers.                         *)

\* "md5" stands for an algorithm _build_digest_header computes, "other" for
\* one it does not; "malformed" is a header it cannot use without raising.
Algorithms  == {"md5", "other", "malformed"}
NoChallenge == [nonce |-> 0, alg |-> "none"]
Challenge   == [nonce : Nonces, alg : Algorithms]

NoDigestState == [last_nonce |-> 0, nonce_count |-> 0, challenge |-> NoChallenge]
DigestState   == [last_nonce  : 0..MaxNonce,
                  nonce_count : Nat,
                  challenge   : Challenge \cup {NoChallenge}]

\* DigestAuth.__init__: the remembered state, and no challenge met yet.
NewAuth(state) == [state |-> state, challenged |-> FALSE]
DigestAuth     == [state : DigestState, challenged : BOOLEAN]

Request   == [scheme : Schemes \cup {"none"}, nonce : 0..MaxNonce, nc : Nat]
NoRequest == [scheme |-> "none", nonce |-> 0, nc |-> 0]
Basic     == [scheme |-> "basic", nonce |-> 0, nc |-> 0]

Answer   == [status : {"served", "denied", "none"},
             challenge : Challenge \cup {NoChallenge}]
NoAnswer == [status |-> "none", challenge |-> NoChallenge]

\* Mutant: a nonce's count goes on from the count of the nonce before it.
CountKeptAcrossNonces(state) ==
  IF state.challenge.alg # "md5"
    THEN state
    ELSE [state EXCEPT !.last_nonce = state.challenge.nonce, !.nonce_count = @ + 1]

\* Mutant: every request is the first one under its nonce.
CountAlwaysOne(state) ==
  IF state.challenge.alg # "md5"
    THEN state
    ELSE [state EXCEPT !.last_nonce = state.challenge.nonce, !.nonce_count = 1]

\* The nonce bookkeeping of _build_digest_header.  An algorithm it does not
\* know returns "" before the count is touched.
Counted(state) ==
  LET nonce == state.challenge.nonce
  IN IF state.challenge.alg # "md5"
       THEN state
       ELSE [state EXCEPT
              !.last_nonce  = nonce,
              !.nonce_count = IF nonce = state.last_nonce
                                THEN state.nonce_count + 1 ELSE 1]

\* The credentials DigestAuth.request sends, after Counted.
DigestHeader(state) ==
  IF state.challenge.alg = "md5"
    THEN [scheme |-> "digest", nonce |-> state.last_nonce, nc |-> state.nonce_count]
    ELSE NoRequest

\* Mutant: the challenge met first is never replaced.
OldChallengeKept(state, challenge) == state

\* The state DigestAuth carries after a 401: the new challenge replaces the
\* old one, and the nonce bookkeeping is kept to compare it with.
WithChallenge(state, challenge) == [state EXCEPT !.challenge = challenge]

-----------------------------------------------------------------------------

\* Task t awaits the answer to a request with these credentials.
Send(t, credentials) ==
  /\ req' = [req EXCEPT ![t] = credentials]
  /\ ans' = [ans EXCEPT ![t] = NoAnswer]
  /\ sent' = sent + 1
  /\ uses' = IF credentials.scheme = "digest"
               THEN [uses EXCEPT ![credentials.nonce] = @ + 1]
               ELSE uses

\* Task t sends a request the way DigestAuth.request does.
SendDigest(t, state, challenged) ==
  /\ auth' = [auth EXCEPT ![t] = [state |-> Counted(state), challenged |-> challenged]]
  /\ Send(t, DigestHeader(Counted(state)))

Answered(t) == ans[t].status # "none"

\* Mutant: the response is dropped without being closed.
Leak(t) == UNCHANGED open

\* response.close() on the response task t has.
Close(t) == open' = [open EXCEPT ![t] = @ - 1]

\* The call of task t ends: the finally block closes the response it has, or
\* aiohttp does when it was not handed over yet.
CallEnds(t, outcome) ==
  /\ pc' = [pc EXCEPT ![t] = "idle"]
  /\ IF Answered(t) THEN Close(t) ELSE UNCHANGED open
  /\ result' = [result EXCEPT ![t] = outcome]
  /\ req' = [req EXCEPT ![t] = NoRequest]
  /\ ans' = [ans EXCEPT ![t] = NoAnswer]

\* A call starts: straight to basic once the switch has been made, otherwise
\* a fresh DigestAuth primed with the remembered state.
CallStarts(t) ==
  /\ pc[t] = "idle"
  /\ calls < MaxCalls
  /\ calls' = calls + 1
  /\ serial' = (serial /\ \A u \in Tasks : pc[u] = "idle")
  /\ sends' = [sends EXCEPT ![t] = 1]
  /\ result' = [result EXCEPT ![t] = "pending"]
  /\ \/ /\ useBasic
        /\ pc' = [pc EXCEPT ![t] = "basic"]
        /\ began' = [began EXCEPT ![t] = Basic]
        /\ Send(t, Basic)
        /\ UNCHANGED auth
     \/ /\ ~useBasic
        /\ pc' = [pc EXCEPT ![t] = "digest"]
        /\ began' = [began EXCEPT ![t] = DigestHeader(Counted(digest))]
        /\ SendDigest(t, digest, FALSE)
  /\ UNCHANGED <<clientVars, open, deviceVars, lockouts>>

\* Mutant: no guard against answering challenges forever.
TakenUpAgain(t) ==
  /\ ans[t].status = "denied"
  /\ ans[t].challenge # NoChallenge

\* The answer is a 401 that DigestAuth._handle_401 takes up.
TakenUp(t) ==
  /\ ans[t].status = "denied"
  /\ ans[t].challenge # NoChallenge
  /\ ~auth[t].challenged

\* _handle_401: close the response, keep its challenge and ask again, once.
ChallengeAnswered(t) ==
  /\ pc[t] = "digest"
  /\ TakenUp(t)
  /\ ans[t].challenge.alg # "malformed"
  /\ SendDigest(t, WithChallenge(auth[t].state, ans[t].challenge), TRUE)
  /\ sends' = [sends EXCEPT ![t] = @ + 1]
  /\ Close(t)
  /\ UNCHANGED <<clientVars, pc, result, deviceVars, lockouts, calls, began, serial>>

\* _handle_401 on a header that cannot be parsed or used: the response is
\* closed first, the exception leaves the call, and nothing is remembered.
ChallengeRaises(t) ==
  /\ pc[t] = "digest"
  /\ TakenUp(t)
  /\ ans[t].challenge.alg = "malformed"
  /\ CallEnds(t, "raised")
  /\ UNCHANGED <<clientVars, auth, sends, deviceVars, historyVars>>

\* Mutant: the first answer ends the handshake.
HandshakeCutShort(t) == pc[t] = "digest" /\ Answered(t)

\* DigestAuth.request has returned to _authed_request.
HandshakeOver(t) ==
  /\ pc[t] = "digest"
  /\ Answered(t)
  /\ ~TakenUp(t)

\* Mutant: basic is tried whatever the caller asked for.
FallbackForced(t) == ans[t].status = "denied"

\* The 401 survived the handshake and the caller allows basic.
FallbackDue(t) == ans[t].status = "denied" /\ fallback

\* Mutant: a later call is not primed.
StateForgotten(t) == digest' = NoDigestState

\* _remember_digest.
RememberDigest(t) == digest' = auth[t].state

\* Close the response, make the sticky switch and try basic.
FallsBackToBasic(t) ==
  /\ HandshakeOver(t)
  /\ RememberDigest(t)
  /\ FallbackDue(t)
  /\ Close(t)
  /\ useBasic' = TRUE
  /\ pc' = [pc EXCEPT ![t] = "basic"]
  /\ Send(t, Basic)
  /\ sends' = [sends EXCEPT ![t] = @ + 1]
  /\ UNCHANGED <<fallback, auth, result, deviceVars, lockouts, calls, began, serial>>

\* _authed_request returns the digest response to the transport call, which
\* awaits its body.
DigestReturns(t) ==
  /\ HandshakeOver(t)
  /\ RememberDigest(t)
  /\ ~FallbackDue(t)
  /\ pc' = [pc EXCEPT ![t] = "body"]
  /\ UNCHANGED <<fallback, useBasic, auth, req, ans, sends, open, result,
                 deviceVars, historyVars>>

\* _authed_request returns the basic response, whatever it is.
BasicReturns(t) ==
  /\ pc[t] = "basic"
  /\ Answered(t)
  /\ pc' = [pc EXCEPT ![t] = "body"]
  /\ UNCHANGED <<clientVars, auth, req, ans, sends, open, result, deviceVars, historyVars>>

\* The body has arrived: a 401 becomes DahuaAuthError, anything else is
\* classified by the transport and is a served request here.
BodyRead(t) ==
  /\ pc[t] = "body"
  /\ CallEnds(t, IF ans[t].status = "denied" THEN "auth_error" ELSE "ok")
  /\ UNCHANGED <<clientVars, auth, sends, deviceVars, historyVars>>

\* Mutant: the timeout is disarmed before the body is read.
CallFailsBeforeBody(t, fault) ==
  /\ pc[t] \in Schemes
  /\ fault \in Faults
  /\ CallEnds(t, fault)
  /\ serial' = FALSE
  /\ UNCHANGED <<clientVars, auth, sends, deviceVars, lockouts, calls, began, sent, uses>>

\* asyncio.timeout fires, the task is cancelled, or the connection drops, at
\* any of the awaits.  _remember_digest has not run for a handshake in flight.
CallFails(t, fault) ==
  /\ pc[t] # "idle"
  /\ fault \in Faults
  /\ CallEnds(t, fault)
  /\ serial' = FALSE
  /\ UNCHANGED <<clientVars, auth, sends, deviceVars, lockouts, calls, began, sent, uses>>

-----------------------------------------------------------------------------
(* The device.                                                             *)

Granted(r) ==
  /\ ~locked
  /\ r.scheme \in accepts
  /\ r.scheme = "digest" => r.nonce \in valid

\* A nonce the device may put in a challenge: the one it issued last, or a
\* new one.
Challengeable == {n \in Nonces : n = issued + 1 \/ (n = issued /\ n \in valid)}

\* The challenges the header of a denial can carry.
Offers ==
  IF header = "none" THEN {NoChallenge}
                     ELSE [nonce : Challengeable, alg : {header}]

\* A response reaches task t.
Arrives(t, answer) ==
  /\ ans' = [ans EXCEPT ![t] = answer]
  /\ open' = [open EXCEPT ![t] = @ + 1]

DeviceServes(t) ==
  /\ pc[t] \in Schemes
  /\ ~Answered(t)
  /\ Granted(req[t])
  /\ Arrives(t, [status |-> "served", challenge |-> NoChallenge])
  /\ UNCHANGED <<clientVars, pc, auth, req, sends, result, deviceVars, historyVars>>

DeviceDenies(t) ==
  /\ pc[t] \in Schemes
  /\ ~Answered(t)
  /\ ~Granted(req[t])
  /\ \E c \in Offers :
       /\ Arrives(t, [status |-> "denied", challenge |-> c])
       /\ issued' = IF c = NoChallenge THEN issued ELSE c.nonce
       /\ valid'  = IF c = NoChallenge THEN valid ELSE valid \cup {c.nonce}
  /\ UNCHANGED <<clientVars, pc, auth, req, sends, result,
                 accepts, header, locked, historyVars>>

\* The handshake of task t is on a challenge with nonce n.
BeingAnswered(t, n) ==
  /\ pc[t] = "digest"
  /\ \/ ans[t].challenge.nonce = n
     \/ auth[t].challenged /\ req[t].nonce = n

\* The device forgets a nonce, but not one whose challenge is being answered.
\* The last one of the bounded supply is kept.
NonceExpires(n) ==
  /\ n \in valid
  /\ n < MaxNonce
  /\ \A t \in Tasks : ~BeingAnswered(t, n)
  /\ valid' = valid \ {n}
  /\ UNCHANGED <<clientVars, taskVars, accepts, header, issued, locked, historyVars>>

\* Too many failed logins, from this client or another one, lock the device;
\* the lock lapses by itself.
DeviceLocks ==
  /\ ~locked
  /\ lockouts < MaxLockouts
  /\ locked' = TRUE
  /\ lockouts' = lockouts + 1
  /\ UNCHANGED <<clientVars, taskVars, accepts, header, issued, valid,
                 calls, began, sent, uses, serial>>

DeviceUnlocks ==
  /\ locked
  /\ locked' = FALSE
  /\ UNCHANGED <<clientVars, taskVars, accepts, header, issued, valid, historyVars>>

-----------------------------------------------------------------------------

Init ==
  /\ fallback \in BOOLEAN
  /\ useBasic = FALSE
  /\ digest = NoDigestState
  /\ pc = [t \in Tasks |-> "idle"]
  /\ auth = [t \in Tasks |-> NewAuth(NoDigestState)]
  /\ req = [t \in Tasks |-> NoRequest]
  /\ ans = [t \in Tasks |-> NoAnswer]
  /\ sends = [t \in Tasks |-> 0]
  /\ open = [t \in Tasks |-> 0]
  /\ result = [t \in Tasks |-> "none"]
  /\ accepts \in SUBSET Schemes
  /\ header \in IF "digest" \in accepts THEN {"md5"} ELSE Algorithms \cup {"none"}
  /\ issued = 0
  /\ valid = {}
  /\ locked = FALSE
  /\ lockouts = 0
  /\ calls = 0
  /\ began = [t \in Tasks |-> NoRequest]
  /\ sent = 0
  /\ uses = [n \in Nonces |-> 0]
  /\ serial = TRUE

ClientStep(t) ==
  \/ CallStarts(t)
  \/ ChallengeAnswered(t)
  \/ ChallengeRaises(t)
  \/ FallsBackToBasic(t)
  \/ DigestReturns(t)
  \/ BasicReturns(t)
  \/ BodyRead(t)
  \/ \E fault \in AllFaults : CallFails(t, fault)

DeviceStep ==
  \/ \E t \in Tasks : DeviceServes(t) \/ DeviceDenies(t)
  \/ \E n \in Nonces : NonceExpires(n)
  \/ DeviceLocks
  \/ DeviceUnlocks

Next == (\E t \in Tasks : ClientStep(t)) \/ DeviceStep

Spec == Init /\ [][Next]_vars

\* asyncio runs a task whose await has completed, and the timeout set around
\* the whole call is armed at every one of its awaits.  Nothing is assumed of
\* the device: it may never answer, nor finish a body.
Fairness ==
  \A t \in Tasks :
    /\ WF_vars(ChallengeAnswered(t))
    /\ WF_vars(ChallengeRaises(t))
    /\ WF_vars(FallsBackToBasic(t))
    /\ WF_vars(DigestReturns(t))
    /\ WF_vars(BasicReturns(t))
    /\ WF_vars(CallFails(t, "timeout"))

FairSpec == Spec /\ Fairness

-----------------------------------------------------------------------------
(* Properties.                                                             *)

\* The values the variables take; a task has at most one response open.
TypeOK ==
  /\ fallback \in BOOLEAN
  /\ useBasic \in BOOLEAN
  /\ digest \in DigestState
  /\ pc \in [Tasks -> {"idle", "digest", "basic", "body"}]
  /\ auth \in [Tasks -> DigestAuth]
  /\ req \in [Tasks -> Request]
  /\ ans \in [Tasks -> Answer]
  /\ sends \in [Tasks -> Nat]
  /\ open \in [Tasks -> 0..1]
  /\ result \in [Tasks -> {"none", "pending", "ok", "auth_error", "raised"} \cup AllFaults]
  /\ accepts \in SUBSET Schemes
  /\ header \in Algorithms \cup {"none"}
  /\ issued \in 0..MaxNonce
  /\ valid \in SUBSET Nonces
  /\ locked \in BOOLEAN
  /\ lockouts \in 0..MaxLockouts
  /\ calls \in 0..MaxCalls
  /\ began \in [Tasks -> Request]
  /\ sent \in Nat
  /\ uses \in [Nonces -> Nat]
  /\ serial \in BOOLEAN

\* Rejected credentials stop after the request, one answer to a challenge and
\* one basic attempt; after two requests where basic is not allowed, and after
\* one where the switch has been made: every denial counts towards the lockout
\* of the device.
NegotiationBudget ==
  \A t \in Tasks :
    sends[t] <= IF began[t].scheme = "basic" THEN 1 ELSE IF fallback THEN 3 ELSE 2

\* Whichever way a call ends, and wherever it was, it leaves no response open,
\* and it never waits for an answer while holding an earlier one.
ResponsesReleased ==
  \A t \in Tasks : open[t] > 0 => pc[t] # "idle" /\ Answered(t)

\* Basic credentials, which are the password itself, never leave the client
\* when its owner did not allow the fallback, nor on a device that takes digest
\* and has locked nobody out; the client does not switch away from digest then.
PasswordConfined ==
  (~fallback \/ ("digest" \in accepts /\ lockouts = 0))
    => ~useBasic /\ \A t \in Tasks : req[t].scheme # "basic"

\* What _authed_request says of its sticky switch: "A 401 that survives the
\* digest handshake means this one does not" want digest.  A lockout refutes
\* it: the 401 is about the moment, the switch is for the client's life.
SwitchMeansNoDigest == useBasic => "digest" \notin accepts

\* Lockouts apart, a call reports rejected credentials only when the device
\* takes none of the schemes the client may use, and succeeds only when it
\* takes one, whatever calls ran beside it.
OutcomeMatchesDevice ==
  LET usable == accepts \cap (IF fallback THEN Schemes ELSE {"digest"})
  IN \A t \in Tasks : /\ result[t] = "auth_error" => usable = {} \/ lockouts > 0
                      /\ result[t] = "ok" => usable # {}

\* The count presented with a nonce, or remembered for the next request, is
\* never ahead of the requests made under it, whichever calls overlapped or
\* failed: a new nonce restarts it.
CountNeverAhead ==
  LET Behind(nonce, count) == nonce # 0 => count <= uses[nonce]
  IN /\ Behind(digest.last_nonce, digest.nonce_count)
     /\ \A t \in Tasks : /\ Behind(auth[t].state.last_nonce, auth[t].state.nonce_count)
                         /\ Behind(req[t].nonce, req[t].nc)

\* While calls are made one after the other and none fails, the count presented
\* numbers the requests under the nonce, across calls, and a nonce costs one
\* extra request in its life, the one that was challenged: later calls reuse it
\* (it is its own Login/Logout pair in the audit log of the device otherwise).
SerialCallsReuseNonce ==
  serial =>
    /\ \A t \in Tasks : req[t].scheme = "digest" => req[t].nc = uses[req[t].nonce]
    /\ ("digest" \in accepts /\ lockouts = 0) => sent <= calls + issued

\* The abstract promise: an exposed password is one that travels, or will with
\* the next call.
Contract == INSTANCE AuthContract WITH
  Outcomes  <- {"ok", "auth_error", "raised"} \cup AllFaults,
  lockedOut <- lockouts > 0,
  busy      <- {t \in Tasks : pc[t] # "idle"},
  outcome   <- result,
  exposed   <- useBasic \/ \E t \in Tasks : req[t].scheme = "basic"

\* The negotiation implements the contract: seen from its callers, every step
\* of it begins a call, ends one with an outcome that is true of the device,
\* gives the password away where it may, or does not show.
KeepsContract == Contract!Spec

\* Every call ends, even on a device that stops answering at any point.
CallsEnd == Contract!CallsReturn
=============================================================================
