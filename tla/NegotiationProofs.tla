------------------------- MODULE NegotiationProofs -------------------------
(***************************************************************************)
(* Theorems about Negotiation, for every set of tasks and every bound.     *)
(***************************************************************************)
EXTENDS Negotiation, TLAPS

-----------------------------------------------------------------------------
(* The helpers on digest state.                                            *)

\* _build_digest_header keeps the state well formed.
LEMMA CountedType ==
  ASSUME NEW state \in DigestState
  PROVE  /\ Counted(state) \in DigestState
         /\ Counted(state).challenge = state.challenge
<1>1. CASE state.challenge.alg # "md5"
  BY <1>1 DEF Counted
<1>2. CASE state.challenge.alg = "md5"
  <2>1. state.challenge \in Challenge
    BY <1>2 DEF DigestState, NoChallenge
  <2>2. state.challenge.nonce \in 0..MaxNonce
    BY <2>1, NegotiationAssumption DEF Challenge, Nonces
  <2>3. state.nonce_count \in Nat /\ state.nonce_count + 1 \in Nat
    BY DEF DigestState
  <2>. QED
    BY <1>2, <2>2, <2>3 DEF Counted, DigestState
<1>. QED
  BY <1>1, <1>2

\* The credentials it builds are well formed; digest ones name a real nonce.
LEMMA HeaderType ==
  ASSUME NEW state \in DigestState
  PROVE  /\ DigestHeader(Counted(state)) \in Request
         /\ DigestHeader(Counted(state)).scheme # "basic"
         /\ DigestHeader(Counted(state)).scheme = "digest"
              => DigestHeader(Counted(state)).nonce \in Nonces
BY NegotiationAssumption
   DEF Counted, DigestHeader, DigestState, Challenge, NoChallenge, Nonces,
       Request, NoRequest, Schemes, Algorithms

\* Taking a challenge up keeps the state well formed.
LEMMA WithChallengeType ==
  ASSUME NEW state \in DigestState, NEW c \in Challenge \cup {NoChallenge}
  PROVE  WithChallenge(state, c) \in DigestState
BY DEF WithChallenge, DigestState

LEMMA ConstantRecords ==
  /\ NoChallenge \notin Challenge
  /\ NoDigestState \in DigestState
  /\ NewAuth(NoDigestState) \in DigestAuth
  /\ NoRequest \in Request
  /\ Basic \in Request
  /\ NoAnswer \in Answer
BY NegotiationAssumption
   DEF NoChallenge, Challenge, Algorithms, NoDigestState, DigestState, NewAuth,
       DigestAuth, NoRequest, Request, Basic, Schemes, NoAnswer, Answer, Nonces

-----------------------------------------------------------------------------
(* Types, and which responses are open.                                    *)

\* A task has a response open exactly when it has an answer, which an idle
\* one never has and one that reads a body always has.
OpenIffAnswered ==
  \A t \in Tasks :
    /\ open[t] = IF Answered(t) THEN 1 ELSE 0
    /\ pc[t] = "idle" => ~Answered(t)
    /\ pc[t] = "body" => Answered(t)

TypeInv == TypeOK /\ OpenIffAnswered

\* What Send changes, well typed.
SentTypes ==
  /\ req' \in [Tasks -> Request]
  /\ ans' \in [Tasks -> Answer]
  /\ sent' \in Nat
  /\ uses' \in [Nonces -> Nat]

\* Sending a request leaves the task waiting, with its books in order.
LEMMA SendTypes ==
  ASSUME TypeOK, NEW t \in Tasks, NEW r \in Request,
         r.scheme = "digest" => r.nonce \in Nonces, Send(t, r)
  PROVE  SentTypes /\ ans' = [ans EXCEPT ![t] = NoAnswer]
BY ConstantRecords DEF Send, TypeOK, SentTypes

\* A digest request too, and the DigestAuth object stays well formed.
LEMMA SendDigestTypes ==
  ASSUME TypeOK, NEW t \in Tasks, NEW state \in DigestState,
         NEW challenged \in BOOLEAN, SendDigest(t, state, challenged)
  PROVE  /\ auth' \in [Tasks -> DigestAuth]
         /\ SentTypes
         /\ ans' = [ans EXCEPT ![t] = NoAnswer]
<1>1. Counted(state) \in DigestState
  BY CountedType
<1>2. auth' \in [Tasks -> DigestAuth]
  BY <1>1 DEF SendDigest, TypeOK, DigestAuth
<1>. QED
  BY <1>2, HeaderType, SendTypes DEF SendDigest

\* What CallStarts leaves to show once the send is known to be well typed.
LEMMA CallStartsTypes ==
  ASSUME TypeOK, NEW t \in Tasks, CallStarts(t), SentTypes, OpenIffAnswered',
         pc' \in [Tasks -> {"idle", "digest", "basic", "body"}],
         began' \in [Tasks -> Request], auth' \in [Tasks -> DigestAuth] \/ UNCHANGED auth
  PROVE  TypeInv'
<1>1. calls' \in 0..MaxCalls /\ serial' \in BOOLEAN
  BY NegotiationAssumption DEF CallStarts, TypeOK
<1>2. /\ sends' \in [Tasks -> Nat]
      /\ result' \in [Tasks -> {"none", "pending", "ok", "auth_error", "raised"} \cup AllFaults]
  BY DEF CallStarts, TypeOK
<1>3. UNCHANGED <<fallback, useBasic, digest, open, accepts, header, issued, valid, locked, lockouts>>
  BY DEF CallStarts, clientVars, deviceVars
<1>. QED
  BY <1>1, <1>2, <1>3 DEF TypeInv, TypeOK, SentTypes

\* The end of a call closes the one response the task may have.
LEMMA CallEndsTypes ==
  ASSUME TypeInv, NEW t \in Tasks,
         NEW outcome \in {"ok", "auth_error", "raised"} \cup AllFaults,
         CallEnds(t, outcome)
  PROVE  /\ pc' = [pc EXCEPT ![t] = "idle"]
         /\ ans' = [ans EXCEPT ![t] = NoAnswer]
         /\ pc' \in [Tasks -> {"idle", "digest", "basic", "body"}]
         /\ open' \in [Tasks -> 0..1]
         /\ req' \in [Tasks -> Request]
         /\ ans' \in [Tasks -> Answer]
         /\ result' \in [Tasks -> {"none", "pending", "ok", "auth_error", "raised"} \cup AllFaults]
         /\ OpenIffAnswered'
<1>1. ans' = [ans EXCEPT ![t] = NoAnswer] /\ pc' = [pc EXCEPT ![t] = "idle"]
  BY DEF CallEnds
<1>2. /\ pc' \in [Tasks -> {"idle", "digest", "basic", "body"}]
      /\ req' \in [Tasks -> Request]
      /\ ans' \in [Tasks -> Answer]
  BY ConstantRecords DEF CallEnds, TypeInv, TypeOK
<1>3. result' \in [Tasks -> {"none", "pending", "ok", "auth_error", "raised"} \cup AllFaults]
  BY DEF CallEnds, TypeInv, TypeOK
<1>4. open' = [open EXCEPT ![t] = 0]
  BY DEF CallEnds, Close, Answered, TypeInv, TypeOK, OpenIffAnswered
<1>5. open' \in [Tasks -> 0..1]
  BY <1>4 DEF TypeInv, TypeOK
<1>6. OpenIffAnswered'
  BY <1>1, <1>4 DEF TypeInv, TypeOK, OpenIffAnswered, Answered, NoAnswer
<1>. QED
  BY <1>1, <1>2, <1>3, <1>5, <1>6

\* Closing the response that was answered with another request.
LEMMA CloseTypes ==
  ASSUME TypeInv, NEW t \in Tasks, Answered(t), Close(t),
         ans' = [ans EXCEPT ![t] = NoAnswer],
         pc' = pc \/ pc' = [pc EXCEPT ![t] = "basic"], pc[t] = "digest"
  PROVE  open' \in [Tasks -> 0..1] /\ OpenIffAnswered'
<1>1. open \in [Tasks -> 0..1] /\ open[t] = 1
  BY DEF TypeInv, TypeOK, OpenIffAnswered
<1>2. open' = [open EXCEPT ![t] = 0]
  BY <1>1 DEF Close
<1>. QED
  BY <1>2 DEF TypeInv, TypeOK, OpenIffAnswered, Answered, NoAnswer

\* A response that arrives is the only one the task has.
LEMMA ArrivesTypes ==
  ASSUME TypeInv, NEW t \in Tasks, NEW a \in Answer, a.status # "none",
         pc[t] \in Schemes, ~Answered(t), Arrives(t, a), UNCHANGED pc
  PROVE  /\ ans' \in [Tasks -> Answer]
         /\ open' \in [Tasks -> 0..1]
         /\ OpenIffAnswered'
<1>1. open \in [Tasks -> 0..1] /\ open[t] = 0
  BY DEF TypeInv, TypeOK, OpenIffAnswered
<1>2. open' = [open EXCEPT ![t] = 1]
  BY <1>1 DEF Arrives
<1>. QED
  BY <1>2 DEF Arrives, TypeInv, TypeOK, OpenIffAnswered, Answered, Schemes

\* Every step keeps the variables well typed and the open responses known.
LEMMA TypeStep == TypeInv /\ [Next]_vars => TypeInv'
<1>. SUFFICES ASSUME TypeInv, [Next]_vars PROVE TypeInv'
  OBVIOUS
<1>. USE DEF TypeInv
<1>1. ASSUME NEW t \in Tasks, CallStarts(t) PROVE TypeInv'
  <2>1. CASE useBasic
    <3>1. Send(t, Basic) /\ Basic \in Request /\ Basic.scheme # "digest"
      BY <1>1, <2>1, ConstantRecords DEF CallStarts, Basic
    <3>2. SentTypes /\ ans' = [ans EXCEPT ![t] = NoAnswer]
      BY <3>1, SendTypes
    <3>3. OpenIffAnswered'
      BY <1>1, <2>1, <3>2 DEF CallStarts, TypeOK, OpenIffAnswered, Answered, NoAnswer
    <3>4. pc' \in [Tasks -> {"idle", "digest", "basic", "body"}] /\ began' \in [Tasks -> Request]
      BY <1>1, <2>1, <3>1 DEF CallStarts, TypeOK
    <3>5. UNCHANGED auth
      BY <1>1, <2>1 DEF CallStarts
    <3>. QED
      BY <1>1, <3>2, <3>3, <3>4, <3>5, CallStartsTypes
  <2>2. CASE ~useBasic
    <3>1. SendDigest(t, digest, FALSE) /\ digest \in DigestState
      BY <1>1, <2>2 DEF CallStarts, TypeOK
    <3>2. DigestHeader(Counted(digest)) \in Request
      BY <3>1, HeaderType
    <3>3. /\ SentTypes
          /\ ans' = [ans EXCEPT ![t] = NoAnswer]
          /\ auth' \in [Tasks -> DigestAuth]
      BY <3>1, SendDigestTypes
    <3>4. OpenIffAnswered'
      BY <1>1, <2>2, <3>3 DEF CallStarts, TypeOK, OpenIffAnswered, Answered, NoAnswer
    <3>5. pc' \in [Tasks -> {"idle", "digest", "basic", "body"}] /\ began' \in [Tasks -> Request]
      BY <1>1, <2>2, <3>2 DEF CallStarts, TypeOK
    <3>. QED
      BY <1>1, <3>3, <3>4, <3>5, CallStartsTypes
  <2>. QED
    BY <2>1, <2>2 DEF TypeOK
<1>2. ASSUME NEW t \in Tasks, ChallengeAnswered(t) PROVE TypeInv'
  <2>. DEFINE state == WithChallenge(auth[t].state, ans[t].challenge)
  <2>1. state \in DigestState
    BY WithChallengeType DEF TypeOK, DigestAuth, Answer
  <2>2. SendDigest(t, state, TRUE)
    BY <1>2 DEF ChallengeAnswered
  <2>. HIDE DEF state
  <2>3. Answered(t) /\ pc[t] = "digest" /\ Close(t) /\ pc' = pc
    BY <1>2 DEF ChallengeAnswered, TakenUp, Answered
  <2>4. ans' = [ans EXCEPT ![t] = NoAnswer]
    BY <2>1, <2>2, SendDigestTypes
  <2>5. open' \in [Tasks -> 0..1] /\ OpenIffAnswered'
    BY <2>3, <2>4, CloseTypes
  <2>6. SentTypes /\ auth' \in [Tasks -> DigestAuth]
    BY <2>1, <2>2, SendDigestTypes
  <2>7. TypeOK'
    <3>1. sends' \in [Tasks -> Nat]
      BY <1>2 DEF ChallengeAnswered, TypeOK
    <3>2. UNCHANGED <<fallback, useBasic, digest, pc, result, accepts, header,
                      issued, valid, locked, lockouts, calls, began, serial>>
      BY <1>2 DEF ChallengeAnswered, clientVars, deviceVars
    <3>. QED
      BY <2>5, <2>6, <3>1, <3>2 DEF TypeOK, SentTypes
  <2>. QED
    BY <2>5, <2>7
<1>3. ASSUME NEW t \in Tasks, ChallengeRaises(t) PROVE TypeInv'
  BY <1>3, CallEndsTypes
     DEF ChallengeRaises, TypeOK, clientVars, deviceVars, historyVars
<1>4. ASSUME NEW t \in Tasks, FallsBackToBasic(t) PROVE TypeInv'
  <2>1. Answered(t) /\ pc[t] = "digest" /\ Close(t) /\ pc' = [pc EXCEPT ![t] = "basic"]
    BY <1>4 DEF FallsBackToBasic, HandshakeOver
  <2>2. Send(t, Basic) /\ Basic \in Request /\ Basic.scheme # "digest"
    BY <1>4, ConstantRecords DEF FallsBackToBasic, Basic
  <2>3. ans' = [ans EXCEPT ![t] = NoAnswer]
    BY <2>2, SendTypes
  <2>4. open' \in [Tasks -> 0..1] /\ OpenIffAnswered'
    BY <2>1, <2>3, CloseTypes
  <2>5. digest' \in DigestState
    BY <1>4 DEF FallsBackToBasic, RememberDigest, TypeOK, DigestAuth
  <2>6. SentTypes
    BY <2>2, SendTypes
  <2>7. TypeOK'
    <3>1. /\ sends' \in [Tasks -> Nat]
          /\ useBasic' \in BOOLEAN
          /\ pc' \in [Tasks -> {"idle", "digest", "basic", "body"}]
      BY <1>4, <2>1 DEF FallsBackToBasic, TypeOK
    <3>2. UNCHANGED <<fallback, auth, result, accepts, header, issued, valid,
                      locked, lockouts, calls, began, serial>>
      BY <1>4 DEF FallsBackToBasic, deviceVars
    <3>. QED
      BY <2>4, <2>5, <2>6, <3>1, <3>2 DEF TypeOK, SentTypes
  <2>. QED
    BY <2>4, <2>7
<1>5. ASSUME NEW t \in Tasks, DigestReturns(t) PROVE TypeInv'
  <2>1. digest' \in DigestState
    BY <1>5 DEF DigestReturns, RememberDigest, TypeOK, DigestAuth
  <2>. QED
    BY <1>5, <2>1 DEF DigestReturns, HandshakeOver, TypeOK, OpenIffAnswered, Answered,
                      deviceVars, historyVars
<1>6. ASSUME NEW t \in Tasks, BasicReturns(t) PROVE TypeInv'
  BY <1>6 DEF BasicReturns, TypeOK, OpenIffAnswered, Answered,
              clientVars, deviceVars, historyVars
<1>7. ASSUME NEW t \in Tasks, BodyRead(t) PROVE TypeInv'
  BY <1>7, CallEndsTypes DEF BodyRead, TypeOK, clientVars, deviceVars, historyVars
<1>8. ASSUME NEW t \in Tasks, NEW fault \in AllFaults, CallFails(t, fault) PROVE TypeInv'
  BY <1>8, CallEndsTypes DEF CallFails, TypeOK, clientVars, deviceVars, historyVars
<1>9. ASSUME NEW t \in Tasks, DeviceServes(t) PROVE TypeInv'
  <2>. DEFINE a == [status |-> "served", challenge |-> NoChallenge]
  <2>1. a \in Answer /\ a.status # "none"
    BY DEF Answer
  <2>. HIDE DEF a
  <2>2. Arrives(t, a)
    BY <1>9 DEF DeviceServes, a
  <2>. QED
    BY <1>9, <2>1, <2>2, ArrivesTypes
       DEF DeviceServes, TypeOK, clientVars, deviceVars, historyVars
<1>10. ASSUME NEW t \in Tasks, DeviceDenies(t) PROVE TypeInv'
  <2>1. PICK c \in Offers :
          /\ Arrives(t, [status |-> "denied", challenge |-> c])
          /\ issued' = IF c = NoChallenge THEN issued ELSE c.nonce
          /\ valid'  = IF c = NoChallenge THEN valid ELSE valid \cup {c.nonce}
    BY <1>10 DEF DeviceDenies
  <2>2. c \in Challenge \cup {NoChallenge}
    BY DEF Offers, Challengeable, Challenge, TypeOK
  <2>3. c # NoChallenge => c.nonce \in Nonces
    BY <2>2 DEF Challenge
  <2>4. issued' \in 0..MaxNonce /\ valid' \in SUBSET Nonces
    <3>1. issued \in 0..MaxNonce /\ valid \in SUBSET Nonces
      BY DEF TypeOK
    <3>2. CASE c = NoChallenge
      BY <2>1, <3>1, <3>2
    <3>3. CASE c # NoChallenge
      <4>1. c.nonce \in Nonces /\ issued' = c.nonce /\ valid' = valid \cup {c.nonce}
        BY <2>1, <2>3, <3>3
      <4>2. c.nonce \in 0..MaxNonce
        BY <4>1, NegotiationAssumption DEF Nonces
      <4>. QED
        BY <3>1, <4>1, <4>2
    <3>. QED
      BY <3>2, <3>3
  <2>. DEFINE a == [status |-> "denied", challenge |-> c]
  <2>5. a \in Answer /\ a.status # "none"
    BY <2>2 DEF Answer
  <2>6. Arrives(t, a)
    BY <2>1
  <2>. HIDE DEF a
  <2>. QED
    BY <1>10, <2>4, <2>5, <2>6, ArrivesTypes
       DEF DeviceDenies, TypeOK, clientVars, historyVars
<1>11. ASSUME NEW n \in Nonces, NonceExpires(n) PROVE TypeInv'
  BY <1>11 DEF NonceExpires, TypeOK, OpenIffAnswered, Answered,
               clientVars, taskVars, historyVars
<1>12. CASE DeviceLocks
  BY <1>12, NegotiationAssumption
     DEF DeviceLocks, TypeOK, OpenIffAnswered, Answered, clientVars, taskVars
<1>13. CASE DeviceUnlocks
  BY <1>13 DEF DeviceUnlocks, TypeOK, OpenIffAnswered, Answered,
               clientVars, taskVars, historyVars
<1>14. CASE UNCHANGED vars
  BY <1>14 DEF vars, TypeOK, OpenIffAnswered, Answered,
               clientVars, taskVars, deviceVars, historyVars
<1>. QED
  BY <1>1, <1>2, <1>3, <1>4, <1>5, <1>6, <1>7, <1>8, <1>9, <1>10, <1>11, <1>12,
     <1>13, <1>14 DEF Next, ClientStep, DeviceStep

LEMMA TypeInit == Init => TypeInv
<1>. SUFFICES ASSUME Init PROVE TypeInv
  OBVIOUS
<1>1. OpenIffAnswered
  BY DEF Init, OpenIffAnswered, Answered, NoAnswer
<1>2. header \in Algorithms \cup {"none"}
  BY DEF Init, Algorithms
<1>3. /\ digest \in DigestState
      /\ auth \in [Tasks -> DigestAuth]
      /\ req \in [Tasks -> Request]
      /\ ans \in [Tasks -> Answer]
      /\ began \in [Tasks -> Request]
  BY ConstantRecords DEF Init
<1>4. issued \in 0..MaxNonce /\ lockouts \in 0..MaxLockouts /\ calls \in 0..MaxCalls
  BY NegotiationAssumption DEF Init
<1>5. TypeOK
  <2>1. /\ pc \in [Tasks -> {"idle", "digest", "basic", "body"}]
        /\ sends \in [Tasks -> Nat]
        /\ open \in [Tasks -> 0..1]
        /\ uses \in [Nonces -> Nat]
        /\ sent \in Nat
    BY DEF Init
  <2>2. result \in [Tasks -> {"none", "pending", "ok", "auth_error", "raised"} \cup AllFaults]
    BY DEF Init
  <2>3. /\ fallback \in BOOLEAN /\ useBasic \in BOOLEAN /\ locked \in BOOLEAN
        /\ accepts \in SUBSET Schemes /\ valid \in SUBSET Nonces
        /\ serial \in BOOLEAN
    BY DEF Init
  <2>. QED
    BY <1>2, <1>3, <1>4, <2>1, <2>2, <2>3 DEF TypeOK
<1>. QED
  BY <1>1, <1>5 DEF TypeInv

\* The type invariant, with at most one response open per task, holds in every
\* behaviour of the client and the device.
THEOREM TypeCorrect == Spec => []TypeOK
<1>1. Init => TypeInv
  BY TypeInit
<1>2. TypeInv /\ [Next]_vars => TypeInv'
  BY TypeStep
<1>3. TypeInv => TypeOK
  BY DEF TypeInv
<1>. QED
  BY <1>1, <1>2, <1>3, PTL DEF Spec

-----------------------------------------------------------------------------
(* Responses are released.                                                 *)

\* However a call ends, it has closed every response it received.
THEOREM Released == Spec => []ResponsesReleased
<1>1. Init => TypeInv
  BY TypeInit
<1>2. TypeInv /\ [Next]_vars => TypeInv'
  BY TypeStep
<1>3. TypeInv => ResponsesReleased
  BY DEF TypeInv, OpenIffAnswered, ResponsesReleased
<1>. QED
  BY <1>1, <1>2, <1>3, PTL DEF Spec

-----------------------------------------------------------------------------
(* Consent.                                                                *)

\* The half of PasswordConfined that is inductive with the types alone.
BasicNeedsConsent ==
  ~fallback => ~useBasic /\ \A t \in Tasks : req[t].scheme # "basic"

\* What the steps that send a digest request do to the request in flight.
LEMMA SendDigestRequest ==
  ASSUME TypeOK, NEW t \in Tasks, NEW state \in DigestState,
         NEW challenged \in BOOLEAN, SendDigest(t, state, challenged)
  PROVE  /\ req' = [req EXCEPT ![t] = DigestHeader(Counted(state))]
         /\ req'[t].scheme # "basic"
BY HeaderType DEF SendDigest, Send, TypeOK

\* A step of task t that ends its call leaves it no request.
LEMMA CallEndsRequest ==
  ASSUME TypeOK, NEW t \in Tasks, NEW outcome, CallEnds(t, outcome)
  PROVE  req' = [req EXCEPT ![t] = NoRequest] /\ req'[t].scheme # "basic"
BY DEF CallEnds, TypeOK, NoRequest

LEMMA ConsentStep ==
  TypeInv /\ BasicNeedsConsent /\ [Next]_vars => BasicNeedsConsent'
<1>. SUFFICES ASSUME TypeInv, BasicNeedsConsent, [Next]_vars, fallback' = FALSE
              PROVE  ~useBasic' /\ \A t \in Tasks : req'[t].scheme # "basic"
  BY DEF BasicNeedsConsent, TypeInv, TypeOK, vars, Next, ClientStep, DeviceStep,
         CallStarts, ChallengeAnswered, ChallengeRaises, FallsBackToBasic,
         DigestReturns, BasicReturns, BodyRead, CallFails, DeviceServes,
         DeviceDenies, NonceExpires, DeviceLocks, DeviceUnlocks, clientVars
<1>. TypeOK
  BY DEF TypeInv
<1>1. ASSUME NEW t \in Tasks, CallStarts(t)
      PROVE  ~useBasic' /\ \A u \in Tasks : req'[u].scheme # "basic"
  <2>1. ~fallback /\ ~useBasic /\ UNCHANGED useBasic
    BY <1>1 DEF CallStarts, clientVars, BasicNeedsConsent
  <2>2. SendDigest(t, digest, FALSE) /\ digest \in DigestState
    BY <1>1, <2>1 DEF CallStarts, TypeOK
  <2>. QED
    BY <2>1, <2>2, SendDigestRequest DEF BasicNeedsConsent, TypeOK
<1>2. ASSUME NEW t \in Tasks, ChallengeAnswered(t)
      PROVE  ~useBasic' /\ \A u \in Tasks : req'[u].scheme # "basic"
  <2>. DEFINE state == WithChallenge(auth[t].state, ans[t].challenge)
  <2>1. state \in DigestState
    BY WithChallengeType DEF TypeOK, DigestAuth, Answer
  <2>2. SendDigest(t, state, TRUE)
    BY <1>2 DEF ChallengeAnswered
  <2>. HIDE DEF state
  <2>3. ~fallback /\ ~useBasic /\ UNCHANGED useBasic
    BY <1>2 DEF ChallengeAnswered, clientVars, BasicNeedsConsent
  <2>. QED
    BY <2>1, <2>2, <2>3, SendDigestRequest DEF BasicNeedsConsent, TypeOK
<1>3. ASSUME NEW t \in Tasks, FallsBackToBasic(t) PROVE FALSE
  BY <1>3 DEF FallsBackToBasic, FallbackDue
<1>4. ASSUME NEW t \in Tasks, NEW outcome, CallEnds(t, outcome), UNCHANGED clientVars
      PROVE  ~useBasic' /\ \A u \in Tasks : req'[u].scheme # "basic"
  BY <1>4, CallEndsRequest DEF BasicNeedsConsent, TypeOK, clientVars
<1>5. CASE UNCHANGED <<fallback, useBasic, req>>
  BY <1>5 DEF BasicNeedsConsent
<1>. QED
  BY <1>1, <1>2, <1>3, <1>4, <1>5
     DEF Next, ClientStep, DeviceStep, vars, clientVars, taskVars,
         ChallengeRaises, DigestReturns, BasicReturns, BodyRead, CallFails,
         DeviceServes, DeviceDenies, NonceExpires, DeviceLocks, DeviceUnlocks

-----------------------------------------------------------------------------
(* The budget of a negotiation.                                            *)

\* How many requests a call has sent where it is: one before its challenge is
\* answered and two after; a third only as the fallback.
Sends(t) ==
  /\ pc[t] = "digest" => /\ began[t].scheme # "basic"
                         /\ sends[t] = IF auth[t].challenged THEN 2 ELSE 1
  /\ pc[t] = "basic"  => began[t].scheme = "basic" \/ fallback
  /\ sends[t] <= IF began[t].scheme = "basic" THEN 1 ELSE IF fallback THEN 3 ELSE 2

BudgetInv == \A t \in Tasks : Sends(t)

\* Only the step of a task changes what its sends are counted by.
LEMMA BudgetFrame ==
  ASSUME TypeOK, NEW t \in Tasks, Sends(t),
         UNCHANGED <<fallback, sends[t], began[t], auth[t]>>,
         pc'[t] \in {pc[t], "idle", "body"}
  PROVE  Sends(t)'
BY DEF Sends

LEMMA BudgetStep == TypeInv /\ TypeInv' /\ BudgetInv /\ [Next]_vars => BudgetInv'
<1>. SUFFICES ASSUME TypeInv, TypeInv', BudgetInv, [Next]_vars, NEW t \in Tasks
              PROVE  Sends(t)'
  BY DEF BudgetInv
<1>. TypeOK /\ TypeOK'
  BY DEF TypeInv
<1>. Sends(t)
  BY DEF BudgetInv
<1>1. ASSUME NEW u \in Tasks, CallStarts(u) PROVE Sends(t)'
  <2>1. CASE u # t
    BY <1>1, <2>1, BudgetFrame DEF CallStarts, SendDigest, clientVars, TypeOK
  <2>2. CASE u = t /\ useBasic
    BY <1>1, <2>2 DEF CallStarts, Sends, TypeOK, Basic, clientVars
  <2>3. CASE u = t /\ ~useBasic
    <3>1. DigestHeader(Counted(digest)).scheme # "basic"
      BY HeaderType DEF TypeOK
    <3>2. /\ pc'[t] = "digest" /\ sends'[t] = 1
          /\ began'[t] = DigestHeader(Counted(digest))
          /\ auth'[t].challenged = FALSE
      BY <1>1, <2>3 DEF CallStarts, SendDigest, TypeOK
    <3>. QED
      BY <3>1, <3>2 DEF Sends
  <2>. QED
    BY <2>1, <2>2, <2>3
<1>2. ASSUME NEW u \in Tasks, ChallengeAnswered(u) PROVE Sends(t)'
  <2>1. CASE u # t
    BY <1>2, <2>1, BudgetFrame DEF ChallengeAnswered, SendDigest, clientVars, TypeOK
  <2>2. CASE u = t
    <3>1. pc[t] = "digest" /\ ~auth[t].challenged /\ sends'[t] = sends[t] + 1
      BY <1>2, <2>2 DEF ChallengeAnswered, TakenUp, TypeOK
    <3>2. auth'[t].challenged = TRUE /\ UNCHANGED <<fallback, pc, began>>
      BY <1>2, <2>2 DEF ChallengeAnswered, SendDigest, TypeOK, clientVars
    <3>. QED
      BY <3>1, <3>2 DEF Sends
  <2>. QED
    BY <2>1, <2>2
<1>3. ASSUME NEW u \in Tasks, FallsBackToBasic(u) PROVE Sends(t)'
  <2>1. CASE u # t
    BY <1>3, <2>1, BudgetFrame DEF FallsBackToBasic, TypeOK
  <2>2. CASE u = t
    <3>1. pc[t] = "digest" /\ fallback /\ sends'[t] = sends[t] + 1
      BY <1>3, <2>2 DEF FallsBackToBasic, HandshakeOver, FallbackDue, TypeOK
    <3>2. pc'[t] = "basic" /\ UNCHANGED <<fallback, began>>
      BY <1>3, <2>2 DEF FallsBackToBasic, TypeOK
    <3>. QED
      BY <3>1, <3>2 DEF Sends
  <2>. QED
    BY <2>1, <2>2
<1>4. ASSUME NEW u \in Tasks, pc' = [pc EXCEPT ![u] = "idle"] \/ pc' = [pc EXCEPT ![u] = "body"],
             UNCHANGED <<fallback, sends, began, auth>>
      PROVE  Sends(t)'
  BY <1>4, BudgetFrame DEF TypeOK
<1>5. CASE UNCHANGED <<fallback, sends, began, auth, pc>>
  BY <1>5, BudgetFrame
<1>. QED
  BY <1>1, <1>2, <1>3, <1>4, <1>5
     DEF Next, ClientStep, DeviceStep, vars, clientVars, taskVars, historyVars,
         ChallengeRaises, DigestReturns, BasicReturns, BodyRead, CallFails, CallEnds,
         DeviceServes, DeviceDenies, NonceExpires, DeviceLocks, DeviceUnlocks

\* Rejected credentials stop: no call ever sends more than three requests, two
\* without the fallback, one once the switch to basic has been made.
THEOREM Budget == Spec => []NegotiationBudget
<1>1. Init => TypeInv /\ BudgetInv
  <2>1. Init => BudgetInv
    <3>. SUFFICES ASSUME Init, NEW t \in Tasks PROVE Sends(t)
      BY DEF BudgetInv
    <3>1. pc[t] = "idle" /\ sends[t] = 0
      BY DEF Init
    <3>. QED
      BY <3>1 DEF Sends
  <2>. QED
    BY <2>1, TypeInit
<1>2. TypeInv /\ BudgetInv /\ [Next]_vars => TypeInv' /\ BudgetInv'
  BY TypeStep, BudgetStep
<1>3. BudgetInv => NegotiationBudget
  BY DEF BudgetInv, Sends, NegotiationBudget
<1>. QED
  BY <1>1, <1>2, <1>3, PTL DEF Spec

-----------------------------------------------------------------------------
(* The nonce count.                                                        *)

\* Sending only adds to the uses of a nonce, and what it counts is behind them.
LEMMA SendCounted ==
  ASSUME TypeOK, NEW t \in Tasks, NEW state \in DigestState,
         NEW challenged \in BOOLEAN, SendDigest(t, state, challenged),
         state.last_nonce # 0 => state.nonce_count <= uses[state.last_nonce]
  PROVE  LET new == Counted(state)
             h == DigestHeader(new)
         IN /\ \A n \in Nonces : uses[n] \in Nat /\ uses'[n] \in Nat /\ uses[n] <= uses'[n]
            /\ new.last_nonce # 0 => new.nonce_count <= uses'[new.last_nonce]
            /\ h.nonce # 0 => h.nc <= uses'[h.nonce]
<1>. DEFINE new == Counted(state)
            h == DigestHeader(new)
<1>1. h \in Request /\ (h.scheme = "digest" => h.nonce \in Nonces)
  BY HeaderType
<1>2. uses' = IF h.scheme = "digest" THEN [uses EXCEPT ![h.nonce] = @ + 1] ELSE uses
  BY DEF SendDigest, Send
<1>3. uses \in [Nonces -> Nat]
  BY DEF TypeOK
<1>4. CASE state.challenge.alg # "md5"
  <2>1. new = state /\ h = NoRequest
    BY <1>4 DEF Counted, DigestHeader
  <2>. HIDE DEF new, h
  <2>2. h.scheme # "digest" /\ h.nonce = 0
    BY <2>1 DEF NoRequest
  <2>3. uses' = uses /\ \A n \in Nonces : uses[n] \in Nat
    BY <1>2, <1>3, <2>2
  <2>. QED
    BY <2>1, <2>2, <2>3 DEF new, h
<1>5. CASE state.challenge.alg = "md5"
  <2>1. /\ new.last_nonce = state.challenge.nonce
        /\ new.nonce_count = IF state.challenge.nonce = state.last_nonce
                               THEN state.nonce_count + 1 ELSE 1
    BY <1>5 DEF Counted, DigestState
  <2>2. new.challenge = state.challenge
    BY CountedType
  <2>3. h = [scheme |-> "digest", nonce |-> new.last_nonce, nc |-> new.nonce_count]
    BY <1>5, <2>2 DEF DigestHeader
  <2>4. state.nonce_count \in Nat
    BY DEF DigestState
  <2>. HIDE DEF new, h
  <2>5. h.nonce = new.last_nonce /\ h.nc = new.nonce_count /\ h.nonce \in Nonces /\ h.scheme = "digest"
    BY <1>1, <2>3
  <2>6. uses'[h.nonce] = uses[h.nonce] + 1 /\ \A n \in Nonces : n # h.nonce => uses'[n] = uses[n]
    BY <1>2, <1>3, <2>5
  <2>7. \A n \in Nonces : uses[n] \in Nat
    BY <1>3
  <2>8. new.nonce_count <= uses'[new.last_nonce]
    <3>1. CASE state.challenge.nonce = state.last_nonce
      <4>1. state.last_nonce = new.last_nonce /\ state.last_nonce # 0
        BY <2>1, <2>5, <3>1 DEF Nonces
      <4>. QED
        BY <2>1, <2>4, <2>5, <2>6, <2>7, <3>1, <4>1
    <3>2. CASE state.challenge.nonce # state.last_nonce
      BY <2>1, <2>5, <2>6, <2>7, <3>2
    <3>. QED
      BY <3>1, <3>2
  <2>9. \A n \in Nonces : uses[n] \in Nat /\ uses'[n] \in Nat /\ uses[n] <= uses'[n]
    BY <2>5, <2>6, <2>7
  <2>. QED
    BY <2>5, <2>8, <2>9 DEF new, h
<1>. QED
  BY <1>4, <1>5

\* What is remembered, carried or in flight is behind the uses of its nonce.
\* (The three places a count can be, as separate facts.)
BehindState(state) == state.last_nonce # 0 => state.nonce_count <= uses[state.last_nonce]
BehindRequest(r)   == r.nonce # 0 => r.nc <= uses[r.nonce]

LEMMA CountParts ==
  CountNeverAhead <=> /\ BehindState(digest)
                      /\ \A t \in Tasks : BehindState(auth[t].state) /\ BehindRequest(req[t])
BY DEF CountNeverAhead, BehindState, BehindRequest

\* More uses keep every count behind.
LEMMA BehindGrows ==
  ASSUME TypeOK,
         \A n \in Nonces : uses[n] \in Nat /\ uses'[n] \in Nat /\ uses[n] <= uses'[n]
  PROVE  /\ \A state \in DigestState : BehindState(state) =>
               (state.last_nonce # 0 => state.nonce_count <= uses'[state.last_nonce])
         /\ \A r \in Request : BehindRequest(r) => (r.nonce # 0 => r.nc <= uses'[r.nonce])
<1>1. ASSUME NEW n \in 0..MaxNonce, n # 0 PROVE n \in Nonces
  BY <1>1, NegotiationAssumption DEF Nonces
<1>2. ASSUME NEW state \in DigestState, BehindState(state), state.last_nonce # 0
      PROVE  state.nonce_count <= uses'[state.last_nonce]
  <2>1. state.last_nonce \in Nonces /\ state.nonce_count \in Nat
    BY <1>1, <1>2 DEF DigestState
  <2>2. state.nonce_count <= uses[state.last_nonce]
    BY <1>2 DEF BehindState
  <2>. QED
    BY <2>1, <2>2
<1>3. ASSUME NEW r \in Request, BehindRequest(r), r.nonce # 0
      PROVE  r.nc <= uses'[r.nonce]
  <2>1. r.nonce \in Nonces /\ r.nc \in Nat
    BY <1>1, <1>3 DEF Request
  <2>2. r.nc <= uses[r.nonce]
    BY <1>3 DEF BehindRequest
  <2>. QED
    BY <2>1, <2>2
<1>. QED
  BY <1>2, <1>3

\* A digest request keeps every count behind.
LEMMA SendDigestBehind ==
  ASSUME TypeOK, CountNeverAhead, NEW t \in Tasks, NEW state \in DigestState,
         NEW challenged \in BOOLEAN, SendDigest(t, state, challenged),
         BehindState(state), UNCHANGED digest
  PROVE  CountNeverAhead'
<1>1. /\ \A n \in Nonces : uses[n] \in Nat /\ uses'[n] \in Nat /\ uses[n] <= uses'[n]
      /\ Counted(state).last_nonce # 0
           => Counted(state).nonce_count <= uses'[Counted(state).last_nonce]
      /\ DigestHeader(Counted(state)).nonce # 0
           => DigestHeader(Counted(state)).nc <= uses'[DigestHeader(Counted(state)).nonce]
  BY SendCounted DEF BehindState
<1>2. /\ auth' = [auth EXCEPT ![t] = [state |-> Counted(state), challenged |-> challenged]]
      /\ req' = [req EXCEPT ![t] = DigestHeader(Counted(state))]
  BY DEF SendDigest, Send
<1>3. BehindState(digest)'
  BY <1>1, BehindGrows, CountParts DEF BehindState, TypeOK
<1>4. ASSUME NEW u \in Tasks PROVE BehindState(auth[u].state)'
  <2>1. CASE u = t
    BY <1>1, <1>2, <2>1 DEF BehindState, TypeOK
  <2>2. CASE u # t
    <3>1. auth'[u] = auth[u] /\ auth[u].state \in DigestState
      BY <1>2, <2>2 DEF TypeOK, DigestAuth
    <3>2. BehindState(auth[u].state)
      BY CountParts
    <3>. QED
      BY <1>1, <3>1, <3>2, BehindGrows DEF BehindState
  <2>. QED
    BY <2>1, <2>2
<1>5. ASSUME NEW u \in Tasks PROVE BehindRequest(req[u])'
  <2>1. CASE u = t
    BY <1>1, <1>2, <2>1 DEF BehindRequest, TypeOK
  <2>2. CASE u # t
    <3>1. req'[u] = req[u] /\ req[u] \in Request
      BY <1>2, <2>2 DEF TypeOK
    <3>2. BehindRequest(req[u])
      BY CountParts
    <3>. QED
      BY <1>1, <3>1, <3>2, BehindGrows DEF BehindRequest
  <2>. QED
    BY <2>1, <2>2
<1>. QED
  BY <1>3, <1>4, <1>5, CountParts DEF CountNeverAhead, BehindState, BehindRequest

\* Steps that send no digest request leave the uses alone, and a remembered
\* state or a request they write was behind already.
LEMMA NoDigestSentBehind ==
  ASSUME TypeOK, CountNeverAhead, UNCHANGED <<uses, auth>>,
         digest' = digest \/ \E t \in Tasks : digest' = auth[t].state,
         \A t \in Tasks : req'[t] = req[t] \/ req'[t].nonce = 0
  PROVE  CountNeverAhead'
BY DEF CountNeverAhead

LEMMA CountStep == TypeInv /\ CountNeverAhead /\ [Next]_vars => CountNeverAhead'
<1>. SUFFICES ASSUME TypeInv, CountNeverAhead, [Next]_vars PROVE CountNeverAhead'
  OBVIOUS
<1>. TypeOK
  BY DEF TypeInv
<1>1. ASSUME NEW t \in Tasks, CallStarts(t) PROVE CountNeverAhead'
  <2>1. CASE useBasic
    <3>1. /\ UNCHANGED <<uses, auth, digest>>
          /\ req' = [req EXCEPT ![t] = Basic]
      BY <1>1, <2>1 DEF CallStarts, Send, Basic, clientVars
    <3>. QED
      BY <3>1, NoDigestSentBehind DEF Basic, TypeOK
  <2>2. CASE ~useBasic
    <3>1. SendDigest(t, digest, FALSE) /\ digest \in DigestState /\ UNCHANGED digest
      BY <1>1, <2>2 DEF CallStarts, TypeOK, clientVars
    <3>2. BehindState(digest)
      BY CountParts
    <3>. QED
      BY <3>1, <3>2, SendDigestBehind
  <2>. QED
    BY <2>1, <2>2
<1>2. ASSUME NEW t \in Tasks, ChallengeAnswered(t) PROVE CountNeverAhead'
  <2>. DEFINE state == WithChallenge(auth[t].state, ans[t].challenge)
  <2>1. state \in DigestState
    BY WithChallengeType DEF TypeOK, DigestAuth, Answer
  <2>2. SendDigest(t, state, TRUE) /\ UNCHANGED digest
    BY <1>2 DEF ChallengeAnswered, clientVars
  <2>3. BehindState(auth[t].state) /\ auth[t].state \in DigestState
    BY CountParts DEF TypeOK, DigestAuth
  <2>4. BehindState(state)
    BY <2>3 DEF WithChallenge, BehindState, DigestState
  <2>. HIDE DEF state
  <2>. QED
    BY <2>1, <2>2, <2>4, SendDigestBehind
<1>3. ASSUME NEW t \in Tasks, FallsBackToBasic(t) PROVE CountNeverAhead'
  <2>1. /\ UNCHANGED <<uses, auth>>
        /\ digest' = auth[t].state
        /\ req' = [req EXCEPT ![t] = Basic]
    BY <1>3 DEF FallsBackToBasic, RememberDigest, Send, Basic
  <2>. QED
    BY <2>1, NoDigestSentBehind DEF Basic, TypeOK
<1>4. ASSUME NEW t \in Tasks, DigestReturns(t) PROVE CountNeverAhead'
  BY <1>4, NoDigestSentBehind DEF DigestReturns, RememberDigest, historyVars
<1>5. ASSUME NEW t \in Tasks, NEW outcome, CallEnds(t, outcome),
             UNCHANGED <<uses, auth, digest>>
      PROVE  CountNeverAhead'
  BY <1>5, CallEndsRequest, NoDigestSentBehind DEF TypeOK, NoRequest
<1>6. CASE UNCHANGED <<uses, auth, digest, req>>
  BY <1>6, NoDigestSentBehind
<1>. QED
  BY <1>1, <1>2, <1>3, <1>4, <1>5, <1>6
     DEF Next, ClientStep, DeviceStep, vars, clientVars, taskVars, historyVars,
         ChallengeRaises, BasicReturns, BodyRead, CallFails,
         DeviceServes, DeviceDenies, NonceExpires, DeviceLocks, DeviceUnlocks

\* Whichever calls overlap or fail, no nonce count runs ahead of the requests
\* made under its nonce.
THEOREM CountBehind == Spec => []CountNeverAhead
<1>1. Init => TypeInv /\ CountNeverAhead
  <2>1. Init => CountNeverAhead
    BY DEF Init, CountNeverAhead, NoDigestState, NewAuth, NoRequest
  <2>. QED
    BY <2>1, TypeInit
<1>2. TypeInv /\ CountNeverAhead /\ [Next]_vars => TypeInv' /\ CountNeverAhead'
  BY TypeStep, CountStep
<1>. QED
  BY <1>1, <1>2, PTL DEF Spec

-----------------------------------------------------------------------------
(* What a call reports is about the device.                                *)

\* The device takes digest and has locked nobody out.
Steady == "digest" \in accepts /\ lockouts = 0

Usable == accepts \cap (IF fallback THEN Schemes ELSE {"digest"})

\* On a steady device a challenge is always answered in time: a request that
\* answers one is going to be granted, so the only denials are those that open
\* a handshake, with a challenge the client can use.
HandshakeSucceeds(t) ==
  Steady =>
    /\ pc[t] # "basic" /\ req[t].scheme # "basic"
    /\ (pc[t] = "digest" /\ auth[t].challenged /\ ~Answered(t)) => Granted(req[t])
    /\ ans[t].status = "denied" =>
         /\ pc[t] = "digest" /\ ~auth[t].challenged
         /\ ans[t].challenge.alg = "md5" /\ ans[t].challenge.nonce \in valid
         /\ ans[t].challenge \in Challenge

\* Every answer, and every outcome, says something true of the device.
AnswersTrue(t) ==
  /\ pc[t] = "basic" => req[t].scheme = "basic"
  /\ ans[t].status = "served" => Usable # {}
  /\ (ans[t].status = "denied" /\ pc[t] = "basic") => "basic" \notin accepts \/ lockouts > 0
  /\ (ans[t].status = "denied" /\ pc[t] = "body") => Usable = {} \/ lockouts > 0
  /\ result[t] = "auth_error" => Usable = {} \/ lockouts > 0
  /\ result[t] = "ok" => Usable # {}

OutcomeInv ==
  /\ "digest" \in accepts => header = "md5"
  /\ lockouts = 0 => ~locked
  /\ Steady => ~useBasic
  /\ \A t \in Tasks : HandshakeSucceeds(t) /\ AnswersTrue(t)

IInv == TypeInv /\ BasicNeedsConsent /\ OutcomeInv

\* The answer to an md5 challenge presents its nonce.
LEMMA AnswerPresentsNonce ==
  ASSUME NEW state \in DigestState, NEW c \in Challenge, c.alg = "md5"
  PROVE  /\ DigestHeader(Counted(WithChallenge(state, c))).scheme = "digest"
         /\ DigestHeader(Counted(WithChallenge(state, c))).nonce = c.nonce
<1>. DEFINE new == WithChallenge(state, c)
<1>1. new \in DigestState /\ new.challenge = c
  BY WithChallengeType DEF WithChallenge, DigestState
<1>. HIDE DEF new
<1>2. Counted(new).challenge = c /\ Counted(new).last_nonce = c.nonce
  BY <1>1, CountedType DEF Counted, DigestState
<1>. QED
  BY <1>2 DEF DigestHeader, new

\* A step that leaves task t, the device and the switches alone keeps what is
\* known of the task.
LEMMA OutcomeFrame ==
  ASSUME NEW t \in Tasks, HandshakeSucceeds(t), AnswersTrue(t),
         UNCHANGED <<pc[t], req[t], ans[t], result[t], auth[t], accepts, fallback,
                     locked, lockouts>>,
         valid \subseteq valid'
  PROVE  HandshakeSucceeds(t)' /\ AnswersTrue(t)'
BY DEF HandshakeSucceeds, AnswersTrue, Steady, Usable, Granted, Answered, Schemes

\* A call that ends keeps it too, if its outcome is true of the device.
LEMMA OutcomeEnds ==
  ASSUME TypeOK, NEW u \in Tasks, NEW t \in Tasks, NEW outcome, CallEnds(u, outcome),
         HandshakeSucceeds(t), AnswersTrue(t),
         outcome = "auth_error" => Usable = {} \/ lockouts > 0,
         outcome = "ok" => Usable # {},
         UNCHANGED <<auth, accepts, fallback, locked, lockouts, valid>>
  PROVE  HandshakeSucceeds(t)' /\ AnswersTrue(t)'
<1>1. CASE t = u
  <2>1. pc'[t] = "idle" /\ req'[t] = NoRequest /\ ans'[t] = NoAnswer /\ result'[t] = outcome
    BY <1>1 DEF CallEnds, TypeOK
  <2>2. UNCHANGED Usable
    BY DEF Usable
  <2>. QED
    BY <2>1, <2>2 DEF HandshakeSucceeds, AnswersTrue, NoAnswer, NoRequest, Answered
<1>2. CASE t # u
  BY <1>2, OutcomeFrame DEF CallEnds, TypeOK
<1>. QED
  BY <1>1, <1>2

LEMMA OutcomeStep == IInv /\ [Next]_vars => OutcomeInv'
<1>. SUFFICES ASSUME IInv, [Next]_vars PROVE OutcomeInv'
  OBVIOUS
<1>0. TypeOK /\ TypeInv /\ OutcomeInv /\ BasicNeedsConsent
  BY DEF IInv, TypeInv
<1>. DEFINE Known(t) == HandshakeSucceeds(t) /\ AnswersTrue(t)
<1>1. ASSUME NEW u \in Tasks, CallStarts(u) PROVE OutcomeInv'
  <2>1. UNCHANGED <<fallback, useBasic, accepts, header, valid, locked, lockouts>>
    BY <1>1 DEF CallStarts, clientVars, deviceVars
  <2>2. ASSUME NEW t \in Tasks, t # u PROVE Known(t)'
    BY <1>0, <1>1, <2>1, <2>2, OutcomeFrame
       DEF CallStarts, Send, SendDigest, TypeOK, OutcomeInv
  <2>3. ans'[u] = NoAnswer /\ result'[u] = "pending"
    BY <1>0, <1>1 DEF CallStarts, Send, SendDigest, TypeOK
  <2>4. CASE useBasic
    <3>1. pc'[u] = "basic" /\ req'[u] = Basic
      BY <1>0, <1>1, <2>4 DEF CallStarts, Send, TypeOK, Basic
    <3>. QED
      BY <1>0, <2>1, <2>2, <2>3, <2>4, <3>1
         DEF OutcomeInv, HandshakeSucceeds, AnswersTrue, Steady, NoAnswer, Basic
  <2>5. CASE ~useBasic
    <3>1. SendDigest(u, digest, FALSE) /\ pc' = [pc EXCEPT ![u] = "digest"] /\ digest \in DigestState
      BY <1>0, <1>1, <2>5 DEF CallStarts, TypeOK
    <3>2. /\ req'[u].scheme # "basic"
          /\ auth'[u].challenged = FALSE
          /\ pc'[u] = "digest"
      BY <1>0, <3>1, SendDigestRequest DEF SendDigest, TypeOK
    <3>. QED
      BY <1>0, <2>1, <2>2, <2>3, <3>2
         DEF OutcomeInv, HandshakeSucceeds, AnswersTrue, Steady, NoAnswer
  <2>. QED
    BY <2>4, <2>5
<1>2. ASSUME NEW u \in Tasks, ChallengeAnswered(u) PROVE OutcomeInv'
  <2>. DEFINE c == ans[u].challenge
              state == WithChallenge(auth[u].state, c)
  <2>1. UNCHANGED <<pc, result, fallback, useBasic, accepts, header, valid, locked, lockouts>>
    BY <1>2 DEF ChallengeAnswered, clientVars, deviceVars
  <2>2. state \in DigestState /\ auth[u].state \in DigestState
    BY <1>0, WithChallengeType DEF TypeOK, DigestAuth, Answer
  <2>3. SendDigest(u, state, TRUE) /\ ans[u].status = "denied" /\ pc[u] = "digest"
    BY <1>2 DEF ChallengeAnswered, TakenUp
  <2>4. ASSUME NEW t \in Tasks, t # u PROVE Known(t)'
    BY <1>0, <2>1, <2>3, <2>4, OutcomeFrame DEF Send, SendDigest, TypeOK, OutcomeInv
  <2>5. /\ req'[u] = DigestHeader(Counted(state))
        /\ ans'[u] = NoAnswer
        /\ req'[u].scheme # "basic"
    BY <1>0, <2>2, <2>3, SendDigestRequest DEF SendDigest, Send, TypeOK
  <2>6. Steady => Granted(req[u])'
    <3>. SUFFICES ASSUME Steady PROVE Granted(req[u])'
      OBVIOUS
    <3>1. c.alg = "md5" /\ c.nonce \in valid /\ c \in Challenge
      BY <1>0, <2>3 DEF OutcomeInv, HandshakeSucceeds
    <3>2. req'[u].scheme = "digest" /\ req'[u].nonce = c.nonce
      BY <2>2, <2>5, <3>1, AnswerPresentsNonce
    <3>3. ~locked /\ "digest" \in accepts
      BY <1>0 DEF OutcomeInv, Steady
    <3>. QED
      BY <2>1, <3>1, <3>2, <3>3 DEF Granted
  <2>. HIDE DEF state
  <2>. QED
    BY <1>0, <2>1, <2>3, <2>4, <2>5, <2>6
       DEF OutcomeInv, HandshakeSucceeds, AnswersTrue, Steady, NoAnswer, Usable
<1>3. ASSUME NEW u \in Tasks, FallsBackToBasic(u) PROVE OutcomeInv'
  <2>1. UNCHANGED <<auth, result, fallback, accepts, header, valid, locked, lockouts>>
    BY <1>3 DEF FallsBackToBasic, deviceVars
  <2>2. ASSUME NEW t \in Tasks, t # u PROVE Known(t)'
    BY <1>0, <1>3, <2>1, <2>2, OutcomeFrame DEF FallsBackToBasic, Send, TypeOK, OutcomeInv
  <2>3. ~Steady
    BY <1>0, <1>3 DEF FallsBackToBasic, FallbackDue, HandshakeOver, TakenUp,
                      OutcomeInv, HandshakeSucceeds, NoChallenge
  <2>4. pc'[u] = "basic" /\ req'[u] = Basic /\ ans'[u] = NoAnswer
    BY <1>0, <1>3 DEF FallsBackToBasic, Send, TypeOK
  <2>. QED
    BY <1>0, <2>1, <2>2, <2>3, <2>4
       DEF OutcomeInv, HandshakeSucceeds, AnswersTrue, Steady, NoAnswer, Basic, Usable
<1>4. ASSUME NEW u \in Tasks, DigestReturns(u) \/ BasicReturns(u) PROVE OutcomeInv'
  <2>1. UNCHANGED <<useBasic, req, ans, auth, result, fallback, accepts, header, valid,
                    locked, lockouts>>
    BY <1>4 DEF DigestReturns, BasicReturns, clientVars, deviceVars, historyVars
  <2>2. pc' = [pc EXCEPT ![u] = "body"] /\ Answered(u)
    BY <1>4 DEF DigestReturns, BasicReturns, HandshakeOver
  <2>3. ASSUME NEW t \in Tasks, t # u PROVE Known(t)'
    BY <1>0, <2>1, <2>2, <2>3, OutcomeFrame DEF TypeOK, OutcomeInv
  <2>4. ans[u].status = "denied" => ~Steady
    BY <1>0, <1>4 DEF DigestReturns, BasicReturns, HandshakeOver, TakenUp,
                      OutcomeInv, HandshakeSucceeds, NoChallenge
  <2>5. ans[u].status = "denied" => Usable = {} \/ lockouts > 0
    <3>1. CASE DigestReturns(u)
      BY <1>0, <2>4, <3>1 DEF DigestReturns, FallbackDue, Usable, Steady, TypeOK
    <3>2. CASE BasicReturns(u)
      BY <1>0, <2>4, <3>2 DEF BasicReturns, Usable, Steady, Schemes,
                              OutcomeInv, AnswersTrue, TypeOK
    <3>. QED
      BY <1>4, <3>1, <3>2
  <2>6. pc'[u] = "body"
    BY <1>0, <2>2 DEF TypeOK
  <2>7. AnswersTrue(u)'
    BY <1>0, <2>1, <2>5, <2>6 DEF OutcomeInv, AnswersTrue, Usable
  <2>8. HandshakeSucceeds(u)'
    BY <1>0, <2>1, <2>4, <2>6 DEF OutcomeInv, HandshakeSucceeds, Steady
  <2>. QED
    BY <1>0, <2>1, <2>3, <2>7, <2>8 DEF OutcomeInv, Steady
<1>5. ASSUME NEW u \in Tasks, NEW outcome, CallEnds(u, outcome),
             outcome = "auth_error" => Usable = {} \/ lockouts > 0,
             outcome = "ok" => Usable # {},
             UNCHANGED <<auth, clientVars, deviceVars, lockouts>>
      PROVE  OutcomeInv'
  BY <1>0, <1>5, OutcomeEnds DEF OutcomeInv, Steady, clientVars, deviceVars
<1>6. ASSUME NEW u \in Tasks, BodyRead(u) PROVE OutcomeInv'
  <2>. DEFINE outcome == IF ans[u].status = "denied" THEN "auth_error" ELSE "ok"
  <2>1. CallEnds(u, outcome) /\ UNCHANGED <<auth, clientVars, deviceVars, lockouts>>
    BY <1>6 DEF BodyRead, historyVars
  <2>2. pc[u] = "body" /\ Answered(u) /\ ans[u].status \in {"served", "denied", "none"}
    BY <1>0, <1>6 DEF BodyRead, TypeInv, OpenIffAnswered, TypeOK, Answer
  <2>3. /\ outcome = "auth_error" => Usable = {} \/ lockouts > 0
        /\ outcome = "ok" => Usable # {}
    BY <1>0, <2>2 DEF OutcomeInv, AnswersTrue, Answered
  <2>. HIDE DEF outcome
  <2>. QED
    BY <1>5, <2>1, <2>3
<1>7. ASSUME NEW u \in Tasks, ChallengeRaises(u) PROVE OutcomeInv'
  BY <1>5, <1>7 DEF ChallengeRaises, historyVars
<1>8. ASSUME NEW u \in Tasks, NEW fault \in AllFaults, CallFails(u, fault) PROVE OutcomeInv'
  BY <1>5, <1>8 DEF CallFails, historyVars, AllFaults
<1>9. ASSUME NEW u \in Tasks, DeviceServes(u) PROVE OutcomeInv'
  <2>1. UNCHANGED <<pc, auth, req, result, fallback, useBasic, accepts, header, valid,
                    locked, lockouts>>
    BY <1>9 DEF DeviceServes, clientVars, deviceVars, historyVars
  <2>2. ASSUME NEW t \in Tasks, t # u PROVE Known(t)'
    BY <1>0, <1>9, <2>1, <2>2, OutcomeFrame DEF DeviceServes, Arrives, TypeOK, OutcomeInv
  <2>3. ans'[u].status = "served"
    BY <1>0, <1>9 DEF DeviceServes, Arrives, TypeOK
  <2>4. Usable # {}
    BY <1>0, <1>9 DEF DeviceServes, Granted, Usable, BasicNeedsConsent, Schemes, TypeOK
  <2>. QED
    BY <1>0, <2>1, <2>2, <2>3, <2>4
       DEF OutcomeInv, HandshakeSucceeds, AnswersTrue, Steady, Usable, Answered
<1>10. ASSUME NEW u \in Tasks, DeviceDenies(u) PROVE OutcomeInv'
  <2>1. UNCHANGED <<pc, auth, req, result, fallback, useBasic, accepts, header, locked, lockouts>>
    BY <1>10 DEF DeviceDenies, clientVars, historyVars
  <2>2. PICK c \in Offers :
          /\ ans' = [ans EXCEPT ![u] = [status |-> "denied", challenge |-> c]]
          /\ valid' = IF c = NoChallenge THEN valid ELSE valid \cup {c.nonce}
    BY <1>10 DEF DeviceDenies, Arrives
  <2>3. ASSUME NEW t \in Tasks, t # u PROVE Known(t)'
    BY <1>0, <2>1, <2>2, <2>3, OutcomeFrame DEF TypeOK, OutcomeInv
  <2>4. ans'[u] = [status |-> "denied", challenge |-> c]
    BY <1>0, <2>2 DEF TypeOK
  <2>5. pc[u] \in Schemes /\ ~Answered(u) /\ ~Granted(req[u])
    BY <1>10 DEF DeviceDenies
  <2>6. Steady => c \in Challenge /\ c.alg = "md5" /\ c.nonce \in valid'
    <3>. SUFFICES ASSUME Steady PROVE c \in Challenge /\ c.alg = "md5" /\ c.nonce \in valid'
      OBVIOUS
    <3>1. header = "md5"
      BY <1>0 DEF OutcomeInv, Steady
    <3>2. c \in Challenge /\ c.alg = "md5"
      BY <2>2, <3>1 DEF Offers, Challengeable, Challenge, Algorithms
    <3>3. c # NoChallenge
      BY <3>2 DEF NoChallenge
    <3>. QED
      BY <2>2, <3>2, <3>3
  <2>7. HandshakeSucceeds(u)'
    BY <1>0, <2>1, <2>4, <2>5, <2>6
       DEF OutcomeInv, HandshakeSucceeds, Steady, Schemes, Answered
  <2>8. pc[u] = "basic" => "basic" \notin accepts \/ lockouts > 0
    BY <1>0, <2>5, NegotiationAssumption DEF OutcomeInv, AnswersTrue, Granted, TypeOK
  <2>9. AnswersTrue(u)'
    BY <1>0, <2>1, <2>4, <2>5, <2>8 DEF OutcomeInv, AnswersTrue, Usable, Schemes
  <2>. QED
    BY <1>0, <2>1, <2>3, <2>7, <2>9 DEF OutcomeInv, Steady
<1>11. ASSUME NEW n \in Nonces, NonceExpires(n) PROVE OutcomeInv'
  <2>1. UNCHANGED <<pc, auth, req, ans, result, fallback, useBasic, accepts, header, locked, lockouts>>
    BY <1>11 DEF NonceExpires, clientVars, taskVars, historyVars
  <2>2. valid' = valid \ {n} /\ \A t \in Tasks : ~BeingAnswered(t, n)
    BY <1>11 DEF NonceExpires
  <2>3. ASSUME NEW t \in Tasks PROVE AnswersTrue(t)'
    BY <1>0, <2>1 DEF OutcomeInv, AnswersTrue, Usable
  <2>4. ASSUME NEW t \in Tasks PROVE HandshakeSucceeds(t)'
    BY <1>0, <2>1, <2>2
       DEF OutcomeInv, HandshakeSucceeds, Steady, BeingAnswered, Granted, Answered
  <2>. QED
    BY <1>0, <2>1, <2>3, <2>4 DEF OutcomeInv, Steady
<1>12. CASE DeviceLocks
  <2>1. UNCHANGED <<pc, auth, req, ans, result, fallback, useBasic, accepts, header, valid>>
    BY <1>12 DEF DeviceLocks, clientVars, taskVars
  <2>2. lockouts' > 0 /\ lockouts' # 0
    BY <1>0, <1>12, NegotiationAssumption DEF DeviceLocks, TypeOK
  <2>3. ~Steady'
    BY <2>2 DEF Steady
  <2>. QED
    BY <1>0, <2>1, <2>2, <2>3
       DEF OutcomeInv, HandshakeSucceeds, AnswersTrue, Usable
<1>13. CASE DeviceUnlocks
  <2>1. /\ UNCHANGED <<pc, auth, req, ans, result, fallback, useBasic, accepts, header, valid, lockouts>>
        /\ locked' = FALSE
    BY <1>13 DEF DeviceUnlocks, clientVars, taskVars, historyVars
  <2>. QED
    BY <1>0, <2>1
       DEF OutcomeInv, HandshakeSucceeds, AnswersTrue, Steady, Usable, Answered, Granted
<1>14. CASE UNCHANGED vars
  BY <1>0, <1>14
     DEF OutcomeInv, HandshakeSucceeds, AnswersTrue, Steady, Usable, Answered, Granted,
         vars, clientVars, taskVars, deviceVars, historyVars
<1>. QED
  BY <1>1, <1>2, <1>3, <1>4, <1>6, <1>7, <1>8, <1>9, <1>10, <1>11, <1>12, <1>13, <1>14
     DEF Next, ClientStep, DeviceStep

LEMMA OutcomeInit == Init => IInv
<1>. SUFFICES ASSUME Init PROVE IInv
  OBVIOUS
<1>1. TypeInv
  BY TypeInit
<1>2. BasicNeedsConsent
  BY DEF Init, BasicNeedsConsent, NoRequest
<1>3. "digest" \in accepts => header = "md5"
  BY DEF Init
<1>4. ASSUME NEW t \in Tasks PROVE HandshakeSucceeds(t) /\ AnswersTrue(t)
  BY DEF Init, HandshakeSucceeds, AnswersTrue, NoAnswer, NoRequest
<1>. QED
  BY <1>1, <1>2, <1>3, <1>4 DEF IInv, OutcomeInv, Init

LEMMA OutcomeInductive == IInv /\ [Next]_vars => IInv'
BY TypeStep, ConsentStep, OutcomeStep DEF IInv

\* Lockouts apart, a call reports rejected credentials only on a device that
\* takes none of the schemes the client may use, and success only on one that
\* takes one, with any number of calls overlapping and failing beside it.
THEOREM Outcome == Spec => []OutcomeMatchesDevice
<1>1. IInv => OutcomeMatchesDevice
  BY DEF IInv, OutcomeInv, AnswersTrue, Usable, OutcomeMatchesDevice
<1>. QED
  BY <1>1, OutcomeInit, OutcomeInductive, PTL DEF Spec

\* Without the owner's consent, or on a device that takes digest and has locked
\* nobody out, the client never switches to basic nor sends the password.
THEOREM Confined == Spec => []PasswordConfined
<1>1. IInv => PasswordConfined
  BY DEF IInv, BasicNeedsConsent, OutcomeInv, HandshakeSucceeds, Steady, PasswordConfined
<1>. QED
  BY <1>1, OutcomeInit, OutcomeInductive, PTL DEF Spec

-----------------------------------------------------------------------------
(* The negotiation implements its contract.                                *)

\* Basic credentials travel only once the switch has been made, and a denial
\* carries the header of the device.
SwitchFirst == \A t \in Tasks : req[t].scheme = "basic" => useBasic
HeaderSent  == \A t \in Tasks : ans[t].challenge.alg \in {"none", header}

CInv == IInv /\ SwitchFirst /\ HeaderSent

LEMMA SwitchFirstStep == TypeInv /\ SwitchFirst /\ [Next]_vars => SwitchFirst'
<1>. SUFFICES ASSUME TypeOK, SwitchFirst, [Next]_vars PROVE SwitchFirst'
  BY DEF TypeInv
<1>1. ASSUME NEW t \in Tasks, CallStarts(t) PROVE SwitchFirst'
  <2>1. UNCHANGED useBasic
    BY <1>1 DEF CallStarts, clientVars
  <2>2. CASE useBasic
    BY <2>1, <2>2 DEF SwitchFirst
  <2>3. CASE ~useBasic
    <3>1. SendDigest(t, digest, FALSE) /\ digest \in DigestState
      BY <1>1, <2>3 DEF CallStarts, TypeOK
    <3>. QED
      BY <2>1, <3>1, SendDigestRequest DEF SwitchFirst, TypeOK
  <2>. QED
    BY <2>2, <2>3 DEF TypeOK
<1>2. ASSUME NEW t \in Tasks, ChallengeAnswered(t) PROVE SwitchFirst'
  <2>. DEFINE state == WithChallenge(auth[t].state, ans[t].challenge)
  <2>1. state \in DigestState
    BY WithChallengeType DEF TypeOK, DigestAuth, Answer
  <2>2. SendDigest(t, state, TRUE) /\ UNCHANGED useBasic
    BY <1>2 DEF ChallengeAnswered, clientVars
  <2>. HIDE DEF state
  <2>. QED
    BY <2>1, <2>2, SendDigestRequest DEF SwitchFirst, TypeOK
<1>3. ASSUME NEW t \in Tasks, FallsBackToBasic(t) PROVE SwitchFirst'
  BY <1>3 DEF FallsBackToBasic, SwitchFirst
<1>4. ASSUME NEW t \in Tasks, NEW o, CallEnds(t, o), UNCHANGED clientVars PROVE SwitchFirst'
  BY <1>4, CallEndsRequest DEF SwitchFirst, TypeOK, clientVars
<1>5. CASE UNCHANGED <<useBasic, req>>
  BY <1>5 DEF SwitchFirst
<1>. QED
  BY <1>1, <1>2, <1>3, <1>4, <1>5
     DEF Next, ClientStep, DeviceStep, vars, clientVars, taskVars,
         ChallengeRaises, DigestReturns, BasicReturns, BodyRead, CallFails,
         DeviceServes, DeviceDenies, NonceExpires, DeviceLocks, DeviceUnlocks

LEMMA HeaderSentStep == TypeInv /\ HeaderSent /\ [Next]_vars => HeaderSent'
<1>. SUFFICES ASSUME TypeOK, HeaderSent, [Next]_vars PROVE HeaderSent'
  BY DEF TypeInv
<1>1. ASSUME NEW t \in Tasks, ans' = [ans EXCEPT ![t] = NoAnswer], UNCHANGED header
      PROVE  HeaderSent'
  BY <1>1 DEF HeaderSent, TypeOK, NoAnswer, NoChallenge
<1>2. ASSUME NEW t \in Tasks, DeviceServes(t) PROVE HeaderSent'
  BY <1>2 DEF DeviceServes, Arrives, HeaderSent, TypeOK, NoChallenge, deviceVars
<1>3. ASSUME NEW t \in Tasks, DeviceDenies(t) PROVE HeaderSent'
  <2>1. PICK c \in Offers : Arrives(t, [status |-> "denied", challenge |-> c])
    BY <1>3 DEF DeviceDenies
  <2>2. c.alg \in {"none", header}
    BY DEF Offers, NoChallenge
  <2>. QED
    BY <1>3, <2>1, <2>2 DEF DeviceDenies, Arrives, HeaderSent, TypeOK
<1>4. CASE UNCHANGED <<ans, header>>
  BY <1>4 DEF HeaderSent
<1>. QED
  BY <1>1, <1>2, <1>3, <1>4
     DEF Next, ClientStep, DeviceStep, vars, taskVars, deviceVars, Send, SendDigest,
         CallStarts, ChallengeAnswered, FallsBackToBasic, CallEnds,
         ChallengeRaises, DigestReturns, BasicReturns, BodyRead, CallFails,
         NonceExpires, DeviceLocks, DeviceUnlocks

LEMMA CInvInductive == (Init => CInv) /\ (CInv /\ [Next]_vars => CInv')
<1>1. Init => CInv
  BY OutcomeInit DEF CInv, Init, SwitchFirst, HeaderSent, NoRequest, NoAnswer, NoChallenge
<1>2. CInv /\ [Next]_vars => CInv'
  BY OutcomeInductive, SwitchFirstStep, HeaderSentStep DEF CInv, IInv
<1>. QED
  BY <1>1, <1>2

\* The state functions the contract sees.
Busy    == {t \in Tasks : pc[t] # "idle"}
Exposed == useBasic \/ \E t \in Tasks : req[t].scheme = "basic"

\* Under SwitchFirst the password is exposed from the switch on, so that a step
\* which leaves the switch alone leaves the exposure alone.
LEMMA ExposedFrame ==
  ASSUME CInv, CInv', UNCHANGED useBasic
  PROVE  Exposed' = Exposed
<1>1. SwitchFirst /\ SwitchFirst' /\ useBasic \in BOOLEAN
  BY DEF CInv, IInv, TypeInv, TypeOK
<1>2. CASE useBasic
  BY <1>1, <1>2 DEF Exposed
<1>3. CASE ~useBasic
  <2>1. ~Exposed
    BY <1>1, <1>3 DEF Exposed, SwitchFirst
  <2>2. ~Exposed'
    BY <1>1, <1>3 DEF Exposed, SwitchFirst
  <2>3. Exposed \in BOOLEAN /\ Exposed' \in BOOLEAN
    BY DEF Exposed
  <2>. QED
    BY <2>1, <2>2, <2>3
<1>. QED
  BY <1>1, <1>2, <1>3

\* A call that ends with a truthful outcome is a return of the contract.
LEMMA EndIsReturn ==
  ASSUME CInv, CInv', NEW t \in Tasks, pc[t] # "idle",
         NEW o \in {"ok", "auth_error", "raised"} \cup AllFaults, CallEnds(t, o),
         Contract!Truthful(o), UNCHANGED <<accepts, fallback, useBasic, lockouts>>
  PROVE  Contract!Next
<1>1. pc' = [pc EXCEPT ![t] = "idle"] /\ result' = [result EXCEPT ![t] = o]
  BY DEF CallEnds
<1>2. Busy' = Busy \ {t} /\ t \in Busy
  BY <1>1 DEF CInv, IInv, TypeInv, TypeOK, Busy
<1>3. Exposed' = Exposed
  BY ExposedFrame
<1>4. Contract!Returns(t, o)
  BY <1>1, <1>2, <1>3 DEF Contract!Returns, Busy, Exposed
<1>. QED
  BY <1>4 DEF Contract!Next

\* A step that begins and ends no call, and neither switches nor locks, does
\* not show.
LEMMA Hidden ==
  ASSUME CInv, CInv', UNCHANGED <<accepts, fallback, useBasic, lockouts, result>>,
         Busy' = Busy
  PROVE  UNCHANGED Contract!vars
<1>1. Exposed' = Exposed
  BY ExposedFrame
<1>. QED
  BY <1>1 DEF Contract!vars, Busy, Exposed

LEMMA ContractStep == CInv /\ [Next]_vars => [Contract!Next]_(Contract!vars)
<1>. SUFFICES ASSUME CInv, [Next]_vars PROVE Contract!Next \/ UNCHANGED Contract!vars
  OBVIOUS
<1>0. /\ CInv' /\ TypeOK /\ TypeOK' /\ OutcomeInv /\ SwitchFirst /\ SwitchFirst'
      /\ OpenIffAnswered
  BY CInvInductive DEF CInv, IInv, TypeInv
<1>. DEFINE Shown == Contract!Next \/ UNCHANGED Contract!vars
<1>1. ASSUME NEW t \in Tasks, CallStarts(t) PROVE Shown
  <2>1. /\ pc[t] = "idle" /\ (pc' = [pc EXCEPT ![t] = "basic"] \/ pc' = [pc EXCEPT ![t] = "digest"])
        /\ result' = [result EXCEPT ![t] = "pending"]
        /\ UNCHANGED <<accepts, fallback, useBasic, lockouts>>
    BY <1>1 DEF CallStarts, clientVars, deviceVars
  <2>2. Busy' = Busy \cup {t} /\ t \notin Busy
    BY <1>0, <2>1 DEF TypeOK, Busy
  <2>3. Exposed' = Exposed
    BY <1>0, <2>1, ExposedFrame
  <2>4. Contract!Calls(t)
    BY <2>1, <2>2, <2>3 DEF Contract!Calls, Busy, Exposed
  <2>. QED
    BY <2>4 DEF Contract!Next
<1>2. ASSUME NEW t \in Tasks, ChallengeRaises(t) PROVE Shown
  <2>1. "digest" \notin accepts
    BY <1>0, <1>2 DEF ChallengeRaises, CInv, HeaderSent, OutcomeInv
  <2>2. Contract!Truthful("raised")
    BY <2>1 DEF Contract!Truthful
  <2>. QED
    BY <1>0, <1>2, <2>2, EndIsReturn
       DEF ChallengeRaises, clientVars, deviceVars, historyVars
<1>3. ASSUME NEW t \in Tasks, BodyRead(t) PROVE Shown
  <2>. DEFINE o == IF ans[t].status = "denied" THEN "auth_error" ELSE "ok"
  <2>1. Answered(t) /\ AnswersTrue(t) /\ ans[t].status \in {"served", "denied", "none"}
    BY <1>0, <1>3 DEF BodyRead, OpenIffAnswered, OutcomeInv, TypeOK, Answer
  <2>2. Contract!Usable = Usable
    BY DEF Contract!Usable, Usable, Schemes
  <2>3. Contract!Truthful(o)
    BY <1>3, <2>1, <2>2 DEF BodyRead, AnswersTrue, Answered, Contract!Truthful
  <2>4. CallEnds(t, o) /\ pc[t] # "idle" /\ UNCHANGED <<accepts, fallback, useBasic, lockouts>>
    BY <1>3 DEF BodyRead, clientVars, deviceVars, historyVars
  <2>. HIDE DEF o
  <2>5. o \in {"ok", "auth_error"}
    BY DEF o
  <2>. QED
    BY <1>0, <2>3, <2>4, <2>5, EndIsReturn
<1>4. ASSUME NEW t \in Tasks, NEW fault \in AllFaults, CallFails(t, fault) PROVE Shown
  <2>1. Contract!Truthful(fault)
    BY DEF Contract!Truthful, AllFaults
  <2>. QED
    BY <1>0, <1>4, <2>1, EndIsReturn DEF CallFails, clientVars, deviceVars
<1>5. ASSUME NEW t \in Tasks, FallsBackToBasic(t) PROVE Shown
  <2>1. /\ fallback /\ useBasic' = TRUE
        /\ pc[t] = "digest" /\ pc' = [pc EXCEPT ![t] = "basic"]
        /\ UNCHANGED <<accepts, fallback, lockouts, result>>
    BY <1>5 DEF FallsBackToBasic, FallbackDue, HandshakeOver, deviceVars
  <2>2. ~Steady
    <3>1. ans[t].status = "denied" /\ ~TakenUp(t) /\ HandshakeSucceeds(t)
      BY <1>0, <1>5 DEF FallsBackToBasic, FallbackDue, HandshakeOver, OutcomeInv
    <3>. QED
      BY <3>1 DEF HandshakeSucceeds, TakenUp, NoChallenge
  <2>3. "digest" \notin accepts \/ lockouts > 0
    BY <1>0, <2>2 DEF Steady, TypeOK
  <2>4. Busy' = Busy
    BY <1>0, <2>1 DEF TypeOK, Busy
  <2>5. Exposed' = TRUE
    BY <2>1 DEF Exposed
  <2>6. Contract!GivesPassword
    BY <2>1, <2>3, <2>4, <2>5 DEF Contract!GivesPassword, Busy, Exposed
  <2>. QED
    BY <2>6 DEF Contract!Next
<1>6. ASSUME NEW t \in Tasks,
             DigestReturns(t) \/ BasicReturns(t) \/ ChallengeAnswered(t) \/ DeviceServes(t)
               \/ DeviceDenies(t)
      PROVE  Shown
  <2>1. UNCHANGED <<accepts, fallback, useBasic, lockouts, result>>
    BY <1>6 DEF DigestReturns, BasicReturns, ChallengeAnswered, DeviceServes, DeviceDenies,
                clientVars, deviceVars, historyVars
  <2>2. Busy' = Busy
    <3>1. pc' = pc \/ (pc[t] # "idle" /\ pc' = [pc EXCEPT ![t] = "body"])
      BY <1>6 DEF DigestReturns, HandshakeOver, BasicReturns, ChallengeAnswered,
                  DeviceServes, DeviceDenies
    <3>. QED
      BY <1>0, <3>1 DEF TypeOK, Busy
  <2>. QED
    BY <1>0, <2>1, <2>2, Hidden
<1>7. CASE DeviceLocks
  <2>1. UNCHANGED <<accepts, fallback, useBasic, result, pc, req>> /\ lockouts' > 0
    BY <1>0, <1>7 DEF DeviceLocks, clientVars, taskVars, TypeOK
  <2>2. Busy' = Busy /\ Exposed' = Exposed
    BY <2>1 DEF Busy, Exposed
  <2>3. Contract!LocksOut
    BY <2>1, <2>2 DEF Contract!LocksOut, Busy, Exposed
  <2>. QED
    BY <2>3 DEF Contract!Next
<1>8. CASE DeviceUnlocks \/ UNCHANGED vars \/ \E n \in Nonces : NonceExpires(n)
  <2>1. UNCHANGED <<accepts, fallback, useBasic, lockouts, result, pc>>
    BY <1>8 DEF DeviceUnlocks, NonceExpires, vars, clientVars, taskVars, deviceVars, historyVars
  <2>2. Busy' = Busy
    BY <2>1 DEF Busy
  <2>. QED
    BY <1>0, <2>1, <2>2, Hidden
<1>. QED
  BY <1>1, <1>2, <1>3, <1>4, <1>5, <1>6, <1>7, <1>8 DEF Next, ClientStep, DeviceStep

\* Seen by its callers, the client with its tasks, handshakes and shared state
\* is the contract: calls begin, return something true of the device, and the
\* password is given away only where it may be.
THEOREM ImplementsContract == Spec => KeepsContract
<1>1. Init => Contract!Init
  BY DEF Init, Contract!Init, NoRequest, Schemes
<1>2. CInv /\ [Next]_vars => [Contract!Next]_(Contract!vars)
  BY ContractStep
<1>. QED
  BY <1>1, <1>2, CInvInductive, PTL DEF Spec, KeepsContract, Contract!Spec

-----------------------------------------------------------------------------
(* Calls made one after the other reuse a nonce.                           *)

\* A state counts under the nonce of its challenge, if that is one the client
\* computes; its challenge is one of the device.
Known(state) ==
  /\ state.challenge.alg \in {header, "none"}
  /\ state.last_nonce = IF state.challenge.alg = "md5" THEN state.challenge.nonce ELSE 0

\* The books are right in a state: its count is that of the requests under its
\* nonce, no later nonce has been used, and on a steady device every request
\* beyond the first of its call took a nonce of its own.
Balanced(state) ==
  /\ state.last_nonce <= issued
  /\ state.last_nonce # 0 => state.nonce_count = uses[state.last_nonce]
  /\ \A n \in Nonces : n > state.last_nonce => uses[n] = 0
  /\ Steady => sent <= calls + state.last_nonce

\* A challenge that reaches a handshake is under the nonce issued last, on a
\* steady device one that is newer than the nonce the handshake began with.
Challenging(t) ==
  /\ ans[t].challenge # NoChallenge =>
       ans[t].challenge.nonce <= issued /\ auth[t].state.last_nonce <= ans[t].challenge.nonce
  /\ Steady /\ ans[t].status = "denied" => auth[t].state.last_nonce < ans[t].challenge.nonce

\* A task without a call has no request; a handshake sends what its state says.
Presented(t) ==
  /\ pc[t] = "idle" => req[t] = NoRequest
  /\ pc[t] = "digest" => Known(auth[t].state) /\ req[t] = DigestHeader(auth[t].state)

\* Without overlap one call at most is under way.
OneCall == \A t, u \in Tasks : pc[t] # "idle" /\ pc[u] # "idle" => t = u

\* The books are right in the state that counts: that of the handshake, or
\* else the remembered one.
Remembered == (\A t \in Tasks : pc[t] # "digest") => Balanced(digest)
Carried    == \A t \in Tasks : pc[t] = "digest" => Balanced(auth[t].state) /\ Challenging(t)
CountExact == \A t \in Tasks : req[t].scheme = "digest" => req[t].nc = uses[req[t].nonce]

InTurn == OneCall /\ Remembered /\ Carried /\ CountExact

StatesKnown == Known(digest) /\ \A t \in Tasks : Presented(t)
TurnInv     == StatesKnown /\ (serial => InTurn)

\* Counting a request under a known challenge gives a known state.
LEMMA CountedKnown ==
  ASSUME NEW state \in DigestState, state.challenge.alg \in {header, "none"},
         state.challenge.alg # "md5" => state.last_nonce = 0
  PROVE  Known(Counted(state))
<1>1. CASE state.challenge.alg # "md5"
  BY <1>1 DEF Counted, Known
<1>2. CASE state.challenge.alg = "md5"
  <2>1. Counted(state).challenge = state.challenge
    BY CountedType
  <2>2. Counted(state).last_nonce = state.challenge.nonce
    BY <1>2 DEF Counted, DigestState
  <2>. QED
    BY <1>2, <2>1, <2>2 DEF Known
<1>. QED
  BY <1>1, <1>2

\* So does the answer to a challenge of the device.
LEMMA TakenUpKnown ==
  ASSUME NEW state \in DigestState, NEW c \in Challenge, Known(state),
         c.alg \in {header, "none"}
  PROVE  Known(Counted(WithChallenge(state, c)))
<1>. DEFINE new == WithChallenge(state, c)
<1>1. new \in DigestState
  BY WithChallengeType
<1>2. new.challenge = c /\ new.last_nonce = state.last_nonce
  BY DEF WithChallenge, DigestState
<1>3. c.alg = header
  BY DEF Challenge, Algorithms
<1>4. c.alg # "md5" => state.last_nonce = 0
  BY <1>3 DEF Known
<1>. HIDE DEF new
<1>5. Known(Counted(new))
  BY <1>1, <1>2, <1>3, <1>4, CountedKnown
<1>. QED
  BY <1>5 DEF new

\* What a request that is counted does to the books.
LEMMA SendBalanced ==
  ASSUME TypeOK, NEW t \in Tasks, NEW state \in DigestState,
         NEW challenged \in BOOLEAN, SendDigest(t, state, challenged),
         state.last_nonce <= issued,
         state.last_nonce # 0 => state.nonce_count = uses[state.last_nonce],
         \A n \in Nonces : n > state.last_nonce => uses[n] = 0,
         state.challenge.alg = "md5" =>
           state.last_nonce <= state.challenge.nonce /\ state.challenge.nonce <= issued
  PROVE  LET new == Counted(state)
             h   == DigestHeader(new)
         IN /\ new.last_nonce <= issued
            /\ new.last_nonce # 0 => new.nonce_count = uses'[new.last_nonce]
            /\ \A n \in Nonces : n > new.last_nonce => uses'[n] = 0
            /\ h.scheme = "digest" => h.nc = uses'[h.nonce]
<1>. DEFINE new == Counted(state)
            h   == DigestHeader(new)
<1>1. h \in Request /\ (h.scheme = "digest" => h.nonce \in Nonces)
  BY HeaderType
<1>2. uses' = IF h.scheme = "digest" THEN [uses EXCEPT ![h.nonce] = @ + 1] ELSE uses
  BY DEF SendDigest, Send
<1>3. uses \in [Nonces -> Nat] /\ issued \in Nat
  BY DEF TypeOK
<1>4. CASE state.challenge.alg # "md5"
  <2>1. new = state /\ h = NoRequest
    BY <1>4 DEF Counted, DigestHeader
  <2>. HIDE DEF new, h
  <2>2. h.scheme # "digest" /\ uses' = uses
    BY <1>2, <2>1 DEF NoRequest
  <2>. QED
    BY <2>1, <2>2 DEF new, h
<1>5. CASE state.challenge.alg = "md5"
  <2>1. /\ new.last_nonce = state.challenge.nonce
        /\ new.nonce_count = IF state.challenge.nonce = state.last_nonce
                               THEN state.nonce_count + 1 ELSE 1
    BY <1>5 DEF Counted, DigestState
  <2>2. new.challenge = state.challenge
    BY CountedType
  <2>3. h = [scheme |-> "digest", nonce |-> new.last_nonce, nc |-> new.nonce_count]
    BY <1>5, <2>2 DEF DigestHeader
  <2>4. state.nonce_count \in Nat /\ state.last_nonce \in Nat
    BY NegotiationAssumption DEF DigestState
  <2>. HIDE DEF new, h
  <2>5. h.nonce = new.last_nonce /\ h.nc = new.nonce_count /\ h.nonce \in Nonces /\ h.scheme = "digest"
    BY <1>1, <2>3
  <2>6. uses'[h.nonce] = uses[h.nonce] + 1 /\ \A n \in Nonces : n # h.nonce => uses'[n] = uses[n]
    BY <1>2, <1>3, <2>5
  <2>7. new.nonce_count = uses'[new.last_nonce]
    <3>1. CASE state.challenge.nonce = state.last_nonce
      <4>1. state.last_nonce = h.nonce /\ state.last_nonce # 0
        BY <2>1, <2>5, <3>1 DEF Nonces
      <4>. QED
        BY <2>1, <2>4, <2>5, <2>6, <3>1, <4>1
    <3>2. CASE state.challenge.nonce # state.last_nonce
      <4>1. h.nonce > state.last_nonce /\ h.nonce \in Nat
        BY <1>5, <2>1, <2>4, <2>5, <3>2 DEF Nonces
      <4>. QED
        BY <2>1, <2>5, <2>6, <3>2, <4>1
    <3>. QED
      BY <3>1, <3>2
  <2>8. ASSUME NEW n \in Nonces, n > new.last_nonce PROVE uses'[n] = 0
    <3>1. n # h.nonce /\ n > state.last_nonce
      BY <1>5, <2>1, <2>4, <2>5, <2>8 DEF Nonces
    <3>. QED
      BY <2>6, <3>1
  <2>9. new.last_nonce <= issued
    BY <1>5, <2>1
  <2>. QED
    BY <2>5, <2>7, <2>8, <2>9 DEF new, h
<1>. QED
  BY <1>4, <1>5

\* Books that are right stay so while nobody sends.
LEMMA BalancedKept ==
  ASSUME NEW state \in DigestState, Balanced(state), TypeOK, TypeOK',
         UNCHANGED <<uses, sent, calls>>, issued <= issued', Steady' => Steady
  PROVE  Balanced(state)'
<1>1. state.last_nonce \in Nat /\ issued \in Nat /\ issued' \in Nat
  BY NegotiationAssumption DEF DigestState, TypeOK
<1>. QED
  BY <1>1 DEF Balanced

\* Every step keeps the states known and the requests those of their states.
LEMMA KnownStep == CInv /\ StatesKnown /\ [Next]_vars => StatesKnown'
<1>. SUFFICES ASSUME CInv, StatesKnown, [Next]_vars PROVE StatesKnown'
  OBVIOUS
<1>0. TypeOK /\ OpenIffAnswered /\ HeaderSent
  BY DEF CInv, IInv, TypeInv
<1>. DEFINE Rest(t) == \A u \in Tasks : u # t => UNCHANGED <<pc[u], req[u], auth[u]>>
<1>1. ASSUME NEW t \in Tasks, Rest(t), UNCHANGED header, Known(digest)', Presented(t)'
      PROVE  StatesKnown'
  <2>1. ASSUME NEW u \in Tasks, u # t PROVE Presented(u)'
    BY <1>1, <2>1 DEF StatesKnown, Presented, Known
  <2>. QED
    BY <1>1, <2>1 DEF StatesKnown
<1>2. ASSUME NEW t \in Tasks, CallStarts(t) PROVE StatesKnown'
  <2>1. UNCHANGED <<header, digest>> /\ Known(digest)'
    BY <1>2 DEF CallStarts, clientVars, deviceVars, StatesKnown, Known
  <2>2. CASE useBasic
    <3>1. Rest(t) /\ pc'[t] = "basic"
      BY <1>0, <1>2, <2>2 DEF CallStarts, Send, TypeOK
    <3>. QED
      BY <1>1, <2>1, <3>1 DEF Presented
  <2>3. CASE ~useBasic
    <3>1. PICK d : d = digest
      OBVIOUS
    <3>2. /\ auth' = [auth EXCEPT ![t] = [state |-> Counted(d), challenged |-> FALSE]]
          /\ req' = [req EXCEPT ![t] = DigestHeader(Counted(d))]
          /\ pc' = [pc EXCEPT ![t] = "digest"]
      BY <1>2, <2>3, <3>1 DEF CallStarts, SendDigest, Send
    <3>3. /\ auth'[t].state = Counted(d) /\ req'[t] = DigestHeader(Counted(d))
          /\ pc'[t] = "digest" /\ Rest(t)
      BY <1>0, <3>2 DEF TypeOK
    <3>4. Known(Counted(d))
      BY <1>0, <3>1, CountedKnown DEF StatesKnown, Known, TypeOK
    <3>5. Known(auth[t].state)'
      BY <2>1, <3>3, <3>4 DEF Known
    <3>. QED
      BY <1>1, <2>1, <3>3, <3>5 DEF Presented
  <2>. QED
    BY <1>0, <2>2, <2>3 DEF TypeOK
<1>3. ASSUME NEW t \in Tasks, ChallengeAnswered(t) PROVE StatesKnown'
  <2>1. UNCHANGED <<header, digest, pc>> /\ Known(digest)'
    BY <1>3 DEF ChallengeAnswered, clientVars, deviceVars, StatesKnown, Known
  <2>2. PICK a, c : a = auth[t].state /\ c = ans[t].challenge
    OBVIOUS
  <2>3. /\ auth' = [auth EXCEPT ![t] = [state |-> Counted(WithChallenge(a, c)), challenged |-> TRUE]]
        /\ req' = [req EXCEPT ![t] = DigestHeader(Counted(WithChallenge(a, c)))]
    BY <1>3, <2>2 DEF ChallengeAnswered, SendDigest, Send
  <2>4. /\ auth'[t].state = Counted(WithChallenge(a, c))
        /\ req'[t] = DigestHeader(Counted(WithChallenge(a, c)))
        /\ Rest(t)
    BY <1>0, <2>1, <2>3 DEF TypeOK
  <2>5. a \in DigestState /\ c \in Challenge /\ c.alg \in {header, "none"} /\ Known(a)
    BY <1>0, <1>3, <2>2
       DEF TypeOK, DigestAuth, Answer, ChallengeAnswered, TakenUp, HeaderSent, StatesKnown, Presented
  <2>6. Known(Counted(WithChallenge(a, c)))
    BY <2>5, TakenUpKnown
  <2>7. Known(auth[t].state)'
    BY <2>1, <2>4, <2>6 DEF Known
  <2>8. pc'[t] = "digest"
    BY <1>3, <2>1 DEF ChallengeAnswered
  <2>. QED
    BY <1>1, <2>1, <2>4, <2>7, <2>8 DEF Presented
<1>4. ASSUME NEW t \in Tasks, NEW outcome, CallEnds(t, outcome), UNCHANGED <<header, digest, auth>>
      PROVE  StatesKnown'
  <2>1. Rest(t) /\ pc'[t] = "idle" /\ req'[t] = NoRequest
    BY <1>0, <1>4 DEF CallEnds, TypeOK
  <2>2. Known(digest)'
    BY <1>4 DEF StatesKnown, Known
  <2>. QED
    BY <1>1, <1>4, <2>1, <2>2 DEF Presented
<1>5. ASSUME NEW t \in Tasks, FallsBackToBasic(t) \/ DigestReturns(t) PROVE StatesKnown'
  <2>1. UNCHANGED <<header, auth>> /\ digest' = auth[t].state /\ pc[t] = "digest"
    BY <1>5 DEF FallsBackToBasic, DigestReturns, HandshakeOver, RememberDigest, deviceVars
  <2>2. Rest(t) /\ pc'[t] \in {"basic", "body"}
    BY <1>0, <1>5 DEF FallsBackToBasic, DigestReturns, Send, TypeOK
  <2>3. Known(digest)'
    BY <2>1 DEF StatesKnown, Presented, Known
  <2>. QED
    BY <1>1, <2>1, <2>2, <2>3 DEF Presented
<1>6. ASSUME NEW t \in Tasks, BasicReturns(t) PROVE StatesKnown'
  <2>1. UNCHANGED <<header, digest, auth, req>> /\ Rest(t) /\ pc'[t] = "body"
    BY <1>0, <1>6 DEF BasicReturns, clientVars, deviceVars, TypeOK
  <2>2. Known(digest)'
    BY <2>1 DEF StatesKnown, Known
  <2>. QED
    BY <1>1, <2>1, <2>2 DEF Presented
<1>7. CASE UNCHANGED <<header, digest, auth, req, pc>>
  BY <1>7 DEF StatesKnown, Presented, Known
<1>. QED
  BY <1>2, <1>3, <1>4, <1>5, <1>6, <1>7
     DEF Next, ClientStep, DeviceStep, vars, clientVars, taskVars, deviceVars,
         ChallengeRaises, BodyRead, CallFails, DeviceServes, DeviceDenies,
         NonceExpires, DeviceLocks, DeviceUnlocks

\* While task t has the only call, the others show nothing.
LEMMA OthersIdle ==
  ASSUME StatesKnown, OneCall, NEW t \in Tasks, pc[t] # "idle", NEW u \in Tasks, u # t
  PROVE  pc[u] = "idle" /\ req[u] = NoRequest
BY DEF StatesKnown, Presented, OneCall

\* A step that leaves the books and the states alone keeps them right, where
\* calls end, go on or wait, unless a handshake has its answer.
LEMMA TurnFrame ==
  ASSUME TypeOK, TypeOK', InTurn, Steady' => Steady,
         UNCHANGED <<uses, sent, calls, digest, auth, req>>, issued <= issued',
         \A u \in Tasks : pc'[u] = pc[u] \/ (pc[u] = "basic" /\ pc'[u] = "body"),
         \A u \in Tasks : pc[u] = "digest" => Challenging(u)'
  PROVE  InTurn'
<1>1. OneCall'
  BY DEF InTurn, OneCall
<1>2. Remembered'
  <2>1. PICK d : d = digest
    OBVIOUS
  <2>2. SUFFICES ASSUME \A u \in Tasks : pc'[u] # "digest" PROVE Balanced(digest)'
    BY DEF Remembered
  <2>3. Balanced(d) /\ d \in DigestState
    BY <2>1, <2>2 DEF InTurn, Remembered, TypeOK
  <2>4. Balanced(d)' /\ digest' = d
    BY <2>1, <2>3, BalancedKept
  <2>. QED
    BY <2>4 DEF Balanced
<1>3. Carried'
  <2>1. SUFFICES ASSUME NEW u \in Tasks, pc'[u] = "digest"
                 PROVE  Balanced(auth[u].state)' /\ Challenging(u)'
    BY DEF Carried
  <2>2. PICK a : a = auth[u].state
    OBVIOUS
  <2>3. pc[u] = "digest" /\ Balanced(a) /\ a \in DigestState
    BY <2>1, <2>2 DEF InTurn, Carried, TypeOK, DigestAuth
  <2>4. Balanced(a)' /\ auth'[u].state = a
    BY <2>2, <2>3, BalancedKept
  <2>. QED
    BY <2>3, <2>4 DEF Balanced
<1>4. CountExact'
  BY DEF InTurn, CountExact
<1>. QED
  BY <1>1, <1>2, <1>3, <1>4 DEF InTurn

\* The end of the one call, in a state whose books are right.
LEMMA TurnEnds ==
  ASSUME TypeOK, TypeOK', StatesKnown, OneCall, NEW t \in Tasks, pc[t] # "idle",
         NEW outcome, CallEnds(t, outcome), Balanced(digest),
         UNCHANGED <<uses, sent, calls, digest, issued, accepts, lockouts>>
  PROVE  InTurn'
<1>1. \A u \in Tasks : pc'[u] = "idle" /\ req'[u] = NoRequest
  BY OthersIdle DEF CallEnds, TypeOK
<1>2. PICK d : d = digest
  OBVIOUS
<1>3. Balanced(d)' /\ digest' = d
  <2>1. issued <= issued' /\ (Steady' => Steady)
    BY DEF TypeOK, Steady
  <2>. QED
    BY <1>2, <2>1, BalancedKept DEF TypeOK
<1>4. Balanced(digest)'
  BY <1>3 DEF Balanced
<1>. QED
  BY <1>1, <1>4 DEF InTurn, OneCall, Remembered, Carried, CountExact, NoRequest

\* A call that starts where none is under way.
LEMMA TurnStarts ==
  ASSUME CInv, TypeOK', StatesKnown, InTurn, NEW t \in Tasks, CallStarts(t),
         \A u \in Tasks : pc[u] = "idle"
  PROVE  InTurn'
<1>0. TypeOK /\ OneCall
  BY DEF CInv, IInv, TypeInv, InTurn
<1>1. PICK d : d = digest
  OBVIOUS
<1>2. Balanced(d) /\ d \in DigestState /\ Known(d)
  BY <1>0, <1>1 DEF InTurn, Remembered, TypeOK, StatesKnown
<1>3. /\ UNCHANGED <<issued, accepts, lockouts>> /\ digest' = d
      /\ calls' = calls + 1 /\ sent' = sent + 1 /\ Steady' = Steady
  BY <1>1 DEF CallStarts, SendDigest, Send, clientVars, deviceVars, Steady
<1>4. calls \in Nat /\ sent \in Nat /\ issued \in Nat /\ d.last_nonce \in Nat
  BY <1>0, <1>2, NegotiationAssumption DEF TypeOK, DigestState
<1>5. \A u \in Tasks : u # t => pc'[u] = "idle" /\ req'[u] = NoRequest
  BY <1>0 DEF CallStarts, SendDigest, Send, StatesKnown, Presented, TypeOK
<1>6. OneCall'
  BY <1>5 DEF OneCall
<1>7. CASE useBasic
  <2>1. UNCHANGED uses /\ req'[t] = Basic /\ pc'[t] = "basic"
    BY <1>0, <1>7 DEF CallStarts, Send, Basic, TypeOK
  <2>2. Balanced(d)'
    BY <1>2, <1>3, <1>4, <2>1 DEF Balanced
  <2>3. Balanced(digest)'
    BY <1>3, <2>2 DEF Balanced
  <2>. QED
    BY <1>5, <1>6, <2>1, <2>3 DEF InTurn, Remembered, Carried, CountExact, NoRequest, Basic
<1>8. CASE ~useBasic
  <2>. DEFINE new == Counted(d)
  <2>1. SendDigest(t, d, FALSE) /\ pc' = [pc EXCEPT ![t] = "digest"]
    BY <1>1, <1>8 DEF CallStarts
  <2>2. /\ auth'[t].state = new /\ req'[t] = DigestHeader(new)
        /\ ans'[t] = NoAnswer /\ pc'[t] = "digest"
    BY <1>0, <2>1 DEF SendDigest, Send, TypeOK
  <2>3. d.challenge.alg = "md5" => d.challenge.nonce = d.last_nonce
    BY <1>2 DEF Known
  <2>4. /\ new.last_nonce <= issued
        /\ new.last_nonce # 0 => new.nonce_count = uses'[new.last_nonce]
        /\ \A n \in Nonces : n > new.last_nonce => uses'[n] = 0
        /\ DigestHeader(new).scheme = "digest" => DigestHeader(new).nc = uses'[DigestHeader(new).nonce]
    <3>1. /\ d.last_nonce <= issued /\ d.last_nonce <= d.last_nonce
          /\ d.last_nonce # 0 => d.nonce_count = uses[d.last_nonce]
          /\ \A n \in Nonces : n > d.last_nonce => uses[n] = 0
      BY <1>2, <1>4 DEF Balanced
    <3>2. d.challenge.alg = "md5" =>
            d.last_nonce <= d.challenge.nonce /\ d.challenge.nonce <= issued
      BY <2>3, <3>1
    <3>. QED
      BY <1>0, <1>2, <2>1, <3>1, <3>2, SendBalanced
  <2>5. new.last_nonce = d.last_nonce
    BY <1>2, <2>3 DEF Counted, DigestState
  <2>. HIDE DEF new
  <2>6. Balanced(new)'
    BY <1>2, <1>3, <1>4, <2>4, <2>5 DEF Balanced
  <2>7. Balanced(auth[t].state)'
    BY <2>2, <2>6 DEF Balanced
  <2>8. Challenging(t)'
    BY <2>2 DEF Challenging, NoAnswer
  <2>9. Carried' /\ Remembered'
    BY <1>5, <2>2, <2>7, <2>8 DEF Carried, Remembered
  <2>10. CountExact'
    BY <1>5, <2>2, <2>4 DEF CountExact, NoRequest
  <2>. QED
    BY <1>6, <2>9, <2>10 DEF InTurn
<1>. QED
  BY <1>0, <1>7, <1>8 DEF TypeOK

\* The answer to the challenge of the one call.
LEMMA TurnAnswers ==
  ASSUME CInv, TypeOK', StatesKnown, InTurn, NEW t \in Tasks, ChallengeAnswered(t)
  PROVE  InTurn'
<1>0. TypeOK /\ OneCall /\ HeaderSent /\ OutcomeInv
  BY DEF CInv, IInv, TypeInv, InTurn
<1>1. PICK a, c : a = auth[t].state /\ c = ans[t].challenge
  OBVIOUS
<1>2. /\ a \in DigestState /\ c \in Challenge /\ Balanced(a)
      /\ c.nonce <= issued /\ a.last_nonce <= c.nonce
      /\ Steady => a.last_nonce < c.nonce
  BY <1>0, <1>1
     DEF TypeOK, DigestAuth, Answer, ChallengeAnswered, TakenUp, InTurn, Carried, Challenging
<1>3. Steady => c.alg = "md5"
  BY <1>0, <1>1 DEF ChallengeAnswered, TakenUp, OutcomeInv, HandshakeSucceeds
<1>. DEFINE state == WithChallenge(a, c)
            new   == Counted(state)
<1>4. /\ state \in DigestState /\ state.challenge = c
      /\ state.last_nonce = a.last_nonce /\ state.nonce_count = a.nonce_count
  BY <1>2, WithChallengeType DEF WithChallenge, DigestState
<1>5. SendDigest(t, state, TRUE)
  BY <1>1 DEF ChallengeAnswered
<1>6. /\ UNCHANGED <<issued, accepts, lockouts, calls, digest, pc>>
      /\ pc[t] = "digest" /\ Steady' = Steady
  BY DEF ChallengeAnswered, clientVars, deviceVars, Steady
<1>7. /\ auth'[t].state = new /\ req' = [req EXCEPT ![t] = DigestHeader(new)]
      /\ ans'[t] = NoAnswer /\ sent' = sent + 1
  BY <1>0, <1>5 DEF SendDigest, Send, TypeOK
<1>8. Steady => new.last_nonce = c.nonce
  BY <1>2, <1>3 DEF Counted, WithChallenge, DigestState
<1>. HIDE DEF state
<1>9. /\ new.last_nonce <= issued
      /\ new.last_nonce # 0 => new.nonce_count = uses'[new.last_nonce]
      /\ \A n \in Nonces : n > new.last_nonce => uses'[n] = 0
      /\ DigestHeader(new).scheme = "digest" => DigestHeader(new).nc = uses'[DigestHeader(new).nonce]
  BY <1>0, <1>2, <1>4, <1>5, SendBalanced DEF Balanced
<1>10. /\ calls \in Nat /\ sent \in Nat /\ c.nonce \in Nat /\ a.last_nonce \in Nat
  BY <1>0, <1>2, NegotiationAssumption DEF TypeOK, DigestState, Challenge, Nonces
<1>. HIDE DEF new
<1>11. Balanced(new)'
  BY <1>2, <1>6, <1>7, <1>8, <1>9, <1>10 DEF Balanced
<1>12. Balanced(auth[t].state)'
  BY <1>7, <1>11 DEF Balanced
<1>13. Challenging(t)'
  BY <1>7 DEF Challenging, NoAnswer
<1>14. \A u \in Tasks : u # t => pc'[u] = "idle" /\ req'[u] = NoRequest
  BY <1>0, <1>6, <1>7, OthersIdle DEF TypeOK
<1>15. OneCall' /\ Carried' /\ Remembered'
  BY <1>6, <1>12, <1>13, <1>14 DEF OneCall, Carried, Remembered
<1>16. CountExact'
  BY <1>0, <1>7, <1>9, <1>14 DEF CountExact, NoRequest, TypeOK
<1>. QED
  BY <1>15, <1>16 DEF InTurn

\* The end of the one handshake: what it carried is what is remembered.
LEMMA TurnRemembers ==
  ASSUME CInv, TypeOK', StatesKnown, InTurn, NEW t \in Tasks,
         FallsBackToBasic(t) \/ DigestReturns(t)
  PROVE  InTurn'
<1>0. TypeOK /\ OneCall /\ OutcomeInv
  BY DEF CInv, IInv, TypeInv, InTurn
<1>1. PICK a : a = auth[t].state
  OBVIOUS
<1>2. /\ digest' = a /\ pc[t] = "digest" /\ a \in DigestState /\ Balanced(a)
      /\ UNCHANGED <<issued, accepts, lockouts, calls, uses>>
      /\ Steady' = Steady
  BY <1>0, <1>1
     DEF FallsBackToBasic, DigestReturns, HandshakeOver, RememberDigest, Send, Basic,
         deviceVars, historyVars, InTurn, Carried, TypeOK, DigestAuth, Steady
<1>3. /\ pc'[t] \in {"basic", "body"}
      /\ \A u \in Tasks : u # t => pc'[u] = "idle" /\ req'[u] = NoRequest
  BY <1>0, <1>2, OthersIdle DEF FallsBackToBasic, DigestReturns, Send, TypeOK
<1>4. (req'[t] = req[t] /\ sent' = sent) \/ (req'[t] = Basic /\ ~Steady)
  <2>1. CASE FallsBackToBasic(t)
    <3>1. ~Steady
      BY <1>0, <2>1 DEF FallsBackToBasic, HandshakeOver, FallbackDue, TakenUp, OutcomeInv,
                        HandshakeSucceeds, Challenge, NoChallenge, Algorithms
    <3>. QED
      BY <1>0, <2>1, <3>1 DEF FallsBackToBasic, Send, TypeOK
  <2>2. CASE DigestReturns(t)
    BY <2>2 DEF DigestReturns, historyVars
  <2>. QED
    BY <2>1, <2>2
<1>5. Balanced(a)'
  BY <1>2, <1>4 DEF Balanced
<1>6. Balanced(digest)'
  BY <1>2, <1>5 DEF Balanced
<1>7. OneCall' /\ Carried' /\ Remembered'
  BY <1>3, <1>6 DEF OneCall, Carried, Remembered
<1>8. CountExact'
  BY <1>2, <1>3, <1>4 DEF InTurn, CountExact, NoRequest, Basic
<1>. QED
  BY <1>7, <1>8 DEF InTurn

\* A header the client cannot use ends the handshake without an entry in the
\* books: nothing is ever counted on such a device.
LEMMA TurnRaises ==
  ASSUME CInv, TypeOK', StatesKnown, InTurn, NEW t \in Tasks, ChallengeRaises(t)
  PROVE  InTurn'
<1>0. TypeOK /\ OneCall /\ HeaderSent
  BY DEF CInv, IInv, TypeInv, InTurn
<1>1. PICK a, d : a = auth[t].state /\ d = digest
  OBVIOUS
<1>2. pc[t] = "digest" /\ Known(a) /\ Known(d) /\ Balanced(a) /\ d \in DigestState
  BY <1>0, <1>1 DEF ChallengeRaises, StatesKnown, Presented, InTurn, Carried, TypeOK
<1>3. header = "malformed"
  BY <1>0 DEF ChallengeRaises, HeaderSent
<1>4. a.last_nonce = 0 /\ d.last_nonce = 0
  BY <1>2, <1>3 DEF Known
<1>5. Balanced(digest)
  BY <1>1, <1>2, <1>4 DEF Balanced
<1>6. /\ CallEnds(t, "raised") /\ pc[t] # "idle"
      /\ UNCHANGED <<uses, sent, calls, digest, issued, accepts, lockouts>>
  BY <1>2 DEF ChallengeRaises, clientVars, deviceVars, historyVars
<1>. QED
  BY <1>0, <1>5, <1>6, TurnEnds

\* A denial reaches the one call.  On a steady device it denies a request that
\* has no nonce or an expired one, so the challenge brings a newer nonce.
LEMMA TurnDenied ==
  ASSUME CInv, TypeOK', StatesKnown, InTurn, NEW t \in Tasks, DeviceDenies(t)
  PROVE  InTurn'
<1>0. TypeOK /\ OneCall /\ OutcomeInv
  BY DEF CInv, IInv, TypeInv, InTurn
<1>1. PICK c \in Offers :
        /\ Arrives(t, [status |-> "denied", challenge |-> c])
        /\ issued' = IF c = NoChallenge THEN issued ELSE c.nonce
  BY DEF DeviceDenies
<1>2. issued \in Nat /\ issued' \in Nat /\ valid \subseteq Nonces
  BY <1>0 DEF TypeOK
<1>3. c # NoChallenge => /\ c.nonce \in Nonces
                         /\ c.nonce = issued + 1 \/ (c.nonce = issued /\ c.nonce \in valid)
  BY DEF Offers, Challengeable
<1>4. issued <= issued' /\ (c # NoChallenge => issued' = c.nonce /\ issued <= c.nonce)
  BY <1>1, <1>2, <1>3
<1>5. /\ UNCHANGED <<uses, sent, calls, digest, auth, req, pc, accepts, lockouts>>
      /\ Steady' = Steady
  BY DEF DeviceDenies, clientVars, historyVars, Steady
<1>6. ans'[t].challenge = c
  BY <1>0, <1>1 DEF Arrives, TypeOK
<1>7. ASSUME NEW u \in Tasks, pc[u] = "digest" PROVE Challenging(u)'
  <2>1. u = t
    BY <1>0, <1>7 DEF OneCall, DeviceDenies, Schemes
  <2>2. PICK a : a = auth[t].state
    OBVIOUS
  <2>3. /\ a \in DigestState /\ Known(a) /\ Balanced(a) /\ req[t] = DigestHeader(a)
        /\ a.last_nonce <= issued
    BY <1>0, <1>7, <2>1, <2>2
       DEF TypeOK, DigestAuth, StatesKnown, Presented, InTurn, Carried, Balanced
  <2>4. a.last_nonce \in Nat
    BY <2>3, NegotiationAssumption DEF DigestState
  <2>5. c # NoChallenge => c.nonce <= issued' /\ a.last_nonce <= c.nonce
    BY <1>2, <1>3, <1>4, <2>3, <2>4 DEF Nonces
  <2>6. ASSUME Steady PROVE a.last_nonce < c.nonce
    <3>1. header = "md5" /\ ~locked /\ "digest" \in accepts
      BY <1>0, <2>6 DEF OutcomeInv, Steady
    <3>2. c # NoChallenge /\ c.nonce \in Nat /\ c.nonce > 0
      BY <1>3, <3>1 DEF Offers, NoChallenge, Nonces
    <3>3. CASE a.challenge.alg = "md5"
      <4>1. req[t].scheme = "digest" /\ req[t].nonce = a.last_nonce
        BY <2>3, <3>3 DEF DigestHeader
      <4>2. a.last_nonce \notin valid
        BY <3>1, <4>1 DEF DeviceDenies, Granted
      <4>. QED
        BY <1>2, <1>3, <2>3, <2>4, <3>2, <4>2
    <3>4. CASE a.challenge.alg # "md5"
      BY <2>3, <3>2, <3>4 DEF Known
    <3>. QED
      BY <3>3, <3>4
  <2>7. auth'[u].state = a /\ ans'[u].challenge = c
    BY <1>5, <1>6, <2>1, <2>2
  <2>. QED
    BY <1>5, <2>5, <2>6, <2>7 DEF Challenging
<1>. QED
  BY <1>0, <1>4, <1>5, <1>7, TurnFrame

\* Every step that leaves the calls one after the other keeps the books right.
LEMMA TurnStep ==
  CInv /\ TypeOK' /\ TurnInv /\ [Next]_vars => TurnInv'
<1>. SUFFICES ASSUME CInv, TypeOK', TurnInv, [Next]_vars, serial' = TRUE PROVE InTurn'
  BY KnownStep DEF TurnInv, CInv, IInv, TypeInv, TypeOK
<1>0. TypeOK /\ StatesKnown /\ OpenIffAnswered
  BY DEF CInv, IInv, TypeInv, TurnInv
<1>1. InTurn /\ OneCall
  <2>1. serial
    BY <1>0 DEF TypeOK, vars, historyVars, Next, ClientStep, DeviceStep,
           CallStarts, ChallengeAnswered, ChallengeRaises, FallsBackToBasic,
           DigestReturns, BasicReturns, BodyRead, CallFails, DeviceServes,
           DeviceDenies, NonceExpires, DeviceLocks, DeviceUnlocks
  <2>. QED
    BY <2>1 DEF TurnInv, InTurn
<1>2. ASSUME NEW t \in Tasks, CallStarts(t) PROVE InTurn'
  <2>1. \A u \in Tasks : pc[u] = "idle"
    BY <1>0, <1>2 DEF CallStarts, TypeOK
  <2>. QED
    BY <1>0, <1>1, <1>2, <2>1, TurnStarts
<1>3. ASSUME NEW t \in Tasks, ChallengeAnswered(t) PROVE InTurn'
  BY <1>0, <1>1, <1>3, TurnAnswers
<1>4. ASSUME NEW t \in Tasks, ChallengeRaises(t) PROVE InTurn'
  BY <1>0, <1>1, <1>4, TurnRaises
<1>5. ASSUME NEW t \in Tasks, FallsBackToBasic(t) \/ DigestReturns(t) PROVE InTurn'
  BY <1>0, <1>1, <1>5, TurnRemembers
<1>6. ASSUME NEW t \in Tasks, BasicReturns(t) PROVE InTurn'
  <2>1. /\ UNCHANGED <<uses, sent, calls, digest, auth, req, ans, issued, accepts, lockouts>>
        /\ pc' = [pc EXCEPT ![t] = "body"] /\ pc[t] = "basic"
    BY <1>6 DEF BasicReturns, clientVars, deviceVars, historyVars
  <2>2. Steady' = Steady /\ issued <= issued'
    BY <1>0, <2>1 DEF Steady, TypeOK
  <2>3. \A u \in Tasks : pc[u] = "digest" => Challenging(u)'
    BY <1>1, <2>1, <2>2 DEF InTurn, Carried, Challenging
  <2>4. \A u \in Tasks : pc'[u] = pc[u] \/ (pc[u] = "basic" /\ pc'[u] = "body")
    BY <1>0, <2>1 DEF TypeOK
  <2>. QED
    BY <1>0, <1>1, <2>1, <2>2, <2>3, <2>4, TurnFrame
<1>7. ASSUME NEW t \in Tasks, BodyRead(t) PROVE InTurn'
  <2>1. \A u \in Tasks : pc[u] # "digest"
    BY <1>1, <1>7 DEF BodyRead, OneCall
  <2>2. Balanced(digest)
    BY <1>1, <2>1 DEF InTurn, Remembered
  <2>3. /\ pc[t] # "idle"
        /\ UNCHANGED <<uses, sent, calls, digest, issued, accepts, lockouts>>
        /\ CallEnds(t, IF ans[t].status = "denied" THEN "auth_error" ELSE "ok")
    BY <1>7 DEF BodyRead, clientVars, deviceVars, historyVars
  <2>4. PICK outcome : CallEnds(t, outcome)
    BY <2>3
  <2>. QED
    BY <1>0, <1>1, <2>2, <2>3, <2>4, TurnEnds
<1>8. ASSUME NEW t \in Tasks, NEW fault \in AllFaults, CallFails(t, fault) PROVE FALSE
  BY <1>8 DEF CallFails
<1>9. ASSUME NEW t \in Tasks, DeviceServes(t) PROVE InTurn'
  <2>1. /\ UNCHANGED <<uses, sent, calls, digest, auth, req, pc, issued, accepts, lockouts>>
        /\ ans' = [ans EXCEPT ![t] = [status |-> "served", challenge |-> NoChallenge]]
    BY <1>9 DEF DeviceServes, Arrives, clientVars, deviceVars, historyVars
  <2>2. Steady' = Steady /\ issued <= issued'
    BY <1>0, <2>1 DEF Steady, TypeOK
  <2>3. ASSUME NEW u \in Tasks, pc[u] = "digest" PROVE Challenging(u)'
    <3>1. CASE u = t
      BY <1>0, <2>1, <3>1 DEF Challenging, TypeOK
    <3>2. CASE u # t
      <4>1. ans'[u] = ans[u] /\ Challenging(u)
        BY <1>0, <1>1, <2>1, <2>3, <3>2 DEF InTurn, Carried, TypeOK
      <4>. QED
        BY <2>1, <2>2, <4>1 DEF Challenging
    <3>. QED
      BY <3>1, <3>2
  <2>. QED
    BY <1>0, <1>1, <2>1, <2>2, <2>3, TurnFrame
<1>10. ASSUME NEW t \in Tasks, DeviceDenies(t) PROVE InTurn'
  BY <1>0, <1>1, <1>10, TurnDenied
<1>11. CASE (\E n \in Nonces : NonceExpires(n)) \/ DeviceLocks \/ DeviceUnlocks \/ UNCHANGED vars
  <2>1. UNCHANGED <<uses, sent, calls, digest, auth, req, ans, pc, issued, accepts>>
    BY <1>11 DEF NonceExpires, DeviceLocks, DeviceUnlocks, vars, clientVars, taskVars,
                 deviceVars, historyVars
  <2>2. lockouts' = lockouts \/ lockouts' = lockouts + 1
    BY <1>11 DEF NonceExpires, DeviceLocks, DeviceUnlocks, vars, historyVars
  <2>3. (Steady' => Steady) /\ issued <= issued'
    BY <1>0, <2>1, <2>2, NegotiationAssumption DEF Steady, TypeOK
  <2>4. \A u \in Tasks : pc[u] = "digest" => Challenging(u)'
    BY <1>1, <2>1, <2>3 DEF InTurn, Carried, Challenging
  <2>. QED
    BY <1>0, <1>1, <2>1, <2>3, <2>4, TurnFrame
<1>. QED
  BY <1>2, <1>3, <1>4, <1>5, <1>6, <1>7, <1>8, <1>9, <1>10, <1>11
     DEF Next, ClientStep, DeviceStep

LEMMA TurnInit == Init => TurnInv
<1>. SUFFICES ASSUME Init PROVE TurnInv
  OBVIOUS
<1>1. digest = NoDigestState /\ issued = 0 /\ sent = 0 /\ calls = 0
      /\ uses = [n \in Nonces |-> 0] /\ pc = [t \in Tasks |-> "idle"]
      /\ req = [t \in Tasks |-> NoRequest]
  BY DEF Init
<1>2. Known(digest) /\ Balanced(digest)
  BY <1>1 DEF Known, Balanced, NoDigestState, NoChallenge
<1>. QED
  BY <1>1, <1>2 DEF TurnInv, StatesKnown, Presented, InTurn, OneCall, Remembered,
                    Carried, CountExact, NoRequest

\* While calls are made one after the other and none fails, the count presented
\* is that of the requests under its nonce, and on a device that takes digest
\* every request beyond the first of its call belongs to a nonce of its own.
THEOREM NonceReused == Spec => []SerialCallsReuseNonce
<1>1. Init => CInv /\ TurnInv
  BY CInvInductive, TurnInit
<1>2. CInv /\ TurnInv /\ [Next]_vars => CInv' /\ TurnInv'
  <2>1. CInv' => TypeOK'
    BY DEF CInv, IInv, TypeInv
  <2>. QED
    BY <2>1, CInvInductive, TurnStep
<1>3. CInv /\ TurnInv => SerialCallsReuseNonce
  <2>. SUFFICES ASSUME CInv, TurnInv, serial
                PROVE  CountExact /\ (Steady => sent <= calls + issued)
    BY DEF SerialCallsReuseNonce, CountExact, Steady
  <2>1. TypeOK /\ InTurn
    BY DEF CInv, IInv, TypeInv, TurnInv
  <2>2. CountExact
    BY <2>1 DEF InTurn
  <2>3. ASSUME Steady, NEW state \in DigestState, Balanced(state)
        PROVE  sent <= calls + issued
    <3>1. state.last_nonce \in Nat /\ sent \in Nat /\ calls \in Nat /\ issued \in Nat
      BY <2>1, NegotiationAssumption DEF DigestState, TypeOK
    <3>. QED
      BY <2>3, <3>1 DEF Balanced
  <2>4. CASE \A t \in Tasks : pc[t] # "digest"
    BY <2>1, <2>2, <2>3, <2>4 DEF InTurn, Remembered, TypeOK
  <2>5. ASSUME NEW t \in Tasks, pc[t] = "digest"
        PROVE  Steady => sent <= calls + issued
    BY <2>1, <2>3, <2>5 DEF InTurn, Carried, TypeOK, DigestAuth
  <2>. QED
    BY <2>2, <2>4, <2>5
<1>. QED
  BY <1>1, <1>2, <1>3, PTL DEF Spec

=============================================================================
