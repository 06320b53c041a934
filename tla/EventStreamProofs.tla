-------------------------- MODULE EventStreamProofs --------------------------
(***************************************************************************)
(* Theorems about EventStream and the Session under it, for every number   *)
(* of tasks, streams, sessions, closes and events.                         *)
(***************************************************************************)
EXTENDS EventStream, SequenceTheorems, TLAPS

-----------------------------------------------------------------------------
(* The session: one call of async_close waits at a time, as long as none   *)
(* overlap, and what it waits for stays on the client until it is over.    *)

OneCloses ==
  /\ supplied => Closing = {}
  /\ ~overlapped =>
       \A t \in Closing : /\ session # 0 /\ life[session] = "closed"
                          /\ \A u \in Closing : u = t

SessionInv ==
  /\ TypeOK
  /\ SessionsAccountedFor
  /\ ReopensAfterClose
  /\ OneCloses

\* _get_session gives a session that exists, and leaves the invariant as it is
\* up to what the caller's task does.
LEMMA GetSessionKeeps ==
  ASSUME SessionInv, NEW s \in Sessions, GetSession(s)
  PROVE  /\ owns' = owns
         /\ session' = s
         /\ life' \in [Sessions -> {"unborn", "open", "closed"}]
         /\ life'[s] # "unborn"
         /\ \A r \in Sessions : r # s => life'[r] = life[r]
         /\ session # 0 => life' = life
         /\ session = 0 => life'[s] = "open" /\ life[s] = "unborn"
         /\ \A r \in Sessions : life[r] # "unborn" => life'[r] # "unborn"
<1>1. CASE session # 0
  BY <1>1 DEF GetSession, SessionInv, TypeOK, Sessions
<1>2. CASE session = 0
  <2>1. owns = TRUE
    <3>1. ~supplied
      BY <1>2 DEF SessionInv, SessionsAccountedFor
    <3>. QED
      BY <3>1 DEF SessionInv, TypeOK
  <2>2. /\ life[s] = "unborn" /\ session' = s /\ owns' = TRUE
        /\ life' = [life EXCEPT ![s] = "open"]
    BY <1>2 DEF GetSession
  <2>. QED
    BY <1>2, <2>1, <2>2 DEF SessionInv, TypeOK
<1>. QED
  BY <1>1, <1>2

\* A step that takes the session, with a task that keeps or gets it.
LEMMA GetSessionInv ==
  ASSUME SessionInv, NEW s \in Sessions, GetSession(s), UNCHANGED historyVars,
         pc' \in [Tasks -> {"idle", "request", "closing"}],
         uses' \in [Tasks -> 0..MaxSessions],
         result' \in [Tasks -> {"none", "pending", "done", "runtime_error", "connection_error", "cancelled"}],
         \A t \in Tasks : /\ pc'[t] = "closing" <=> pc[t] = "closing"
                          /\ pc'[t] = "idle" <=> uses'[t] = 0
                          /\ uses'[t] # 0 => uses'[t] \in {s, uses[t]}
  PROVE  SessionInv'
<1>1. Closing' = Closing
  BY DEF Closing
<1>2. s # 0 /\ s \in 0..MaxSessions
  BY SessionAssumption DEF Sessions
<1>3. /\ owns' = owns
      /\ session' = s
      /\ life' \in [Sessions -> {"unborn", "open", "closed"}]
      /\ life'[s] # "unborn"
      /\ \A r \in Sessions : r # s => life'[r] = life[r]
      /\ session # 0 => life' = life
      /\ session = 0 => life'[s] = "open" /\ life[s] = "unborn"
      /\ \A r \in Sessions : life[r] # "unborn" => life'[r] # "unborn"
  BY GetSessionKeeps
<1>4. session # 0 => session = s
  BY DEF GetSession
<1>5. \A t \in Tasks : uses'[t] # 0 => life'[uses'[t]] # "unborn"
  <2>. SUFFICES ASSUME NEW t \in Tasks, uses'[t] # 0 PROVE life'[uses'[t]] # "unborn"
    OBVIOUS
  <2>1. CASE uses'[t] = s
    BY <1>3, <2>1
  <2>2. CASE uses'[t] = uses[t]
    BY <1>3, <2>2 DEF SessionInv, TypeOK, Sessions
  <2>. QED
    BY <2>1, <2>2
<1>6. TypeOK'
  BY <1>2, <1>3, <1>5 DEF SessionInv, TypeOK, historyVars
<1>7. SessionsAccountedFor'
  <2>1. supplied' => session' = 1 /\ life'[1] = "open"
    BY <1>2, <1>3, <1>4 DEF SessionInv, SessionsAccountedFor, historyVars
  <2>2. ASSUME ~overlapped', NEW r \in Sessions, life'[r] = "open" PROVE r = session'
    BY <1>2, <1>3, <1>4, <2>2
       DEF SessionInv, SessionsAccountedFor, historyVars, Sessions
  <2>. QED
    BY <2>1, <2>2 DEF SessionsAccountedFor
<1>8. ReopensAfterClose'
  BY <1>1, <1>2, <1>3, <1>4 DEF SessionInv, ReopensAfterClose, historyVars
<1>9. OneCloses'
  BY <1>1, <1>2, <1>3, <1>4 DEF SessionInv, OneCloses, historyVars
<1>. QED
  BY <1>6, <1>7, <1>8, <1>9 DEF SessionInv

\* A task that returns is idle, and only it has changed.
LEMMA ReturnTypes ==
  ASSUME TypeOK, NEW t \in Tasks, NEW outcome, Returns(t, outcome),
         outcome \in {"done", "runtime_error", "connection_error", "cancelled"}
  PROVE  /\ pc' \in [Tasks -> {"idle", "request", "closing"}]
         /\ uses' \in [Tasks -> 0..MaxSessions]
         /\ result' \in [Tasks -> {"none", "pending", "done", "runtime_error", "connection_error", "cancelled"}]
         /\ pc'[t] = "idle" /\ uses'[t] = 0
         /\ \A u \in Tasks : u # t => pc'[u] = pc[u] /\ uses'[u] = uses[u]
         /\ Closing' = Closing \ {t}
BY SessionAssumption DEF TypeOK, Returns, Closing

\* What async_close closes is the client's own.
LEMMA ClosesOwnSession ==
  ASSUME TypeOK, ClosesOwn
  PROVE  ~supplied /\ session \in Sessions /\ session # 0
<1>1. ~supplied
  <2>1. owns /\ owns = ~supplied
    BY DEF ClosesOwn, TypeOK
  <2>. QED
    BY <2>1
<1>2. session \in Sessions /\ session # 0
  <2>1. session \in 0..MaxSessions /\ session # 0
    BY DEF ClosesOwn, TypeOK
  <2>. QED
    BY <2>1, SessionAssumption DEF Sessions
<1>. QED
  BY <1>1, <1>2

LEMMA SessionStep == SessionInv /\ [Next]_vars => SessionInv'
<1>. SUFFICES ASSUME SessionInv, [Next]_vars PROVE SessionInv'
  OBVIOUS
<1>. USE DEF SessionInv
<1>1. ASSUME NEW t \in Tasks, RequestStarts(t) PROVE SessionInv'
  <2>1. PICK s \in Sessions :
          /\ GetSession(s)
          /\ IF life'[s] = "closed"
               THEN Returns(t, "runtime_error")
               ELSE /\ pc' = [pc EXCEPT ![t] = "request"]
                    /\ uses' = [uses EXCEPT ![t] = s]
                    /\ result' = [result EXCEPT ![t] = "pending"]
    BY <1>1 DEF RequestStarts
  <2>2. pc[t] = "idle" /\ UNCHANGED historyVars
    BY <1>1 DEF RequestStarts
  <2>3. s # 0 /\ s \in 0..MaxSessions
    BY SessionAssumption DEF Sessions
  <2>4. CASE life'[s] = "closed"
    BY <2>1, <2>2, <2>4, ReturnTypes, GetSessionInv DEF TypeOK
  <2>5. CASE life'[s] # "closed"
    BY <2>1, <2>2, <2>3, <2>5, GetSessionInv DEF TypeOK
  <2>. QED
    BY <2>4, <2>5
<1>2. ASSUME NEW t \in Tasks, RequestGoesOn(t) \/ RequestEnds(t) PROVE SessionInv'
  <2>1. pc[t] = "request" /\ UNCHANGED <<owns, session, life, historyVars>>
    BY <1>2 DEF RequestGoesOn, RequestEnds
  <2>2. PICK outcome \in {"done", "runtime_error", "connection_error"} : Returns(t, outcome)
    BY <1>2 DEF RequestGoesOn, RequestEnds
  <2>3. Closing' = Closing
    BY <2>1, <2>2, ReturnTypes DEF Closing
  <2>. QED
    BY <2>1, <2>2, <2>3, ReturnTypes
       DEF TypeOK, SessionsAccountedFor, ReopensAfterClose, OneCloses, historyVars
<1>3. ASSUME NEW t \in Tasks, CloseAtOnce(t) PROVE SessionInv'
  <2>1. /\ pc[t] = "idle" /\ closes' \in 0..MaxCloses
        /\ Returns(t, "done")
        /\ overlapped' = (overlapped \/ (ClosesOwn /\ Closing # {}))
        /\ UNCHANGED <<owns, supplied, cancelled>>
    BY <1>3, SessionAssumption DEF CloseAtOnce, TypeOK
  <2>2. Closing' = Closing
    BY <2>1, ReturnTypes DEF Closing
  <2>3. CASE ClosesOwn
    <3>1. /\ life' = [life EXCEPT ![session] = "closed"] /\ session' = 0
          /\ session \in Sessions /\ ~supplied
      BY <1>3, <2>3, ClosesOwnSession DEF CloseAtOnce, MarkClosed, SessionDropped
    <3>2. TypeOK'
      BY <2>1, <3>1, ReturnTypes, SessionAssumption DEF TypeOK, Sessions
    <3>3. SessionsAccountedFor' /\ ReopensAfterClose'
      BY <2>1, <3>1, SessionAssumption DEF SessionsAccountedFor, ReopensAfterClose, TypeOK, Sessions
    <3>4. OneCloses'
      BY <2>1, <2>2, <2>3 DEF OneCloses
    <3>. QED
      BY <3>2, <3>3, <3>4
  <2>4. CASE ~ClosesOwn
    <3>1. UNCHANGED <<session, life, overlapped>>
      BY <1>3, <2>1, <2>4 DEF CloseAtOnce, TypeOK
    <3>. QED
      BY <2>1, <2>2, <3>1, ReturnTypes
         DEF TypeOK, SessionsAccountedFor, ReopensAfterClose, OneCloses
  <2>. QED
    BY <2>3, <2>4
<1>4. ASSUME NEW t \in Tasks, CloseWaits(t) PROVE SessionInv'
  <2>1. /\ pc[t] = "idle" /\ closes' \in 0..MaxCloses /\ ClosesOwn
        /\ life' = [life EXCEPT ![session] = "closed"]
        /\ pc' = [pc EXCEPT ![t] = "closing"]
        /\ uses' = [uses EXCEPT ![t] = session]
        /\ result' = [result EXCEPT ![t] = "pending"]
        /\ overlapped' = (overlapped \/ Closing # {})
        /\ UNCHANGED <<owns, session, supplied, cancelled>>
    BY <1>4, SessionAssumption DEF CloseWaits, MarkClosed, TypeOK
  <2>2. session \in Sessions /\ session # 0 /\ ~supplied
    BY <2>1, ClosesOwnSession
  <2>3. Closing' = Closing \cup {t}
    BY <2>1 DEF Closing, TypeOK
  <2>4. TypeOK'
    BY <2>1, <2>2 DEF TypeOK, Sessions
  <2>5. SessionsAccountedFor' /\ ReopensAfterClose'
    BY <2>1, <2>2, <2>3 DEF SessionsAccountedFor, ReopensAfterClose, TypeOK, Sessions
  <2>6. OneCloses'
    BY <2>1, <2>2, <2>3 DEF OneCloses, TypeOK, Sessions
  <2>. QED
    BY <2>4, <2>5, <2>6
<1>5. ASSUME NEW t \in Tasks, CloseEnds(t) PROVE SessionInv'
  <2>1. /\ t \in Closing /\ session' = 0 /\ Returns(t, "done")
        /\ UNCHANGED <<owns, life, historyVars>>
    BY <1>5 DEF CloseEnds, SessionDropped, Closing
  <2>2. Closing' = Closing \ {t}
    BY <2>1, ReturnTypes
  <2>3. ~supplied
    BY <2>1, ReturnTypes DEF SessionsAccountedFor, OneCloses, TypeOK
  <2>4. TypeOK'
    BY <2>1, ReturnTypes, SessionAssumption DEF TypeOK, historyVars
  <2>5. SessionsAccountedFor' /\ ReopensAfterClose'
    BY <2>1, <2>3, SessionAssumption
       DEF SessionsAccountedFor, ReopensAfterClose, OneCloses, TypeOK, historyVars, Sessions
  <2>6. OneCloses'
    BY <2>1, <2>2 DEF OneCloses, historyVars
  <2>. QED
    BY <2>4, <2>5, <2>6
<1>6. ASSUME NEW t \in Tasks, CloseCancelled(t) PROVE SessionInv'
  <2>1. /\ cancelled' = TRUE /\ Returns(t, "cancelled")
        /\ UNCHANGED <<owns, session, life, supplied, closes, overlapped>>
    BY <1>6 DEF CloseCancelled
  <2>2. Closing' = Closing \ {t}
    BY <2>1, ReturnTypes
  <2>3. TypeOK'
    BY <2>1, ReturnTypes DEF TypeOK
  <2>. QED
    BY <2>1, <2>2, <2>3 DEF SessionsAccountedFor, ReopensAfterClose, OneCloses
<1>7. CASE UNCHANGED vars
  BY <1>7 DEF vars, historyVars, TypeOK, SessionsAccountedFor, ReopensAfterClose, OneCloses, Closing
<1>. QED
  BY <1>1, <1>2, <1>3, <1>4, <1>5, <1>6, <1>7 DEF Next, TaskStep

\* A session that exists never ceases to.
LEMMA SessionsRemain ==
  ASSUME SessionInv, [Next]_vars, NEW r \in Sessions, life[r] # "unborn"
  PROVE  life'[r] # "unborn"
<1>1. ASSUME NEW t \in Tasks, RequestStarts(t) PROVE life'[r] # "unborn"
  <2>1. PICK s \in Sessions : GetSession(s)
    BY <1>1 DEF RequestStarts
  <2>. QED
    BY <2>1, GetSessionKeeps
<1>2. ASSUME NEW t \in Tasks, CloseAtOnce(t) \/ CloseWaits(t) PROVE life'[r] # "unborn"
  <2>1. life' = life \/ life' = [life EXCEPT ![session] = "closed"]
    BY <1>2 DEF CloseAtOnce, CloseWaits, MarkClosed
  <2>. QED
    BY <2>1 DEF SessionInv, TypeOK
<1>3. ASSUME NEW t \in Tasks,
             RequestGoesOn(t) \/ RequestEnds(t) \/ CloseEnds(t) \/ CloseCancelled(t)
      PROVE  life'[r] # "unborn"
  BY <1>3 DEF RequestGoesOn, RequestEnds, CloseEnds, CloseCancelled
<1>. QED
  BY <1>1, <1>2, <1>3 DEF Next, TaskStep, vars

-----------------------------------------------------------------------------
(* The streams.                                                            *)

\* The events l are numbered from 1, and the events c go on from there.
Numbered(l)   == \A i \in 1..Len(l) : l[i] = i
GoesOn(c, l)  == \A i \in 1..Len(c) : c[i] = Len(l) + i

\* What holds of the values of one stream: what has been heard and what is
\* still coming are together the events sent, numbered from 1 without a gap.
Fits(g, o, a, h, c, n, e, l, d, w) ==
  /\ g \in {"idle", "asking", "answering", "reading"}
  /\ o \in 0..MaxSessions
  /\ a \in 0..2
  /\ h \in Nat
  /\ c \in Seq(1..MaxEvents)
  /\ n \in 0..MaxEvents
  /\ e \in BOOLEAN
  /\ l \in Seq(1..MaxEvents)
  /\ d \in {"none", "pending", "returned", "cancelled"}
  /\ w \in Failures \cup {"none", "finished", "cancelled"}
  /\ g = "idle" <=> o = 0
  /\ g = "asking" => a = 1
  /\ g # "reading" => h = 0 /\ c = <<>>
  /\ g # "idle" => w = "none"
  /\ g \in {"asking", "answering"} => l = <<>> /\ n = 0
  /\ g = "reading" => Len(l) + Len(c) = n
  /\ g = "idle" => (d = "cancelled" <=> w = "cancelled")
  /\ Len(l) <= n
  /\ Numbered(l)
  /\ GoesOn(c, l)
  /\ w = "finished" => Len(l) = n

StreamFits(s) ==
  Fits(stage[s], on[s], asked[s], held[s], coming[s], sentOn[s], eof[s], heard[s],
       ended[s], cause[s])

StreamInv ==
  /\ SessionInv
  /\ StreamTypeOK
  /\ \A s \in Streams : StreamFits(s)

MovesOn(s, a, n, e, l) ==
  /\ asked' = [asked EXCEPT ![s] = a]
  /\ sentOn' = [sentOn EXCEPT ![s] = n]
  /\ eof' = [eof EXCEPT ![s] = e]
  /\ heard' = [heard EXCEPT ![s] = l]

\* The values of the stream s become these, those of the others stay.
Moves(s, g, o, a, h, c, n, e, l, d, w) ==
  /\ stage' = [stage EXCEPT ![s] = g]
  /\ on' = [on EXCEPT ![s] = o]
  /\ held' = [held EXCEPT ![s] = h]
  /\ coming' = [coming EXCEPT ![s] = c]
  /\ ended' = [ended EXCEPT ![s] = d]
  /\ cause' = [cause EXCEPT ![s] = w]
  /\ MovesOn(s, a, n, e, l)

\* A step that changes the values of one stream to values that fit.
LEMMA OneStreamMoves ==
  ASSUME StreamInv, NEW s \in Streams, SessionInv',
         \A r \in Sessions : life[r] # "unborn" => life'[r] # "unborn",
         NEW g, NEW o, NEW a, NEW h, NEW c, NEW n, NEW e, NEW l, NEW d, NEW w,
         Fits(g, o, a, h, c, n, e, l, d, w),
         o # 0 => life'[o] # "unborn",
         Moves(s, g, o, a, h, c, n, e, l, d, w),
         streamed' \in 0..MaxStreams
  PROVE  StreamInv'
<1>1. ASSUME NEW u \in Streams, u # s PROVE StreamFits(u)'
  <2>1. /\ stage'[u] = stage[u] /\ on'[u] = on[u] /\ asked'[u] = asked[u]
        /\ held'[u] = held[u] /\ coming'[u] = coming[u] /\ sentOn'[u] = sentOn[u]
        /\ eof'[u] = eof[u] /\ heard'[u] = heard[u] /\ ended'[u] = ended[u]
        /\ cause'[u] = cause[u]
    BY <1>1 DEF StreamInv, StreamTypeOK, Moves, MovesOn
  <2>. QED
    BY <2>1 DEF StreamInv, StreamFits
<1>2. /\ stage'[s] = g /\ on'[s] = o /\ asked'[s] = a /\ held'[s] = h /\ coming'[s] = c
      /\ sentOn'[s] = n /\ eof'[s] = e /\ heard'[s] = l /\ ended'[s] = d /\ cause'[s] = w
  BY DEF StreamInv, StreamTypeOK, Moves, MovesOn
<1>3. StreamFits(s)'
  BY <1>2 DEF StreamFits
<1>4. \A u \in Streams : on'[u] # 0 => life'[on'[u]] # "unborn"
  <2>1. ASSUME NEW u \in Streams, u # s, on'[u] # 0 PROVE life'[on'[u]] # "unborn"
    <3>1. on'[u] = on[u] /\ on[u] \in Sessions
      BY <2>1, SessionAssumption DEF StreamInv, StreamTypeOK, Sessions, Moves
    <3>. QED
      BY <2>1, <3>1 DEF StreamInv, StreamTypeOK, Moves, MovesOn
  <2>. QED
    BY <1>2, <2>1
<1>5. /\ stage' \in [Streams -> {"idle", "asking", "answering", "reading"}]
      /\ on' \in [Streams -> 0..MaxSessions]
      /\ asked' \in [Streams -> 0..2]
      /\ held' \in [Streams -> Nat]
      /\ coming' \in [Streams -> Seq(1..MaxEvents)]
  BY DEF StreamInv, StreamTypeOK, Fits, Moves, MovesOn
<1>6. /\ sentOn' \in [Streams -> 0..MaxEvents]
      /\ eof' \in [Streams -> BOOLEAN]
      /\ heard' \in [Streams -> Seq(1..MaxEvents)]
      /\ ended' \in [Streams -> {"none", "pending", "returned", "cancelled"}]
      /\ cause' \in [Streams -> Failures \cup {"none", "finished", "cancelled"}]
  BY DEF StreamInv, StreamTypeOK, Fits, Moves, MovesOn
<1>7. \A u \in Streams : stage'[u] = "idle" <=> on'[u] = 0
  BY <1>1, <1>3 DEF StreamFits, Fits
<1>. QED
  BY <1>1, <1>3, <1>4, <1>5, <1>6, <1>7 DEF StreamInv, StreamTypeOK, SessionInv

\* A value that stays is one that is put back.
LEMMA StreamStays ==
  ASSUME StreamTypeOK, NEW s \in Streams
  PROVE  /\ stage = [stage EXCEPT ![s] = stage[s]]
         /\ on = [on EXCEPT ![s] = on[s]]
         /\ held = [held EXCEPT ![s] = held[s]]
         /\ coming = [coming EXCEPT ![s] = coming[s]]
         /\ ended = [ended EXCEPT ![s] = ended[s]]
         /\ cause = [cause EXCEPT ![s] = cause[s]]
         /\ asked = [asked EXCEPT ![s] = asked[s]]
         /\ sentOn = [sentOn EXCEPT ![s] = sentOn[s]]
         /\ eof = [eof EXCEPT ![s] = eof[s]]
         /\ heard = [heard EXCEPT ![s] = heard[s]]
BY DEF StreamTypeOK

LEMMA StreamValues ==
  ASSUME StreamInv, NEW s \in Streams
  PROVE  /\ StreamTypeOK /\ SessionInv
         /\ Fits(stage[s], on[s], asked[s], held[s], coming[s], sentOn[s], eof[s],
                 heard[s], ended[s], cause[s])
         /\ on[s] # 0 => on[s] \in Sessions /\ life[on[s]] # "unborn"
         /\ streamed \in 0..MaxStreams
BY SessionAssumption DEF StreamInv, StreamFits, StreamTypeOK, Sessions

\* However a call ends, it leaves values that fit.
LEMMA OverKeeps ==
  ASSUME StreamInv, NEW s \in Streams, SessionInv',
         \A r \in Sessions : life[r] # "unborn" => life'[r] # "unborn",
         NEW why \in Failures \cup {"finished", "cancelled"}, NEW m, StreamOver(s, why, m),
         NEW a \in 0..2, NEW n \in 0..MaxEvents, NEW e \in BOOLEAN,
         NEW l \in Seq(1..MaxEvents),
         Numbered(l),
         Len(l) <= n,
         why = "finished" => Len(l) = n,
         MovesOn(s, a, n, e, l),
         streamed' \in 0..MaxStreams
  PROVE  StreamInv'
<1>. DEFINE d == IF why = "cancelled" THEN "cancelled" ELSE "returned"
<1>1. Moves(s, "idle", 0, a, 0, <<>>, n, e, l, d, why)
  BY DEF StreamOver, Released, Reported, Moves
<1>2. Fits("idle", 0, a, 0, <<>>, n, e, l, d, why)
  BY SessionAssumption, EventStreamAssumption, EmptySeq DEF Fits, Failures, GoesOn
<1>. HIDE DEF d
<1>. QED
  BY <1>1, <1>2, OneStreamMoves

\* A step of the stream that leaves the session alone.
LEMMA SessionStands ==
  ASSUME StreamInv, UNCHANGED vars
  PROVE  /\ SessionInv'
         /\ \A r \in Sessions : life[r] # "unborn" => life'[r] # "unborn"
<1>1. SessionInv /\ [Next]_vars
  BY DEF StreamInv
<1>. QED
  BY <1>1, SessionStep DEF vars

LEMMA StartsKeeps ==
  ASSUME StreamInv, NEW s \in Streams, StreamStarts(s)
  PROVE  StreamInv'
<1>1. PICK x \in Sessions :
        /\ GetSession(x)
        /\ IF life'[x] = "closed"
             THEN /\ StreamOver(s, "session_closed", 0)
                  /\ asked' = [asked EXCEPT ![s] = 0]
             ELSE /\ stage' = [stage EXCEPT ![s] = "asking"]
                  /\ on' = [on EXCEPT ![s] = x]
                  /\ asked' = [asked EXCEPT ![s] = 1]
                  /\ ended' = [ended EXCEPT ![s] = "pending"]
                  /\ cause' = [cause EXCEPT ![s] = "none"]
                  /\ UNCHANGED <<held, coming>>
  BY DEF StreamStarts
<1>2. /\ stage[s] = "idle"
      /\ streamed' \in 0..MaxStreams
      /\ \A a : asked' = [asked EXCEPT ![s] = a] => MovesOn(s, a, 0, FALSE, <<>>)
      /\ UNCHANGED <<pc, uses, result, historyVars>>
  BY EventStreamAssumption DEF StreamStarts, StreamInv, StreamTypeOK, MovesOn
<1>3. SessionInv
  BY DEF StreamInv
<1>4. SessionInv'
  <2>1. /\ pc' \in [Tasks -> {"idle", "request", "closing"}]
        /\ uses' \in [Tasks -> 0..MaxSessions]
        /\ result' \in [Tasks -> {"none", "pending", "done", "runtime_error", "connection_error", "cancelled"}]
        /\ \A t \in Tasks : /\ pc'[t] = "closing" <=> pc[t] = "closing"
                            /\ pc'[t] = "idle" <=> uses'[t] = 0
                            /\ uses'[t] # 0 => uses'[t] \in {x, uses[t]}
    BY <1>2, <1>3 DEF SessionInv, TypeOK
  <2>. QED
    BY <1>1, <1>2, <1>3, <2>1, GetSessionInv
<1>5. /\ \A r \in Sessions : life[r] # "unborn" => life'[r] # "unborn"
      /\ life'[x] # "unborn"
  BY <1>1, <1>3, GetSessionKeeps
<1>6. x # 0 /\ x \in 0..MaxSessions
  BY SessionAssumption DEF Sessions
<1>7. <<>> \in Seq(1..MaxEvents) /\ Len(<<>>) = 0 /\ 0 \in 0..MaxEvents
  BY EventStreamAssumption, EmptySeq
<1>8. CASE life'[x] = "closed"
  <2>1. "session_closed" \in Failures \cup {"finished", "cancelled"}
    BY DEF Failures
  <2>2. /\ 0 \in 0..2 /\ FALSE \in BOOLEAN /\ Len(<<>>) <= 0
        /\ Numbered(<<>>)
    BY <1>7 DEF Numbered
  <2>3. StreamOver(s, "session_closed", 0) /\ MovesOn(s, 0, 0, FALSE, <<>>)
    BY <1>1, <1>2, <1>8
  <2>. QED
    BY <1>2, <1>4, <1>5, <1>7, <2>1, <2>2, <2>3, OverKeeps
<1>9. CASE life'[x] # "closed"
  <2>1. Moves(s, "asking", x, 1, held[s], coming[s], 0, FALSE, <<>>, "pending", "none")
    BY <1>1, <1>2, <1>9, StreamStays, StreamValues DEF Moves
  <2>2. held[s] = 0 /\ coming[s] = <<>>
    BY <1>2, StreamValues DEF Fits
  <2>3. Fits("asking", x, 1, held[s], coming[s], 0, FALSE, <<>>, "pending", "none")
    BY <1>6, <1>7, <2>2 DEF Fits, Numbered, GoesOn
  <2>. QED
    BY <1>2, <1>4, <1>5, <2>1, <2>3, OneStreamMoves
<1>. QED
  BY <1>8, <1>9

\* A call that is over leaves what was heard, sent and asked as it is.
LEMMA OverWithoutMore ==
  ASSUME StreamInv, NEW s \in Streams, UNCHANGED vars,
         NEW why \in Failures \cup {"finished", "cancelled"}, NEW m, StreamOver(s, why, m),
         why = "finished" => Len(heard[s]) = sentOn[s],
         UNCHANGED <<asked, sentOn, eof, heard, streamed>>
  PROVE  StreamInv'
<1>1. MovesOn(s, asked[s], sentOn[s], eof[s], heard[s]) /\ streamed' \in 0..MaxStreams
  BY StreamStays, StreamValues DEF MovesOn
<1>2. /\ asked[s] \in 0..2 /\ sentOn[s] \in 0..MaxEvents /\ eof[s] \in BOOLEAN
      /\ heard[s] \in Seq(1..MaxEvents) /\ Len(heard[s]) <= sentOn[s]
      /\ Numbered(heard[s])
  BY StreamValues DEF Fits
<1>. QED
  <2>1. SessionInv' /\ \A r \in Sessions : life[r] # "unborn" => life'[r] # "unborn"
    BY SessionStands
  <2>. QED
    BY <1>1, <1>2, <2>1, OverKeeps

\* The first element leaves a queue, and the others move up.
Rest(q) == SubSeq(q, 1, 0) \o SubSeq(q, 2, Len(q))

LEMMA WithoutFirst ==
  ASSUME NEW S, NEW q \in Seq(S), q # <<>>
  PROVE  /\ Rest(q) \in Seq(S)
         /\ Len(q) \in Nat \ {0}
         /\ Len(Rest(q)) = Len(q) - 1
         /\ \A i \in 1..Len(Rest(q)) : Rest(q)[i] = q[i + 1]
<1>1. Len(q) \in Nat \ {0} /\ Tail(q) \in Seq(S)
  BY EmptySeq, HeadTailProperties
<1>2. SubSeq(q, 2, Len(q)) = Tail(q)
  BY TailIsSubSeq
<1>3. SubSeq(q, 1, 0) = <<>>
  BY SubSeqEmpty
<1>4. Rest(q) = Tail(q)
  BY <1>1, <1>2, <1>3, ConcatEmptySeq DEF Rest
<1>. QED
  BY <1>1, <1>4, HeadTailProperties

\* What was heard and what is coming, when an event goes from one to the other.
LEMMA EventMoves ==
  ASSUME NEW M \in Nat, NEW n \in Nat, NEW h \in Seq(1..M), NEW q \in Seq(1..M), q # <<>>,
         Len(h) + Len(q) = n,
         Numbered(h),
         GoesOn(q, h)
  PROVE  LET l == Append(h, q[1])
             c == Rest(q)
         IN /\ l \in Seq(1..M) /\ c \in Seq(1..M)
            /\ Numbered(l)
            /\ GoesOn(c, l)
            /\ Len(l) + Len(c) = n
            /\ Len(l) <= n
<1>. DEFINE l == Append(h, q[1])
            c == Rest(q)
<1>1. PICK p \in Nat : p = Len(h)
  BY LenProperties
<1>2. PICK k \in Nat \ {0} : k = Len(q)
  BY EmptySeq
<1>3. q[1] \in 1..M /\ q[1] = p + 1
  <2>1. 1 \in 1..Len(q)
    BY <1>2
  <2>. QED
    BY <1>1, <2>1, ElementOfSeq DEF GoesOn
<1>4. /\ l \in Seq(1..M) /\ Len(l) = p + 1
      /\ \A i \in 1..p : l[i] = h[i]
      /\ l[p + 1] = p + 1
  BY <1>1, <1>3, AppendProperties
<1>5. /\ c \in Seq(1..M) /\ Len(c) = k - 1
      /\ \A i \in 1..(k - 1) : c[i] = q[i + 1]
  <2>1. /\ c \in Seq(1..M) /\ Len(c) = Len(q) - 1
        /\ \A i \in 1..Len(c) : c[i] = q[i + 1]
    BY WithoutFirst
  <2>. QED
    BY <1>2, <2>1
<1>. HIDE DEF l, c
<1>6. \A i \in 1..(p + 1) : l[i] = i
  <2>. SUFFICES ASSUME NEW i \in 1..(p + 1) PROVE l[i] = i
    OBVIOUS
  <2>1. CASE i = p + 1
    BY <1>4, <2>1
  <2>2. CASE i # p + 1
    <3>1. i \in 1..p
      BY <1>1, <2>2
    <3>2. l[i] = h[i] /\ h[i] = i
      BY <1>1, <1>4, <3>1 DEF Numbered
    <3>. QED
      BY <3>2
  <2>. QED
    BY <2>1, <2>2
<1>7. \A i \in 1..(k - 1) : c[i] = (p + 1) + i
  <2>. SUFFICES ASSUME NEW i \in 1..(k - 1) PROVE c[i] = (p + 1) + i
    OBVIOUS
  <2>1. i + 1 \in 1..k
    OBVIOUS
  <2>2. q[i + 1] = p + (i + 1)
    BY <1>1, <1>2, <2>1 DEF GoesOn
  <2>. QED
    BY <1>5, <2>2
<1>8. p + k = n
  BY <1>1, <1>2
<1>9. Numbered(l)
  BY <1>4, <1>6 DEF Numbered
<1>10. GoesOn(c, l)
  BY <1>4, <1>5, <1>7 DEF GoesOn
<1>11. Len(l) + Len(c) = n /\ Len(l) <= n
  <2>1. Len(l) = p + 1 /\ Len(c) = k - 1
    BY <1>4, <1>5
  <2>. QED
    BY <1>1, <1>2, <1>8, <2>1
<1>. QED
  BY <1>4, <1>5, <1>9, <1>10, <1>11 DEF l, c

LEMMA HearsKeeps ==
  ASSUME StreamInv, NEW s \in Streams, StreamHears(s)
  PROVE  StreamInv'
<1>. DEFINE l == Append(heard[s], coming[s][1])
            c == Rest(coming[s])
<1>1. /\ stage[s] = "reading" /\ coming[s] # <<>>
      /\ heard' = [heard EXCEPT ![s] = l]
      /\ UNCHANGED <<vars, asked, sentOn, eof, streamed>>
      /\ \/ /\ coming' = [coming EXCEPT ![s] = c]
            /\ UNCHANGED <<stage, on, held, ended, cause>>
         \/ StreamOver(s, "callback", held[s])
  BY DEF StreamHears, Oldest, Rest, StreamInv, StreamTypeOK
<1>2. /\ coming[s] \in Seq(1..MaxEvents) /\ heard[s] \in Seq(1..MaxEvents)
      /\ Len(heard[s]) + Len(coming[s]) = sentOn[s]
      /\ sentOn[s] \in 0..MaxEvents /\ asked[s] \in 0..2 /\ eof[s] \in BOOLEAN
      /\ Numbered(heard[s])
      /\ GoesOn(coming[s], heard[s])
      /\ cause[s] = "none"
      /\ streamed \in 0..MaxStreams
  BY <1>1, StreamValues DEF Fits
<1>3. sentOn[s] \in Nat /\ MaxEvents \in Nat
  BY <1>2, EventStreamAssumption
<1>4. /\ l \in Seq(1..MaxEvents) /\ c \in Seq(1..MaxEvents)
      /\ Numbered(l)
      /\ GoesOn(c, l)
      /\ Len(l) + Len(c) = sentOn[s]
      /\ Len(l) <= sentOn[s]
  <2>1. /\ heard[s] \in Seq(1..MaxEvents) /\ coming[s] \in Seq(1..MaxEvents)
        /\ coming[s] # <<>> /\ Numbered(heard[s]) /\ GoesOn(coming[s], heard[s])
        /\ Len(heard[s]) + Len(coming[s]) = sentOn[s]
    BY <1>1, <1>2
  <2>. QED
    BY <1>3, <2>1, EventMoves
<1>. HIDE DEF l, c
<1>7. SessionInv' /\ \A r \in Sessions : life[r] # "unborn" => life'[r] # "unborn"
  BY <1>1, SessionStands
<1>5. CASE /\ coming' = [coming EXCEPT ![s] = c]
            /\ UNCHANGED <<stage, on, held, ended, cause>>
  <2>1. Fits(stage[s], on[s], asked[s], held[s], c, sentOn[s], eof[s], l, ended[s], cause[s])
    BY <1>1, <1>2, <1>4, StreamValues DEF Fits
  <2>2. /\ Moves(s, stage[s], on[s], asked[s], held[s], c, sentOn[s], eof[s], l, ended[s], cause[s])
        /\ streamed' \in 0..MaxStreams
    BY <1>1, <1>5, StreamStays, StreamValues DEF Moves, MovesOn
  <2>3. on[s] # 0 => life'[on[s]] # "unborn"
    BY <1>1, StreamValues, SessionStands
  <2>. QED
    BY <1>7, <2>1, <2>2, <2>3, OneStreamMoves
<1>6. CASE StreamOver(s, "callback", held[s])
  <2>1. "callback" \in Failures \cup {"finished", "cancelled"} /\ "callback" # "finished"
    BY DEF Failures
  <2>2. MovesOn(s, asked[s], sentOn[s], eof[s], l) /\ streamed' \in 0..MaxStreams
    BY <1>1, StreamStays, StreamValues DEF MovesOn
  <2>. QED
    BY <1>2, <1>4, <1>6, <1>7, <2>1, <2>2, OverKeeps
<1>. QED
  BY <1>1, <1>5, <1>6

\* The steps of the handshake and of the device.
LEMMA RequestKeeps ==
  ASSUME StreamInv, NEW s \in Streams, StreamChallenged(s) \/ StreamRefused(s)
  PROVE  StreamInv'
<1>1. UNCHANGED vars /\ UNCHANGED <<sentOn, eof, heard, streamed>>
  BY DEF StreamChallenged, StreamRefused
<1>2. ASSUME NEW why \in Failures, NEW m, StreamOver(s, why, m), UNCHANGED asked
      PROVE  StreamInv'
  <2>1. why # "finished"
    BY DEF Failures
  <2>. QED
    BY <1>1, <1>2, <2>1, OverWithoutMore
<1>3. CASE StreamRefused(s)
  BY <1>2, <1>3 DEF StreamRefused, Failures
<1>4. CASE StreamOver(s, "bad_challenge", 0) /\ UNCHANGED asked
  BY <1>2, <1>4 DEF Failures
<1>5. CASE StreamOver(s, "session_closed", 0) /\ UNCHANGED asked
  BY <1>2, <1>5 DEF Failures
<1>6. CASE /\ stage[s] = "asking"
           /\ stage' = [stage EXCEPT ![s] = "answering"]
           /\ asked' = [asked EXCEPT ![s] = @ + 1]
           /\ UNCHANGED <<on, held, coming, ended, cause>>
  <2>1. asked[s] = 1 /\ stage[s] = "asking"
    BY <1>6, StreamValues DEF Fits
  <2>2. Moves(s, "answering", on[s], 2, held[s], coming[s], sentOn[s], eof[s], heard[s], ended[s], cause[s])
    BY <1>1, <1>6, <2>1, StreamStays, StreamValues DEF Moves, MovesOn
  <2>3. Fits("answering", on[s], 2, held[s], coming[s], sentOn[s], eof[s], heard[s], ended[s], cause[s])
    <3>1. Fits("asking", on[s], 1, held[s], coming[s], sentOn[s], eof[s], heard[s], ended[s], cause[s])
      BY <2>1, StreamValues
    <3>. QED
      BY <3>1 DEF Fits
  <2>4. streamed' \in 0..MaxStreams
    BY <1>1, StreamValues
  <2>5. on[s] # 0 => life'[on[s]] # "unborn"
    BY <1>1, StreamValues, SessionStands
  <2>. QED
    BY <1>1, <2>2, <2>3, <2>4, <2>5, SessionStands, OneStreamMoves
<1>. QED
  BY <1>3, <1>4, <1>5, <1>6 DEF StreamChallenged, TakesUp

LEMMA ReadKeeps ==
  ASSUME StreamInv, NEW s \in Streams, StreamServed(s) \/ StreamFinishes(s) \/ StreamCut(s)
  PROVE  StreamInv'
<1>1. UNCHANGED vars /\ UNCHANGED <<asked, sentOn, eof, heard, streamed>>
  BY DEF StreamServed, StreamFinishes, StreamCut
<1>2. CASE StreamServed(s)
  <2>1. stage[s] \in {"asking", "answering"}
    BY <1>2 DEF StreamServed
  <2>2. held[s] = 0
    BY <2>1, StreamValues DEF Fits
  <2>3. Moves(s, "reading", on[s], asked[s], 1, coming[s], sentOn[s], eof[s], heard[s], ended[s], cause[s])
    <3>1. /\ stage' = [stage EXCEPT ![s] = "reading"]
          /\ held' = [held EXCEPT ![s] = 1]
          /\ UNCHANGED <<on, coming, ended, cause>>
      BY <1>2, <2>2 DEF StreamServed
    <3>. QED
      BY <1>1, <3>1, StreamStays, StreamValues DEF Moves, MovesOn
  <2>4. Fits("reading", on[s], asked[s], 1, coming[s], sentOn[s], eof[s], heard[s], ended[s], cause[s])
    <3>1. Len(heard[s]) + Len(coming[s]) = sentOn[s]
      <4>1. heard[s] = <<>> /\ coming[s] = <<>> /\ sentOn[s] = 0
        BY <2>1, StreamValues DEF Fits
      <4>. QED
        BY <4>1, EmptySeq
    <3>. QED
      BY <2>1, <3>1, StreamValues DEF Fits
  <2>5. streamed' \in 0..MaxStreams
    BY <1>1, StreamValues
  <2>6. on[s] # 0 => life'[on[s]] # "unborn"
    BY <1>1, StreamValues, SessionStands
  <2>. QED
    BY <1>1, <2>3, <2>4, <2>5, <2>6, SessionStands, OneStreamMoves
<1>3. CASE StreamFinishes(s)
  <2>1. stage[s] = "reading" /\ coming[s] = <<>> /\ StreamOver(s, "finished", held[s])
    BY <1>3 DEF StreamFinishes, AllRead
  <2>2. Len(heard[s]) = sentOn[s]
    <3>1. /\ Len(heard[s]) + Len(coming[s]) = sentOn[s]
          /\ heard[s] \in Seq(1..MaxEvents)
      BY <2>1, StreamValues DEF Fits
    <3>2. Len(coming[s]) = 0 /\ Len(heard[s]) \in Nat
      BY <2>1, <3>1, EmptySeq, LenProperties
    <3>. QED
      BY <3>1, <3>2
  <2>. QED
    BY <1>1, <2>1, <2>2, OverWithoutMore
<1>4. CASE StreamCut(s)
  <2>1. PICK why \in {"lost", "timeout", "cancelled"} : StreamOver(s, why, held[s])
    BY <1>4 DEF StreamCut
  <2>2. why \in Failures \cup {"finished", "cancelled"} /\ why # "finished"
    BY DEF Failures
  <2>. QED
    BY <1>1, <2>1, <2>2, OverWithoutMore
<1>. QED
  BY <1>2, <1>3, <1>4

\* An event arrives: the next number joins those that are coming.
LEMMA EventArrives ==
  ASSUME NEW M \in Nat, NEW n \in Nat, n < M, NEW h \in Seq(1..M), NEW q \in Seq(1..M),
         Len(h) + Len(q) = n, GoesOn(q, h)
  PROVE  /\ Append(q, n + 1) \in Seq(1..M)
         /\ Len(h) + Len(Append(q, n + 1)) = n + 1
         /\ Len(h) <= n + 1
         /\ GoesOn(Append(q, n + 1), h)
<1>1. PICK p \in Nat : p = Len(h)
  BY LenProperties
<1>2. PICK k \in Nat : k = Len(q)
  BY LenProperties
<1>. DEFINE r == Append(q, n + 1)
<1>3. /\ r \in Seq(1..M) /\ Len(r) = k + 1
      /\ \A i \in 1..k : r[i] = q[i]
      /\ r[k + 1] = n + 1
  BY <1>2, AppendProperties
<1>. HIDE DEF r
<1>4. ASSUME NEW i \in 1..(k + 1) PROVE r[i] = p + i
  <2>1. CASE i = k + 1
    <3>1. p + k = n
      BY <1>1, <1>2
    <3>2. r[i] = n + 1
      BY <1>3, <2>1
    <3>. QED
      BY <1>1, <1>2, <2>1, <3>1, <3>2
  <2>2. CASE i # k + 1
    <3>1. i \in 1..k
      BY <1>2, <2>2
    <3>2. r[i] = q[i] /\ q[i] = Len(h) + i
      BY <1>2, <1>3, <3>1 DEF GoesOn
    <3>. QED
      BY <1>1, <3>2
  <2>. QED
    BY <2>1, <2>2
<1>5. GoesOn(r, h)
  BY <1>1, <1>3, <1>4 DEF GoesOn
<1>6. Len(h) + Len(r) = n + 1 /\ Len(h) <= n + 1
  BY <1>1, <1>2, <1>3
<1>. QED
  BY <1>3, <1>5, <1>6 DEF r

LEMMA DeviceKeeps ==
  ASSUME StreamInv, NEW s \in Streams, DeviceSends(s) \/ DeviceEndsStream(s)
  PROVE  StreamInv'
<1>1. /\ UNCHANGED vars /\ UNCHANGED <<stage, on, asked, held, heard, ended, cause, streamed>>
      /\ stage[s] = "reading"
  BY DEF DeviceSends, DeviceEndsStream
<1>2. streamed' \in 0..MaxStreams
  BY <1>1, StreamValues
<1>3. on[s] # 0 => life'[on[s]] # "unborn"
  BY <1>1, StreamValues, SessionStands
<1>4. CASE DeviceSends(s)
  <2>. DEFINE c == Append(coming[s], sentOn[s] + 1)
  <2>1. /\ sentOn' = [sentOn EXCEPT ![s] = sentOn[s] + 1]
        /\ coming' = [coming EXCEPT ![s] = c]
        /\ sentOn[s] < MaxEvents /\ UNCHANGED eof
    BY <1>4 DEF DeviceSends
  <2>2. /\ coming[s] \in Seq(1..MaxEvents) /\ heard[s] \in Seq(1..MaxEvents)
        /\ Len(heard[s]) + Len(coming[s]) = sentOn[s]
        /\ GoesOn(coming[s], heard[s])
        /\ sentOn[s] \in 0..MaxEvents /\ cause[s] = "none"
    BY <1>1, StreamValues DEF Fits
  <2>7. sentOn[s] \in Nat /\ MaxEvents \in Nat
    BY <2>2, EventStreamAssumption
  <2>3. /\ c \in Seq(1..MaxEvents)
        /\ Len(heard[s]) + Len(c) = sentOn[s] + 1
        /\ Len(heard[s]) <= sentOn[s] + 1
        /\ GoesOn(c, heard[s])
    BY <2>1, <2>2, <2>7, EventArrives
  <2>. HIDE DEF c
  <2>4. sentOn[s] + 1 \in 0..MaxEvents
    BY <2>1, <2>7
  <2>5. Fits(stage[s], on[s], asked[s], held[s], c, sentOn[s] + 1, eof[s], heard[s], ended[s], cause[s])
    BY <1>1, <2>2, <2>3, <2>4, <2>7, StreamValues DEF Fits
  <2>6. Moves(s, stage[s], on[s], asked[s], held[s], c, sentOn[s] + 1, eof[s], heard[s], ended[s], cause[s])
    BY <1>1, <2>1, StreamStays, StreamValues DEF Moves, MovesOn
  <2>. QED
    BY <1>1, <1>2, <1>3, <2>5, <2>6, SessionStands, OneStreamMoves
<1>5. CASE DeviceEndsStream(s)
  <2>1. eof' = [eof EXCEPT ![s] = TRUE] /\ UNCHANGED <<coming, sentOn>>
    BY <1>5 DEF DeviceEndsStream
  <2>2. Fits(stage[s], on[s], asked[s], held[s], coming[s], sentOn[s], TRUE, heard[s], ended[s], cause[s])
    BY StreamValues DEF Fits
  <2>3. Moves(s, stage[s], on[s], asked[s], held[s], coming[s], sentOn[s], TRUE, heard[s], ended[s], cause[s])
    BY <1>1, <2>1, StreamStays, StreamValues DEF Moves, MovesOn
  <2>. QED
    BY <1>1, <1>2, <1>3, <2>2, <2>3, SessionStands, OneStreamMoves
<1>. QED
  BY <1>4, <1>5

-----------------------------------------------------------------------------

LEMMA StreamInitially == StreamInit => StreamInv
<1>. SUFFICES ASSUME StreamInit PROVE StreamInv
  OBVIOUS
<1>1. <<>> \in Seq(1..MaxEvents) /\ Len(<<>>) = 0 /\ 0 \in 0..MaxEvents
  BY EventStreamAssumption, EmptySeq
<1>2. SessionInv
  <2>1. TypeOK
    <3>1. /\ supplied \in BOOLEAN /\ owns = ~supplied
          /\ session \in 0..MaxSessions
          /\ life \in [Sessions -> {"unborn", "open", "closed"}]
          /\ session # 0 => life[session] # "unborn"
      BY SessionAssumption DEF StreamInit, Init, Sessions
    <3>2. /\ pc = [t \in Tasks |-> "idle"] /\ uses = [t \in Tasks |-> 0]
          /\ result = [t \in Tasks |-> "none"]
          /\ closes = 0
      BY DEF StreamInit, Init
    <3>4. overlapped \in BOOLEAN /\ cancelled \in BOOLEAN
      BY DEF StreamInit, Init
    <3>5. closes \in 0..MaxCloses
      BY <3>2, SessionAssumption
    <3>3. /\ pc \in [Tasks -> {"idle", "request", "closing"}]
          /\ uses \in [Tasks -> 0..MaxSessions]
          /\ result \in [Tasks -> {"none", "pending", "done", "runtime_error", "connection_error", "cancelled"}]
          /\ \A t \in Tasks : pc[t] = "idle" /\ uses[t] = 0
      BY <3>2, SessionAssumption
    <3>. QED
      BY <3>1, <3>3, <3>4, <3>5 DEF TypeOK
  <2>2. SessionsAccountedFor /\ ReopensAfterClose /\ OneCloses
    BY SessionAssumption
       DEF StreamInit, Init, SessionsAccountedFor, ReopensAfterClose, OneCloses, Closing, Sessions
  <2>. QED
    BY <2>1, <2>2 DEF SessionInv
<1>3. StreamTypeOK
  BY <1>1, <1>2, SessionAssumption, EventStreamAssumption
     DEF StreamInit, StreamTypeOK, SessionInv
<1>4. ASSUME NEW s \in Streams PROVE StreamFits(s)
  <2>1. Fits("idle", 0, 0, 0, <<>>, 0, FALSE, <<>>, "none", "none")
    BY <1>1, SessionAssumption DEF Fits, Numbered, GoesOn
  <2>. QED
    BY <2>1 DEF StreamInit, StreamFits
<1>. QED
  BY <1>2, <1>3, <1>4 DEF StreamInv

LEMMA StreamStepKeeps == StreamInv /\ [StreamNext]_allVars => StreamInv'
<1>. SUFFICES ASSUME StreamInv, [StreamNext]_allVars PROVE StreamInv'
  OBVIOUS
<1>1. ASSUME Next \/ UNCHANGED vars, UNCHANGED streamVars PROVE StreamInv'
  <2>1. SessionInv /\ [Next]_vars
    BY <1>1 DEF StreamInv
  <2>2. SessionInv'
    BY <2>1, SessionStep
  <2>3. \A s \in Streams : on[s] # 0 => life'[on[s]] # "unborn"
    BY <2>1, SessionsRemain, StreamValues
  <2>4. StreamTypeOK'
    BY <1>1, <2>2, <2>3 DEF streamVars, StreamInv, StreamTypeOK, SessionInv
  <2>5. \A s \in Streams : StreamFits(s)'
    BY <1>1 DEF streamVars, StreamInv, StreamFits
  <2>. QED
    BY <2>2, <2>4, <2>5 DEF StreamInv
<1>2. ASSUME NEW s \in Streams, StreamStep(s) PROVE StreamInv'
  BY <1>2, StartsKeeps, RequestKeeps, ReadKeeps, HearsKeeps, DeviceKeeps DEF StreamStep
<1>3. CASE UNCHANGED allVars
  BY <1>1, <1>3 DEF allVars
<1>. QED
  BY <1>1, <1>2, <1>3 DEF StreamNext

THEOREM StreamInvariant == StreamSpec => []StreamInv
BY StreamInitially, StreamStepKeeps, PTL DEF StreamSpec

\* The variables keep their types, those of the session included.
THEOREM TypeCorrect == StreamSpec => []StreamTypeOK
<1>1. StreamInv => StreamTypeOK
  BY DEF StreamInv
<1>. QED
  BY <1>1, StreamInvariant, PTL

\* A supplied session is never closed or taken off the client, and no open
\* session is lost sight of while closes do not overlap (async_close).
THEOREM AccountedFor == StreamSpec => []SessionsAccountedFor
<1>1. StreamInv => SessionsAccountedFor
  BY DEF StreamInv, SessionInv
<1>. QED
  BY <1>1, StreamInvariant, PTL

\* The client refers to a closed session only while a close waits, or after
\* one was cancelled there.
THEOREM Reopens == StreamSpec => []ReopensAfterClose
<1>1. StreamInv => ReopensAfterClose
  BY DEF StreamInv, SessionInv
<1>. QED
  BY <1>1, StreamInvariant, PTL

\* No stream keeps a response, and a cancellation is all its caller is told
\* of (stream_events).
THEOREM EndsClean == StreamSpec => []StreamEndsClean
<1>1. StreamInv => StreamEndsClean
  BY StreamValues DEF Fits, StreamEndsClean
<1>. QED
  BY <1>1, StreamInvariant, PTL

\* on_receive gets the events in order, each once, and all of them from a
\* stream that came to its end.
THEOREM InOrder == StreamSpec => []EventsInOrder
<1>1. ASSUME StreamInv, NEW s \in Streams
      PROVE  /\ heard[s] = [i \in 1..Len(heard[s]) |-> i]
             /\ Len(heard[s]) <= sentOn[s]
             /\ cause[s] = "finished" => Len(heard[s]) = sentOn[s]
  <2>1. /\ heard[s] \in Seq(1..MaxEvents) /\ Numbered(heard[s])
        /\ Len(heard[s]) <= sentOn[s]
        /\ cause[s] = "finished" => Len(heard[s]) = sentOn[s]
    BY <1>1, StreamValues DEF Fits
  <2>2. heard[s] \in [1..Len(heard[s]) -> 1..MaxEvents]
    BY <2>1, LenProperties
  <2>. QED
    BY <2>1, <2>2 DEF Numbered
<1>2. StreamInv => EventsInOrder
  BY <1>1 DEF EventsInOrder
<1>. QED
  BY <1>2, StreamInvariant, PTL
=============================================================================
