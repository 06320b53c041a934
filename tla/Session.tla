------------------------------ MODULE Session ------------------------------
(***************************************************************************)
(* The life of the client's aiohttp session: _get_session, which creates   *)
(* one when there is none, and async_close, which closes the one the       *)
(* client created.  Requests, event streams and audio posts take the       *)
(* session when they start and keep using it; closing awaits.              *)
(*                                                                         *)
(* aiohttp, external: ClientSession.close marks the session closed at once *)
(* and then may wait for its connections; on a closed session it returns   *)
(* immediately, and a request raises RuntimeError.                         *)
(***************************************************************************)
EXTENDS Integers, FiniteSets

CONSTANTS
  Tasks,        \* asyncio tasks that share the client
  MaxSessions,  \* bound: sessions created in a behaviour
  MaxCloses,    \* bound: calls of async_close
  Cancels       \* may a task be cancelled while it waits for a close?

ASSUME SessionAssumption ==
  /\ MaxSessions \in Nat \ {0}
  /\ MaxCloses \in Nat
  /\ Cancels \in BOOLEAN

VARIABLES
  owns,       \* client: _owns_session
  session,    \* client: _session, 0 for None
  life,       \* session: "unborn", "open" or "closed"
  pc,         \* task: what its call awaits
  uses,       \* task: the session its call works on, 0 for none
  result,     \* task: how its last call ended
  supplied,   \* history: was a session passed to the constructor?
  closes,     \* history: calls of async_close
  overlapped, \* history: have two of them waited at the same time?
  cancelled   \* history: has one of them been cancelled?

historyVars == <<supplied, closes, overlapped, cancelled>>
vars == <<owns, session, life, pc, uses, result, historyVars>>

Sessions == 1..MaxSessions
Closing  == {t \in Tasks : pc[t] = "closing"}

-----------------------------------------------------------------------------

Returns(t, outcome) ==
  /\ pc' = [pc EXCEPT ![t] = "idle"]
  /\ uses' = [uses EXCEPT ![t] = 0]
  /\ result' = [result EXCEPT ![t] = outcome]

\* Mutant: a session is created even if there is one.
AlwaysNew(s) ==
  /\ life[s] = "unborn"
  /\ session' = s
  /\ owns' = TRUE
  /\ life' = [life EXCEPT ![s] = "open"]

\* _get_session, for the session s: the one there is, or a new one.
GetSession(s) ==
  IF session # 0
    THEN s = session /\ UNCHANGED <<owns, session, life>>
    ELSE /\ life[s] = "unborn"
         /\ \A r \in Sessions : r < s => life[r] # "unborn"
         /\ session' = s
         /\ owns' = TRUE
         /\ life' = [life EXCEPT ![s] = "open"]

\* A request starts.  On a closed session it raises at once.
RequestStarts(t) ==
  /\ pc[t] = "idle"
  /\ \E s \in Sessions :
       /\ GetSession(s)
       /\ IF life'[s] = "closed"
            THEN Returns(t, "runtime_error")
            ELSE /\ pc' = [pc EXCEPT ![t] = "request"]
                 /\ uses' = [uses EXCEPT ![t] = s]
                 /\ result' = [result EXCEPT ![t] = "pending"]
  /\ UNCHANGED historyVars

\* The request goes on with another one on the session it has: the answer to
\* a challenge, or the basic fallback.
RequestGoesOn(t) ==
  /\ pc[t] = "request"
  /\ life[uses[t]] = "closed"
  /\ Returns(t, "runtime_error")
  /\ UNCHANGED <<owns, session, life, historyVars>>

\* The request ends: served, or with the error its closed connection gives.
RequestEnds(t) ==
  /\ pc[t] = "request"
  /\ Returns(t, IF life[uses[t]] = "closed" THEN "connection_error" ELSE "done")
  /\ UNCHANGED <<owns, session, life, historyVars>>

\* async_close has something to do.
ClosesOwn == owns /\ session # 0

\* Mutant: the closed session stays on the client.
SessionKept == UNCHANGED session

\* What async_close does when the await is over.
SessionDropped == session' = 0

\* Mutant: the session is dropped, but not closed.
CloseForgotten(s) == UNCHANGED life

\* aiohttp marks the session closed.
MarkClosed(s) == life' = [life EXCEPT ![s] = "closed"]

\* Nothing to close, or nothing to wait for.
CloseAtOnce(t) ==
  /\ pc[t] = "idle"
  /\ closes < MaxCloses
  /\ closes' = closes + 1
  /\ IF ClosesOwn
       THEN MarkClosed(session) /\ SessionDropped
       ELSE UNCHANGED <<session, life>>
  /\ Returns(t, "done")
  /\ overlapped' = (overlapped \/ (ClosesOwn /\ Closing # {}))
  /\ UNCHANGED <<owns, supplied, cancelled>>

\* The session has connections to wait for.
CloseWaits(t) ==
  /\ pc[t] = "idle"
  /\ closes < MaxCloses
  /\ ClosesOwn
  /\ life[session] = "open"
  /\ closes' = closes + 1
  /\ MarkClosed(session)
  /\ pc' = [pc EXCEPT ![t] = "closing"]
  /\ uses' = [uses EXCEPT ![t] = session]
  /\ result' = [result EXCEPT ![t] = "pending"]
  /\ overlapped' = (overlapped \/ Closing # {})
  /\ UNCHANGED <<owns, session, supplied, cancelled>>

CloseEnds(t) ==
  /\ pc[t] = "closing"
  /\ SessionDropped
  /\ Returns(t, "done")
  /\ UNCHANGED <<owns, life, historyVars>>

\* The wait is cancelled, and _session is not reset.
CloseCancelled(t) ==
  /\ Cancels
  /\ pc[t] = "closing"
  /\ cancelled' = TRUE
  /\ Returns(t, "cancelled")
  /\ UNCHANGED <<owns, session, life, supplied, closes, overlapped>>

-----------------------------------------------------------------------------

Init ==
  /\ supplied \in BOOLEAN
  /\ owns = ~supplied
  /\ session = IF supplied THEN 1 ELSE 0
  /\ life = [s \in Sessions |-> IF supplied /\ s = 1 THEN "open" ELSE "unborn"]
  /\ pc = [t \in Tasks |-> "idle"]
  /\ uses = [t \in Tasks |-> 0]
  /\ result = [t \in Tasks |-> "none"]
  /\ closes = 0
  /\ overlapped = FALSE
  /\ cancelled = FALSE

TaskStep(t) ==
  \/ RequestStarts(t)
  \/ RequestGoesOn(t)
  \/ RequestEnds(t)
  \/ CloseAtOnce(t)
  \/ CloseWaits(t)
  \/ CloseEnds(t)
  \/ CloseCancelled(t)

Next == \E t \in Tasks : TaskStep(t)

Spec == Init /\ [][Next]_vars

-----------------------------------------------------------------------------
(* Properties.                                                             *)

\* The values the variables take; a task works on a session exactly while its
\* call awaits something, and on one that exists.
TypeOK ==
  /\ supplied \in BOOLEAN
  /\ owns = ~supplied
  /\ session \in 0..MaxSessions
  /\ life \in [Sessions -> {"unborn", "open", "closed"}]
  /\ pc \in [Tasks -> {"idle", "request", "closing"}]
  /\ uses \in [Tasks -> 0..MaxSessions]
  /\ result \in [Tasks -> {"none", "pending", "done", "runtime_error", "connection_error", "cancelled"}]
  /\ closes \in 0..MaxCloses
  /\ overlapped \in BOOLEAN
  /\ cancelled \in BOOLEAN
  /\ session # 0 => life[session] # "unborn"
  /\ \A t \in Tasks : /\ pc[t] = "idle" <=> uses[t] = 0
                      /\ uses[t] # 0 => life[uses[t]] # "unborn"

\* The session passed to the constructor belongs to the caller: no sequence of
\* requests and closes closes it or takes it off the client.  And no open
\* session is ever lost sight of, so the next async_close closes all there is,
\* whatever requests start while a close waits; but only as long as no two
\* calls of async_close overlap.
SessionsAccountedFor ==
  /\ supplied => session = 1 /\ life[1] = "open"
  /\ ~overlapped => \A s \in Sessions : life[s] = "open" => s = session

\* The client stays usable after async_close, with a new session: it refers to
\* a closed one only while a close waits, or after one was cancelled there.
ReopensAfterClose ==
  (session # 0 /\ life[session] = "closed") => Closing # {} \/ cancelled
=============================================================================
