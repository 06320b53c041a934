---------------------------- MODULE EventStream ----------------------------
(***************************************************************************)
(* stream_events (client.py), on the session it shares with the requests   *)
(* and the closes of Session: each stream is an asyncio task of its own    *)
(* that takes the client's session once, asks with a DigestAuth of its own *)
(* that remembers and is remembered by nobody, and hands what arrives to   *)
(* the caller's on_receive until something ends it.                        *)
(*                                                                         *)
(* External: the device answers, sends events in order and may end the     *)
(* stream; aiohttp buffers them, raises when the connection is lost, when  *)
(* the session's total timeout is over or when the session is closed under *)
(* it, and keeps a response until somebody closes it.  on_receive may      *)
(* raise.                                                                  *)
(***************************************************************************)
EXTENDS Session, Sequences

CONSTANTS
  Streams,     \* asyncio tasks that stream events
  MaxStreams,  \* bound: calls of stream_events
  MaxEvents    \* bound: events the device sends on one stream

ASSUME EventStreamAssumption ==
  /\ MaxStreams \in Nat
  /\ MaxEvents \in Nat

VARIABLES
  stage,   \* stream: "idle", or what it awaits
  on,      \* stream: the session of its DigestAuth, 0 for none
  asked,   \* stream: requests it has sent
  held,    \* stream: responses it has received and not closed
  coming,  \* aiohttp: the events that have arrived and were not yet read
  sentOn,  \* device: events of this stream that have reached aiohttp
  eof,     \* device: has it ended this stream?
  heard,   \* caller: the events on_receive was called with
  ended,   \* stream: how its last call ended for the caller
  cause,   \* history: what ended it
  streamed \* history: calls of stream_events

streamVars == <<stage, on, asked, held, coming, sentOn, eof, heard, ended, cause, streamed>>
allVars == <<vars, streamVars>>

Failures == {"session_closed", "not_served", "bad_challenge", "lost", "timeout", "callback"}

-----------------------------------------------------------------------------

\* Mutant: the cancellation is swallowed with everything else.
SwallowsAll(why) == "returned"

\* except CancelledError: raise; except Exception: a debug line.
Reported(why) == IF why = "cancelled" THEN "cancelled" ELSE "returned"

\* Mutant: no finally.
NotReleased(n) == n

\* finally: the response is closed, if auth.request had returned one.
Released(n) == 0

\* The call is over; it had n responses in hand.
StreamOver(s, why, n) ==
  /\ stage' = [stage EXCEPT ![s] = "idle"]
  /\ on' = [on EXCEPT ![s] = 0]
  /\ held' = [held EXCEPT ![s] = Released(n)]
  /\ coming' = [coming EXCEPT ![s] = <<>>]
  /\ ended' = [ended EXCEPT ![s] = Reported(why)]
  /\ cause' = [cause EXCEPT ![s] = why]

\* The call starts: _get_session, and the first request without credentials.
\* A closed session raises there and then.
StreamStarts(s) ==
  /\ stage[s] = "idle"
  /\ streamed < MaxStreams
  /\ streamed' = streamed + 1
  /\ sentOn' = [sentOn EXCEPT ![s] = 0]
  /\ eof' = [eof EXCEPT ![s] = FALSE]
  /\ heard' = [heard EXCEPT ![s] = <<>>]
  /\ \E x \in Sessions :
       /\ GetSession(x)
       /\ IF life'[x] = "closed"
            THEN /\ StreamOver(s, "session_closed", 0)
                 /\ asked' = [asked EXCEPT ![s] = 0]
            ELSE /\ stage' = [stage EXCEPT ![s] = "asking"]
                 /\ on' = [on EXCEPT ![s] = x]
                 /\ asked' = [asked EXCEPT ![s] = 1]
                 /\ ended' = [ended EXCEPT ![s] = "pending"]
                 /\ cause' = [cause EXCEPT ![s] = "none"]
                 /\ UNCHANGED <<held, coming>>
  /\ UNCHANGED <<pc, uses, result, historyVars>>

\* Mutant: every digest challenge is taken up.
AlwaysTakenUp(s) == stage[s] \in {"asking", "answering"}

\* _handle_401 answers one challenge of its call.
TakesUp(s) == stage[s] = "asking"

\* A 401 with a digest challenge: its response is closed, and the second
\* request is sent, unless the challenge cannot be used or the session has
\* been closed meanwhile.
StreamChallenged(s) ==
  /\ TakesUp(s)
  /\ \/ /\ life[on[s]] = "open"
        /\ stage' = [stage EXCEPT ![s] = "answering"]
        /\ asked' = [asked EXCEPT ![s] = @ + 1]
        /\ UNCHANGED <<on, held, coming, ended, cause>>
     \/ /\ StreamOver(s, "bad_challenge", 0)
        /\ UNCHANGED asked
     \/ /\ life[on[s]] = "closed"
        /\ StreamOver(s, "session_closed", 0)
        /\ UNCHANGED asked
  /\ UNCHANGED <<vars, sentOn, eof, heard, streamed>>

\* Any other answer without success: raise_for_status raises.  There is no
\* fallback to basic here.
StreamRefused(s) ==
  /\ stage[s] \in {"asking", "answering"}
  /\ StreamOver(s, "not_served", held[s] + 1)
  /\ UNCHANGED <<vars, asked, sentOn, eof, heard, streamed>>

\* The device serves the stream.
StreamServed(s) ==
  /\ stage[s] \in {"asking", "answering"}
  /\ life[on[s]] = "open"
  /\ stage' = [stage EXCEPT ![s] = "reading"]
  /\ held' = [held EXCEPT ![s] = @ + 1]
  /\ UNCHANGED <<vars, on, asked, coming, sentOn, eof, heard, ended, cause, streamed>>

\* Mutant: the reader takes what arrived last.
Newest(q) == Len(q)

\* iter_chunks hands over the data in the order it arrived.
Oldest(q) == 1

\* The stream reads an event and calls on_receive, which may raise.
StreamHears(s) ==
  /\ stage[s] = "reading"
  /\ coming[s] # <<>>
  /\ LET i == Oldest(coming[s])
     IN /\ heard' = [heard EXCEPT ![s] = Append(@, coming[s][i])]
        /\ \/ /\ coming' = [coming EXCEPT ![s] =
                             SubSeq(@, 1, i - 1) \o SubSeq(@, i + 1, Len(@))]
              /\ UNCHANGED <<stage, on, held, ended, cause>>
           \/ StreamOver(s, "callback", held[s])
  /\ UNCHANGED <<vars, asked, sentOn, eof, streamed>>

\* Mutant: the end of the stream is noticed before the data in front of it.
EndSeen(s) == eof[s]

\* iter_chunks ends when the stream has ended and all of it was read.
AllRead(s) == eof[s] /\ coming[s] = <<>>

StreamFinishes(s) ==
  /\ stage[s] = "reading"
  /\ AllRead(s)
  /\ StreamOver(s, "finished", held[s])
  /\ UNCHANGED <<vars, asked, sentOn, eof, heard, streamed>>

\* The connection is lost, with the session or by itself, the session's total
\* timeout is over, or the task is cancelled.
StreamCut(s) ==
  /\ stage[s] # "idle"
  /\ \E why \in {"lost", "timeout", "cancelled"} : StreamOver(s, why, held[s])
  /\ UNCHANGED <<vars, asked, sentOn, eof, heard, streamed>>

-----------------------------------------------------------------------------
(* The device and the network.                                             *)

DeviceSends(s) ==
  /\ stage[s] = "reading"
  /\ life[on[s]] = "open"
  /\ ~eof[s]
  /\ sentOn[s] < MaxEvents
  /\ sentOn' = [sentOn EXCEPT ![s] = @ + 1]
  /\ coming' = [coming EXCEPT ![s] = Append(@, sentOn[s] + 1)]
  /\ UNCHANGED <<vars, stage, on, asked, held, eof, heard, ended, cause, streamed>>

DeviceEndsStream(s) ==
  /\ stage[s] = "reading"
  /\ ~eof[s]
  /\ eof' = [eof EXCEPT ![s] = TRUE]
  /\ UNCHANGED <<vars, stage, on, asked, held, coming, sentOn, heard, ended, cause, streamed>>

-----------------------------------------------------------------------------

StreamInit ==
  /\ Init
  /\ stage  = [s \in Streams |-> "idle"]
  /\ on     = [s \in Streams |-> 0]
  /\ asked  = [s \in Streams |-> 0]
  /\ held   = [s \in Streams |-> 0]
  /\ coming = [s \in Streams |-> <<>>]
  /\ sentOn = [s \in Streams |-> 0]
  /\ eof    = [s \in Streams |-> FALSE]
  /\ heard  = [s \in Streams |-> <<>>]
  /\ ended  = [s \in Streams |-> "none"]
  /\ cause  = [s \in Streams |-> "none"]
  /\ streamed = 0

StreamStep(s) ==
  \/ StreamStarts(s)
  \/ StreamChallenged(s)
  \/ StreamRefused(s)
  \/ StreamServed(s)
  \/ StreamHears(s)
  \/ StreamFinishes(s)
  \/ StreamCut(s)
  \/ DeviceSends(s)
  \/ DeviceEndsStream(s)

StreamNext ==
  \/ Next /\ UNCHANGED streamVars
  \/ \E s \in Streams : StreamStep(s)

StreamSpec == StreamInit /\ [][StreamNext]_allVars

-----------------------------------------------------------------------------
(* Properties.                                                             *)

\* The values the variables take, those of the session included; a stream is
\* on a session exactly while its call awaits something.
StreamTypeOK ==
  /\ TypeOK
  /\ stage \in [Streams -> {"idle", "asking", "answering", "reading"}]
  /\ on \in [Streams -> 0..MaxSessions]
  /\ asked \in [Streams -> 0..2]
  /\ held \in [Streams -> Nat]
  /\ coming \in [Streams -> Seq(1..MaxEvents)]
  /\ sentOn \in [Streams -> 0..MaxEvents]
  /\ eof \in [Streams -> BOOLEAN]
  /\ heard \in [Streams -> Seq(1..MaxEvents)]
  /\ ended \in [Streams -> {"none", "pending", "returned", "cancelled"}]
  /\ cause \in [Streams -> Failures \cup {"none", "finished", "cancelled"}]
  /\ streamed \in 0..MaxStreams
  /\ \A s \in Streams : /\ stage[s] = "idle" <=> on[s] = 0
                        /\ on[s] # 0 => life[on[s]] # "unborn"

\* However a stream ends, its response is closed, or the connection would stay
\* taken for as long as the session lives; and the caller is told of a
\* cancellation, which asyncio needs, and of nothing else.
StreamEndsClean ==
  \A s \in Streams :
    /\ stage[s] \in {"idle", "asking", "answering"} => held[s] = 0
    /\ stage[s] = "idle" => (ended[s] = "cancelled") = (cause[s] = "cancelled")

\* on_receive gets the events of the stream from the first one on, in the
\* order the device sent them, each once, and all that arrived if the stream
\* came to its end and nothing failed.
EventsInOrder ==
  \A s \in Streams :
    /\ heard[s] = [i \in 1..Len(heard[s]) |-> i]
    /\ Len(heard[s]) <= sentOn[s]
    /\ cause[s] = "finished" => Len(heard[s]) = sentOn[s]
=============================================================================
