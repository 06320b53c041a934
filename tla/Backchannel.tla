---------------------------- MODULE Backchannel ----------------------------
(***************************************************************************)
(* async_post_audio_backchannel (client.py): an RTSP session with an ONVIF *)
(* backchannel over one TCP connection, and the audio sent on it as RTP    *)
(* packets.  The code between two awaits is one action.  It awaits the     *)
(* connection, the drain of what it wrote, the next bytes of a response,   *)
(* the pause at the end, and the closing of the connection.                *)
(*                                                                         *)
(* The device is external: it answers a request as it likes, at once or in *)
(* pieces, says nothing, stops reading, or closes the connection at any    *)
(* point.  TCP keeps the order, so what the device gets is a prefix of     *)
(* what is written, and what the call reads one of what is sent.           *)
(***************************************************************************)
EXTENDS Adts, SequencesExt

CONSTANTS
  Cases,       \* what is posted to which device: an audio clip and the device's
               \* session description, a sequence of media
  Pieces,      \* what a device may send of a response at a time
  SeqModulus,  \* modulus of RTP sequence numbers: 2^16 in the code
  TsModulus    \* modulus of RTP timestamps, counted in frames: 2^22 in the code

ASSUME BackchannelAssumption ==
  /\ SeqModulus \in Nat \ {0, 1}
  /\ TsModulus \in Nat \ {0, 1}
  /\ \A case \in Cases : /\ case.clip.bytes \in Seq(Byte) /\ case.clip.made \in Seq(FrameAt)
                          /\ case.sdp \in Seq(Range(case.sdp))

VARIABLES
  clip,      \* the argument audio_data, and the frames it was made of, which it
             \* may have lost some bytes of since
  frames,    \* the frames the call cut it into
  pc,        \* the await the call is at
  drained,   \* has the request been written out?
  answer,    \* what it has read of the response to it
  track,     \* bc_track
  next,      \* the frame after the last one written
  seq, ts,   \* RTP sequence number and timestamp
  open,      \* is the writer open?
  result,    \* how the call ended
  written,   \* RTP packets written to the connection
  sdp,       \* device: its session description
  reading,   \* device: does it read from the connection?
  closed,    \* device: has it closed the connection?
  inbox,     \* device: the request it has not answered, or not to the end
  sent,      \* what it has sent of the response and the call has not read
  accepted   \* device: requests it answered with 200

callVars   == <<clip, frames, pc, drained, answer, track, next, seq, ts, open, result, written>>
deviceVars == <<sdp, reading, closed, inbox, sent, accepted>>
vars == <<callVars, deviceVars>>

\* The first DESCRIBE carries no credentials, the second one does.
Requests == {"describe", "authorized", "setup", "play", "teardown"}

\* How much of a response there is: nothing; a piece of its head, which ends
\* with a blank line; the head, but not the body whose length it announces; all
\* of it; or a piece of its head, and the end of the connection.
Parts == {"nothing", "piece", "head", "all", "cut"}

\* A response as far as it is there: is "200" in its status line, and does it
\* carry a challenge?
Response == [ok : BOOLEAN, challenge : BOOLEAN, part : Parts]
Nothing  == [ok |-> FALSE, challenge |-> FALSE, part |-> "nothing"]

ASSUME PiecesAssumption ==
  Pieces \subseteq {piece \in Response : piece.part \in {"piece", "head", "all"}}

-----------------------------------------------------------------------------
(* The session description.                                                *)

NoTrack == <<>>

\* A control line, cut at its equals signs: a=control:trackID=<track>.
ControlLine(media) == <<"a", "control:trackID", media.track>>

\* The lines of a media section, in the order the device writes them.
Lines(media) ==
  LET control   == [kind |-> "control", text |-> ControlLine(media)]
      direction == [kind |-> IF media.sendonly THEN "sendonly" ELSE "other",
                    text |-> <<"a">>]
  IN CASE media.writes = "control first"   -> <<control, direction>>
       [] media.writes = "direction first" -> <<direction, control>>
       [] OTHER                            -> <<direction>>

\* Mutant: every control line is taken for the backchannel's.
AnyTrack(found, line) ==
  IF line.kind = "control"
    THEN [found EXCEPT !.current = Tail(line.text), !.track = Tail(line.text)]
    ELSE found

\* One line: line.split("=", 1)[1] is all that follows the first equals sign.
\* A sendonly line before any control line reads an unbound local.
ReadLine(found, line) ==
  CASE line.kind = "control"  -> [found EXCEPT !.current = Tail(line.text)]
    [] line.kind = "sendonly" -> [found EXCEPT !.track = found.current,
                                               !.unbound = @ \/ found.current = NoTrack]
    [] OTHER                  -> found

ParseSdp ==
  FoldLeft(ReadLine, [current |-> NoTrack, track |-> NoTrack, unbound |-> FALSE],
           FlattenSeq([i \in DOMAIN sdp |-> Lines(sdp[i])]))

\* The last part of the SETUP url, "trackID={}" with the track filled in.
SetupTarget == <<"trackID">> \o track

-----------------------------------------------------------------------------
(* The call.                                                               *)

Sends(request) ==
  /\ pc' = request
  /\ drained' = FALSE
  /\ answer' = Nothing

\* Mutant: the connection is closed only after the TEARDOWN.
ClosedOnSuccess(outcome) == open' = (open /\ outcome # "done")

\* writer.close() in the finally block.
Closes(outcome) == open' = FALSE

\* The try block is left: the finally block closes the connection and waits.
Leaves(outcome) ==
  /\ pc' = "closing"
  /\ Closes(outcome)
  /\ result' = outcome
  /\ UNCHANGED <<clip, frames, drained, answer, track, next, seq, ts, written, deviceVars>>

\* An exception at the request awaited: a TEARDOWN that fails is ignored.
LeavesByException(outcome) ==
  Leaves(IF pc = "teardown" /\ outcome # "cancelled" THEN "done" ELSE outcome)

\* The data is cut into frames, and the connection asked for if there is one.
Starts ==
  /\ pc = "start"
  /\ frames' = ParseAdtsFrames(clip.bytes)
  /\ IF frames' = <<>>
       THEN pc' = "over" /\ result' = "runtime_error"
       ELSE pc' = "connect" /\ UNCHANGED result
  /\ UNCHANGED <<clip, drained, answer, track, next, seq, ts, open, written, deviceVars>>

Connected ==
  /\ pc = "connect"
  /\ open' = TRUE
  /\ Sends("describe")
  /\ UNCHANGED <<clip, frames, track, next, seq, ts, result, written, deviceVars>>

\* The connection is refused, times out, or the task is cancelled.
ConnectFails ==
  /\ pc = "connect"
  /\ pc' = "over"
  /\ \E outcome \in {"raised", "timeout", "cancelled"} : result' = outcome
  /\ UNCHANGED <<clip, frames, drained, answer, track, next, seq, ts, open, written, deviceVars>>

\* The request is written out: a device that is still there has it.
RequestDrained ==
  /\ pc \in Requests
  /\ ~drained
  /\ reading
  /\ drained' = TRUE
  /\ inbox' = IF closed THEN inbox ELSE pc
  /\ UNCHANGED <<clip, frames, pc, answer, track, next, seq, ts, open, result, written,
                 sdp, reading, closed, sent, accepted>>

\* Is a response awaited?  "all" and "cut" end the loop over reader.read() and
\* the body, if there is one.
Listening == pc \in Requests /\ drained /\ answer.part \in {"nothing", "piece", "head"}

\* A chunk is there, of the head or, where only that is missing, the body.
Reads ==
  /\ Listening
  /\ sent # Nothing
  /\ answer' = [ok        |-> answer.ok \/ sent.ok,
                challenge |-> answer.challenge \/ sent.challenge,
                part      |-> sent.part]
  /\ sent' = Nothing
  /\ UNCHANGED <<clip, frames, pc, drained, track, next, seq, ts, open, result, written,
                 sdp, reading, closed, inbox, accepted>>

\* An empty chunk: the response is what has been read of it.
ReadsEnd ==
  /\ Listening
  /\ closed
  /\ sent = Nothing
  /\ answer.part # "head"
  /\ answer' = [answer EXCEPT !.part = "cut"]
  /\ UNCHANGED <<clip, frames, pc, drained, track, next, seq, ts, open, result, written, deviceVars>>

\* Mutant: a packet without audio is counted.
EmptyFramesCounted(i, j) == j - i + 1

\* The sequence numbers used up from frame i to the packet of frame j.
Counted(i, j) == 1

\* Mutant: the sequence number is not cut to its 16 bits.
Unwrapped(number) == number

\* "& 0xFFFF".
Wrapped(number) == number % SeqModulus

\* Mutant: the marker is on the packet before the last one.
MarkedEarly(j) == j = Len(frames) - 1

\* "i == len(frames) - 1", with i from 0.
Marked(j) == j = Len(frames)

\* The frames from i on: those without audio are skipped, and the packet of
\* the next one is written; after the last, the pause.
WritesFrom(i, number, stamp) ==
  LET rest == {j \in i..Len(frames) : HasAudio(frames[j])}
  IN IF rest = {}
       THEN /\ pc' = "pause"
            /\ next' = Len(frames) + 1
            /\ seq' = number
            /\ UNCHANGED written
       ELSE LET j == CHOOSE k \in rest : \A l \in rest : k <= l
                new == Wrapped(number + Counted(i, j))
            IN /\ pc' = "frame"
               /\ next' = j + 1
               /\ seq' = new
               /\ written' = Append(written, [frame |-> j, seq |-> new, ts |-> stamp % TsModulus,
                                              marker |-> Marked(j)])

\* Mutant: a PLAY the device refuses is not noticed.
PlayUnchecked(request) == request = "play" \/ answer.ok

\* '"200" not in resp.split(...)[0]' does not raise.
Accepted(request) == answer.ok

Answered == pc \in Requests /\ answer.part \in {"all", "cut"}

\* A response that was cut off holds no description.
Unbound  == answer.part = "all" /\ ParseSdp.unbound
HasTrack == answer.part = "all" /\ ParseSdp.track # NoTrack

\* The first DESCRIBE has to be challenged, whatever its status.
Challenged ==
  /\ Answered
  /\ pc = "describe"
  /\ answer.challenge
  /\ Sends("authorized")
  /\ UNCHANGED <<clip, frames, track, next, seq, ts, open, result, written, deviceVars>>

Described ==
  /\ Answered
  /\ pc = "authorized"
  /\ Accepted(pc)
  /\ ~Unbound
  /\ HasTrack
  /\ track' = ParseSdp.track
  /\ Sends("setup")
  /\ UNCHANGED <<clip, frames, next, seq, ts, open, result, written, deviceVars>>

SetUp ==
  /\ Answered
  /\ pc = "setup"
  /\ Accepted(pc)
  /\ Sends("play")
  /\ UNCHANGED <<clip, frames, track, next, seq, ts, open, result, written, deviceVars>>

\* PLAY is accepted: sequence number and timestamp start at random.
Playing ==
  /\ Answered
  /\ pc = "play"
  /\ Accepted(pc)
  /\ \E number \in 0..(SeqModulus - 1), stamp \in 0..(TsModulus - 1) :
       ts' = stamp /\ WritesFrom(1, number, stamp)
  /\ UNCHANGED <<clip, frames, drained, answer, track, open, result, deviceVars>>

\* A response the call cannot go on with: RuntimeError, or the unbound local.
Rejected ==
  /\ Answered
  /\ \/ pc = "describe" /\ ~answer.challenge
     \/ pc \in {"authorized", "setup", "play"} /\ ~Accepted(pc)
     \/ pc = "authorized" /\ (Unbound \/ ~HasTrack)
  /\ Leaves(IF pc = "authorized" /\ Accepted(pc) /\ Unbound
              THEN "unbound_local" ELSE "runtime_error")

\* Any response to the TEARDOWN will do.
TornDown ==
  /\ Answered
  /\ pc = "teardown"
  /\ Leaves("done")

\* The packet is written out: the timestamp moves on, and after the pacing
\* sleep the next packet is written.
FrameDrained ==
  /\ pc = "frame"
  /\ reading
  /\ ts' = ts + 1
  /\ WritesFrom(next, seq, ts + 1)
  /\ UNCHANGED <<clip, frames, drained, answer, track, open, result, deviceVars>>

PauseOver ==
  /\ pc = "pause"
  /\ Sends("teardown")
  /\ UNCHANGED <<clip, frames, track, next, seq, ts, open, result, written, deviceVars>>

\* Mutant: the body is read without a timeout.
HeadTimesOut ==
  /\ Listening
  /\ sent = Nothing
  /\ answer.part # "head"
  /\ LeavesByException("timeout")

\* Nothing comes for ten seconds: each chunk of the head has ten seconds of its
\* own, and so has the whole of the body.
ReadTimesOut ==
  /\ Listening
  /\ sent = Nothing
  /\ LeavesByException("timeout")

\* The connection is reset, or ends in the middle of a body: the read raises.
ReadFails ==
  /\ Listening
  /\ closed
  /\ LeavesByException("raised")

\* Writing on a connection the device has closed raises, sooner or later.
WriteFails ==
  /\ closed
  /\ (pc \in Requests /\ ~drained) \/ pc = "frame"
  /\ LeavesByException("raised")

\* The task is cancelled at an await of the try block.
Cancelled ==
  /\ pc \in Requests \cup {"frame", "pause"}
  /\ LeavesByException("cancelled")

\* wait_closed() is over, or is cancelled.
WaitedClosed ==
  /\ pc = "closing"
  /\ reading \/ closed
  /\ pc' = "over"
  /\ UNCHANGED <<clip, frames, drained, answer, track, next, seq, ts, open, result, written, deviceVars>>

WaitCancelled ==
  /\ pc = "closing"
  /\ pc' = "over"
  /\ result' = "cancelled"
  /\ UNCHANGED <<clip, frames, drained, answer, track, next, seq, ts, open, written, deviceVars>>

-----------------------------------------------------------------------------
(* The device.                                                             *)

\* The device sends some of its response or all of it; of a body whose head
\* has been read, only the end matters.
DeviceSends(piece) ==
  /\ open
  /\ inbox # "none"
  /\ sent = Nothing
  /\ answer.part = "head" => piece = [Nothing EXCEPT !.part = "all"]
  /\ sent' = piece
  /\ inbox' = IF piece.part = "all" THEN "none" ELSE inbox
  /\ accepted' = IF piece.ok THEN accepted \cup {inbox} ELSE accepted
  /\ UNCHANGED <<callVars, sdp, reading, closed>>

DeviceStopsReading ==
  /\ reading
  /\ open
  /\ reading' = FALSE
  /\ UNCHANGED <<callVars, sdp, closed, inbox, sent, accepted>>

\* What it has sent can still be read, but no more will come.
DeviceCloses ==
  /\ open
  /\ ~closed
  /\ closed' = TRUE
  /\ inbox' = "none"
  /\ UNCHANGED <<callVars, sdp, reading, sent, accepted>>

-----------------------------------------------------------------------------

Init ==
  /\ \E case \in Cases : clip = case.clip /\ sdp = case.sdp
  /\ frames = <<>>
  /\ pc = "start"
  /\ drained = FALSE
  /\ answer = Nothing
  /\ track = NoTrack
  /\ next = 1
  /\ seq = 0
  /\ ts = 0
  /\ open = FALSE
  /\ result = "pending"
  /\ written = <<>>
  /\ reading = TRUE
  /\ closed = FALSE
  /\ inbox = "none"
  /\ sent = Nothing
  /\ accepted = {}

CallStep ==
  \/ Starts \/ Connected \/ ConnectFails
  \/ RequestDrained \/ Challenged \/ Described \/ SetUp \/ Playing \/ Rejected
  \/ FrameDrained \/ PauseOver \/ TornDown
  \/ Reads \/ ReadsEnd \/ ReadTimesOut \/ ReadFails \/ WriteFails \/ Cancelled
  \/ WaitedClosed \/ WaitCancelled

DeviceStep ==
  \/ \E piece \in Pieces : DeviceSends(piece)
  \/ DeviceStopsReading
  \/ DeviceCloses

Next == CallStep \/ DeviceStep

Spec == Init /\ [][Next]_vars

\* asyncio runs the task when what it awaits is there; a read has a timeout,
\* the connection too.  A chunk ends the read, and its timeout with it, so a
\* timeout goes off only if nothing comes until then.  A drain has none, and
\* needs the device.
Fairness ==
  /\ WF_vars(Starts)
  /\ WF_vars(ConnectFails)
  /\ WF_vars(RequestDrained)
  /\ WF_vars(FrameDrained)
  /\ WF_vars(Challenged \/ Described \/ SetUp \/ Playing \/ Rejected \/ TornDown)
  /\ WF_vars(Reads)
  /\ WF_vars(ReadTimesOut)
  /\ WF_vars(PauseOver)
  /\ WF_vars(WaitedClosed)

FairSpec == Spec /\ Fairness

-----------------------------------------------------------------------------
(* Properties.                                                             *)

\* The values the variables take; the packets fit their headers, and the
\* connection is open where the call uses it.
TypeOK ==
  /\ pc \in Requests \cup {"start", "connect", "frame", "pause", "closing", "over"}
  /\ answer \in Response /\ sent \in Response
  /\ next \in 1..(Len(frames) + 1)
  /\ seq \in 0..(SeqModulus - 1) /\ ts \in Nat
  /\ result \in {"pending", "done", "runtime_error", "unbound_local", "raised", "timeout",
                 "cancelled"}
  /\ inbox \in Requests \cup {"none"}
  /\ accepted \in SUBSET Requests
  /\ drained \in BOOLEAN /\ reading \in BOOLEAN /\ closed \in BOOLEAN
  /\ open \in BOOLEAN
  /\ pc \in Requests \cup {"frame", "pause"} => open

\* However the call ends, its connection does not stay open.
ConnectionReleased == pc = "over" => ~open

\* No audio is written to a device that has not accepted the whole dialogue:
\* the description, the set-up and the PLAY.
AudioOnlyWhenPlaying ==
  written # <<>> => {"authorized", "setup", "play"} \subseteq accepted

\* What has been written is a prefix of the audio of the clip, without gaps:
\* the frames with audio in order, consecutive sequence numbers and timestamps
\* across the wrap of either, whatever frames were skipped.  The marker, the
\* end of the talk to the receiver, is on no packet but the last; and a call
\* that is done has written all the audio, the marker on its last packet
\* unless the clip ends with frames that have no audio.
StreamWhole ==
  LET audible == {j \in DOMAIN frames : HasAudio(frames[j])}
  IN /\ \A n \in DOMAIN written :
          \* the nth packet is the nth frame with audio
          /\ written[n].frame \in audible
          /\ Cardinality({j \in audible : j <= written[n].frame}) = n
          /\ written[n].marker => written[n].frame = Len(frames)
     /\ \A n \in 1..(Len(written) - 1) :
          /\ written[n + 1].seq = (written[n].seq + 1) % SeqModulus
          /\ written[n + 1].ts = (written[n].ts + 1) % TsModulus
     /\ result = "done" =>
          /\ Len(written) = Cardinality(audible)
          /\ HasAudio(frames[Len(frames)]) => written[Len(written)].marker

End(frame) == frame.at + frame.length

\* Is the data the frames made, one after the other, each behind its header?
LaidOut(data, made) ==
  /\ \A i \in DOMAIN made :
       /\ made[i].at = IF i = 1 THEN 0 ELSE End(made[i - 1])
       /\ made[i].length >= HeaderLen
       /\ End(made[i]) <= Len(data)
       /\ data[made[i].at + 1] = Sync(made[i].length, made[i].crc)
  /\ Len(data) = IF made = <<>> THEN 0 ELSE End(made[Len(made)])

\* Pieces of the data, in order and apart.
PiecesOf(data, parts) ==
  \A i \in DOMAIN parts : /\ parts[i].length > 0
                          /\ i > 1 => End(parts[i - 1]) <= parts[i].at
                          /\ End(parts[i]) <= Len(data)

\* From data that is a sequence of frames, all frames are recovered, whatever
\* their content looks like; a bare header at the very end is not.  From any
\* data, damaged data included, what async_post_audio sends are pieces of it,
\* in order and apart, and never nothing: a clip that is not AAC goes whole.
FramesRecovered ==
  pc # "start" =>
    LET made  == clip.made
        bare  == made # <<>> /\ made[Len(made)].length = HeaderLen
        parts == PostParts("AAC", clip.bytes)
    IN /\ LaidOut(clip.bytes, made) =>
            frames = IF bare THEN SubSeq(made, 1, Len(made) - 1) ELSE made
       /\ clip.bytes # <<>> => PiecesOf(clip.bytes, parts)
       /\ parts # <<>> /\ (frames # <<>> => parts = frames)
       /\ PostParts("G.711A", clip.bytes)[1].length = Len(clip.bytes)

\* The track set up is one the device receives audio on, if every medium of
\* its description names its track before its direction.
TrackReceivesAudio ==
  ((\A i \in DOMAIN sdp : sdp[i].writes = "control first") /\ track # NoTrack)
    => \E i \in DOMAIN sdp : sdp[i].sendonly /\ sdp[i].track = track[Len(track)]

\* "SETUP backchannel track": the SETUP names a track of the description the
\* way its control line does, trackID=<track>.  It names
\* trackID=control:trackID=<track>.
SetupNamesTrack ==
  track # NoTrack => \E i \in DOMAIN sdp : SetupTarget = <<"trackID", sdp[i].track>>

\* Does the device keep the call waiting with ever more of a head that never
\* ends?  Every piece of it is less than ten seconds after the one before.
Trickles == []<>(sent.part = "piece")

\* The call ends, whatever the device answers, leaves unanswered or leaves
\* unfinished, as long as it reads and does not trickle: no drain and no wait
\* for the connection to close has a timeout, and none spans a whole head.
EndsWhileRead == []reading => <>(pc = "over") \/ Trickles
=============================================================================
