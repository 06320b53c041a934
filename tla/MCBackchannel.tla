--------------------------- MODULE MCBackchannel ---------------------------
(* Backchannel on small instances.                                         *)
EXTENDS Backchannel

CONSTANT MaxFrames  \* frames of a clip

\* A header of two bytes, and a CRC of one.
Lengths == HeaderLen..(HeaderLen + CrcLen + 1)

\* The frames of a clip, their offsets following from their lengths.
Placed(headers) ==
  [i \in DOMAIN headers |->
     Frame(FoldLeft(LAMBDA sum, h : sum + h.length, 0, SubSeq(headers, 1, i - 1)),
           headers[i])]

\* The bytes of one frame: its header, and content that may look like one.
BytesOf(header, content) ==
  <<header>> \o [i \in 1..(header.length - 1) |-> content]

\* Clips that are whole, and clips that lost their first or their last byte.
Made(headers, content) ==
  LET bytes == FlattenSeq([i \in DOMAIN headers |-> BytesOf(headers[i], content)])
      made  == Placed(headers)
  IN {[bytes |-> bytes, made |-> made],
      [bytes |-> Tail(bytes), made |-> made],
      [bytes |-> Front(bytes), made |-> made]}

\* Every clip of up to MaxFrames frames.
SomeClips ==
  UNION {Made(headers, content) :
           headers \in UNION {[1..n -> {Sync(l, c) : l \in Lengths, c \in BOOLEAN}] :
                                n \in 1..MaxFrames},
           content \in {NoSync, Sync(HeaderLen, FALSE)}}

\* Those that are whole, and clips of one frame more whose frames are bare
\* headers or carry one byte.
StreamedClips ==
  {c \in SomeClips : LaidOut(c.bytes, c.made)}
  \cup
  UNION {Made(headers, NoSync) :
           headers \in [1..(MaxFrames + 1) -> {Sync(HeaderLen, FALSE), Sync(HeaderLen + 1, FALSE)}]}

Media(n) ==
  [track : {n}, sendonly : BOOLEAN,
   writes : {"control first", "direction first", "no control"}]

SomeSdps == {<<m1, m2>> : m1 \in Media(1), m2 \in Media(2)}

\* A clip of one frame, and the description of a camera with a backchannel.
OneFrame  == Made(<<Sync(HeaderLen + 1, FALSE)>>, NoSync)
CameraSdp == <<[track |-> 0, sendonly |-> FALSE, writes |-> "control first"],
               [track |-> 5, sendonly |-> TRUE, writes |-> "control first"]>>

CameraCase == [clip : OneFrame, sdp : {CameraSdp}]

\* The parser on every clip, to a device without any media, where the dialogue
\* is over soon; the stream of every whole clip, to the camera; and the dialogue
\* with a device of any description.
SomeCases ==
  [clip : SomeClips, sdp : {<<>>}]
  \cup [clip : StreamedClips, sdp : {CameraSdp}]
  \cup [clip : {c \in OneFrame : LaidOut(c.bytes, c.made)}, sdp : SomeSdps]

\* A device may send a response in pieces, or only as a whole.
AnyPiece   == {piece \in Response : piece.part \in {"piece", "head", "all"}}
WholePiece == {piece \in Response : piece.part = "all"}
=============================================================================
