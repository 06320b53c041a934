-------------------------------- MODULE Adts --------------------------------
(***************************************************************************)
(* _parse_adts_frames (client.py): AAC data cut into its ADTS frames, and  *)
(* the audio that is left of a frame without its header; the parts that    *)
(* async_post_audio makes of it.                                           *)
(*                                                                         *)
(* A byte is abstracted to what the parser reads when it looks for a frame *)
(* there: no sync word, or a header with a frame length and a CRC flag.    *)
(***************************************************************************)
EXTENDS Integers, Sequences

CONSTANTS
  HeaderLen,  \* bytes of an ADTS header: 7 in the code
  CrcLen      \* bytes of the CRC that may follow it: 2 in the code

ASSUME AdtsAssumption ==
  /\ HeaderLen \in Nat \ {0}
  /\ CrcLen \in Nat

Byte       == [sync : BOOLEAN, length : Nat, crc : BOOLEAN]
FrameAt    == [at : Nat, length : Nat, crc : BOOLEAN]

NoSync == [sync |-> FALSE, length |-> 0, crc |-> FALSE]
Sync(length, crc) == [sync |-> TRUE, length |-> length, crc |-> crc]

Frame(offset, byte) == [at |-> offset, length |-> byte.length, crc |-> byte.crc]

\* Mutant: the scan ends where the shortest frame would no longer fit before
\* the last byte of the data.
ScansOneLess(offset, data) == offset + HeaderLen + 1 < Len(data)

\* "offset < len(data) - 7": a bare header that ends the data is not looked at.
Scans(offset, data) == offset + HeaderLen < Len(data)

\* A frame length too short for its header or too long for the data.
Unusable(offset, data) ==
  \/ data[offset + 1].length < HeaderLen
  \/ offset + data[offset + 1].length > Len(data)

\* The frames, each with its offset.
ParseAdtsFrames(data) ==
  LET from[offset \in 0..Len(data)] ==
        CASE ~Scans(offset, data)     -> <<>>
          [] Scans(offset, data) /\ ~data[offset + 1].sync
                                      -> from[offset + 1]
          [] Scans(offset, data) /\ data[offset + 1].sync /\ Unusable(offset, data)
                                      -> <<>>
          [] OTHER                    -> <<Frame(offset, data[offset + 1])>>
                                         \o from[offset + data[offset + 1].length]
  IN from[0]

\* What is left of a frame without its header and CRC.
AudioBytes(frame) ==
  frame.length - (IF frame.crc THEN HeaderLen + CrcLen ELSE HeaderLen)

HasAudio(frame) == AudioBytes(frame) > 0

\* The parts async_post_audio makes of a clip: its frames, headers included,
\* or all of it when it is not AAC or no frame is found.
PostParts(encoding, data) ==
  LET frames == IF encoding = "AAC" THEN ParseAdtsFrames(data) ELSE <<>>
  IN IF frames = <<>> THEN <<[at |-> 0, length |-> Len(data), crc |-> FALSE]>> ELSE frames
=============================================================================
