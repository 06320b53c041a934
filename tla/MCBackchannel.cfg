SPECIFICATION FairSpec
CONSTANTS
  HeaderLen = 2
  CrcLen = 1
  SeqModulus = 2
  TsModulus = 3
  MaxFrames = 2
  Cases <- SomeCases
  Pieces <- AnyPiece
INVARIANTS
  TypeOK
  ConnectionReleased
  AudioOnlyWhenPlaying
  StreamWhole
  FramesRecovered
  TrackReceivesAudio
PROPERTY EndsWhileRead
CHECK_DEADLOCK FALSE
