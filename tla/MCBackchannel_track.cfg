SPECIFICATION Spec
CONSTANTS
  HeaderLen = 7
  CrcLen = 2
  SeqModulus = 4
  TsModulus = 4
  MaxFrames = 1
  Cases <- CameraCase
  Pieces <- WholePiece
INVARIANT SetupNamesTrack
CHECK_DEADLOCK FALSE
