\* Two sessions, listened for or dialled, and one loss of the access point.
CONSTANTS
  MaxSessions = 2
  MaxFrames = 3
  Chunk = 2
  TxQueue = 1
  SlowQueue = 1
  MaxLosses = 1
  Modes = {"listen", "dial"}
SPECIFICATION FairSpec
INVARIANTS TypeOK AuthIsOwn AnswersStay FramesStayWhole HalfFramesForgotten
PROPERTY SessionEnds
