\* A host that stays connected and one that comes after it.
CONSTANTS
  MaxSessions = 2
  MaxFrames = 1
  Chunk = 1
  TxQueue = 1
  SlowQueue = 1
  MaxLosses = 0
  Modes = {"listen"}
SPECIFICATION FairSpec
PROPERTY NewcomerWins
