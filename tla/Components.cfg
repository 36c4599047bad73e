SPECIFICATION Spec
CONSTANTS
  Threads = {1, 2}
  Sessions = 2
  Faults = 1
  Boot = 1
  Safe = 2
  Fast = 3
  Boards = {"m1", "m2"}
  Names = {"n"}
  Pieces = 2
  Writes = 3
  MaxLinks = 3
  Tasks = {1, 2}
  Notices = 2
  StreamSize = 1
  Desk = {1, 2}
  Opens = 2
  Uses = 3
  Sent = 3
  Chunk = 2
  TxQueue = 2
  SlowQueue = 1
  Events = 1
  Networks = 1
  Scans = 2
  Ids = {1}
  Slots = 1
  TxSlots = 1
  Values = {0, 2}
  Adds = 2
  Packets = 3
  FifoDepth = 2
  Arrivals = 3
  Newlines = {2, 3}
  Depth = 2
  Callers = {1}
  Addresses = {1}
  Peers = {1, 2}
  Adverts = 2
  Tries = 2
INVARIANTS
  TypesOK
  OpensAtOneRate
  SearchIsRight
  TasksAreSound
  RadioHasOwners
  WatchTold
  LinksAreSound
  RadiosTellTruth
  BusIsRight
  OutputsAsAsked
  InboxIsRight
  FilesAreOwn
CHECK_DEADLOCK FALSE
