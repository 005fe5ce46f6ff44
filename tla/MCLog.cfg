CONSTANTS
  Procs = {p1, p2, p3}
  Homes = {b1, b2, b3, b4}
  Contents = {v1, v2}
  MAXOPBLOCKS = 2
  LOGBLOCKS = 4
  OpBlocks = 1
SPECIFICATION FairSpec
INVARIANTS LogNeverFull PinsLeaveBuffer SleepersMustWait PinnedWhileLogged
PROPERTIES ImplementsJournal SomebodyGetsThrough RecoveryEnds
CHECK_DEADLOCK TRUE
