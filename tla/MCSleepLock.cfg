CONSTANTS
  Procs = {p1, p2, p3}
  Victims = {p1}
  Cpus = {c1, c2}
  Chans = {lock}
  LockChan = lock
  NoProc = NoProc
  NoCpu = NoCpu
  NoChan = NoChan
SPECIFICATION LockFairSpec
INVARIANTS HolderRecorded NoLostWakeup
PROPERTIES ImplementsMutex
CHECK_DEADLOCK TRUE
