CONSTANTS
  Procs = {init, p1, p2}
  Cpus = {c1}
  Chans = {init, p1, p2}
  NoProc = NoProc
  NoCpu = NoCpu
  NoChan = NoChan
  InitProc = init
  MaxPid = 3
  KillArgs = {}
SPECIFICATION FairSpec
PROPERTIES ImplementsFamily
CHECK_DEADLOCK TRUE
