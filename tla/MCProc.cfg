CONSTANTS
  Procs = {init, p1, p2}
  Cpus = {c1, c2}
  Chans = {init, p1, p2}
  NoProc = NoProc
  NoCpu = NoCpu
  NoChan = NoChan
  InitProc = init
  MaxPid = 4
  KillArgs = {0, 2, 3}
SPECIFICATION Spec
SYMMETRY Symm
INVARIANTS OneCpuPerStack NoFreedStack SchedAsserts PidsInUse FamilyTree NoSleepOverZombie MarksDieWithProcess
CHECK_DEADLOCK TRUE
