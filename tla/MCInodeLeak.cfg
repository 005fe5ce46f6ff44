CONSTANTS
  a = a
  b = b
  Names = {a, b}
  Procs = {init, p, q}
  InitProc = init
  Nobody = Nobody
  NINODES = 3
  NFILE = 1
  Calls <- MCCalls
  Disks <- MCDisks
  MaxCalls = 2
SPECIFICATION Spec
INVARIANT OrphansGo
