SPECIFICATION Spec
CONSTANTS
  MAXVA = 72
  KERNBASE = 68
  NINODES = 16
  NINODE = 8
  NDIRECT = 3
  NINDIRECT = 5
  NFILE = 10
  NOFILE = 7
  DIRSIZ = 14
  BSIZE = 2
  NPROC = 10
  PIPESIZE = 3
  MaxWrite = 4
  MAXARG = 5
  MAXPATH = 20
  NBLOCKS = 36
  FILLS = 4
  Program <- MCProgram
  Resume <- MCResume
  Scripts <- MCScripts
  Rounds = 1
  Grinds1 = {1,2,3,4,5,6,7,8,9,10,11,12,13,14,15,16,17,18,19,20,21,22}
  Grinds2 = {9}
  Tests = {"copyin", "copyout", "copyinstr1", "copyinstr2", "copyinstr3", "rwsbrk",
    "truncate1", "truncate2", "truncate3", "openiput", "exitiput", "iput",
    "opentest", "writetest", "writebig", "createtest", "dirtest", "exectest",
    "pipe1", "killstatus", "preempt", "exitwait", "reparent", "twochildren",
    "forkfork", "forkforkfork", "reparent2", "mem", "sharedfd", "fourfiles",
    "createdelete", "unlinkread", "linktest", "concreate", "linkunlink", "subdir",
    "bigwrite", "bigfile", "fourteen", "rmdot", "dirfile", "iref",
    "forktest", "sbrkbasic", "sbrkmuch", "kernmem", "MAXVAplus", "sbrkfail",
    "sbrkarg", "validatetest", "bigargtest", "argptest", "stacktest", "nowrite",
    "pgbug", "sbrkbugs", "sbrklast", "sbrk8000", "badarg", "lazy_alloc",
    "lazy_unmap", "lazy_copy", "bigdir", "manywrites", "badwrite", "execout",
    "diskfull", "outofinodes"}
INVARIANTS NothingLost RefsCounted LinksCounted TestsPass
PROPERTY OnlyGrowthPanics
