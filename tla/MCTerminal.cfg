CONSTANTS
  p = p
  q = q
  Procs = {p, q}
  Kernel = Kernel
  Plain = {x}
  Newline = nl
  Eof = eof
  Backspace = bs
  KillLine = kill
  Nothing = Nothing
  INPUT_BUF_SIZE = 2
  BUFSIZE = 1
  FIFO = 3
  Wrap = 4
  Start = 3
  Budgets <- MCBudgets
SPECIFICATION FairSpec
PROPERTIES ImplementsTty CallsEnd
CHECK_DEADLOCK FALSE
