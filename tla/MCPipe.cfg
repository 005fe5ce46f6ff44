CONSTANTS
  Writers = {w}
  Readers = {r1, r2}
  Bytes = {a, b}
  PIPESIZE = 2
  Wrap = 4
  MaxCount = 3
  Victims = {r1}
  Nobody = Nobody
SPECIFICATION FairSpec
INVARIANT NobodyOversleeps
PROPERTIES ImplementsStream WritesReturn
CHECK_DEADLOCK TRUE
