CONSTANTS
  Writers = {w}
  Readers = {r}
  Bytes = {a}
  PIPESIZE = 2
  Wrap = 4
  MaxCount = 3
  Victims = {w}
  Nobody = Nobody
SPECIFICATION Spec
INVARIANT NobodyOversleeps
CHECK_DEADLOCK TRUE
