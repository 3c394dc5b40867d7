\* A request that arrives in two parts.
CONSTANTS
  LF = lf
  CR = cr
  Keep = keep
  Length = len
  Requests = {get, old}
  Old = {old}
  Chars = {lf, cr, keep, len, get, old}
  BodyLen = 2
  MAX_LINE = 3
  MaxSegment = 2
SPECIFICATION Spec
INVARIANTS SoundIsNotRefused
CHECK_DEADLOCK FALSE
