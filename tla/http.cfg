\* Two-atom lines at most besides the line feed, requests of four headers and a
\* body of two, in segments of up to four atoms cut anywhere.
CONSTANTS
  LF = lf
  CR = cr
  Keep = keep
  Length = len
  Requests = {get}
  Chars = {lf, cr, keep, len, get}
  BodyLen = 2
  MAX_LINE = 3
  MaxSegment = 2
  MaxLate = 1
  Own = {"none", "close"}
SPECIFICATION Spec
INVARIANTS TypeOK ParserAwaitsMore InputBounded
PROPERTIES ImplementsHttpStream EverythingIsAnswered
CHECK_DEADLOCK FALSE
