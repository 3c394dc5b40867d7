\* A vector of two bytes, writes of up to two: growth, compaction and a line
\* feed at every position.
CONSTANTS
  Bytes = {x, y, lf}
  LF = lf
  Zero = x
  BUFFERSIZE = 2
  MaxLen = 2
  MaxHeld = 4
SPECIFICATION Spec
INVARIANTS TypeOK NoOverrun MemoryBounded
PROPERTIES ImplementsByteQueue
