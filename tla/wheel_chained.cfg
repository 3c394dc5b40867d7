\* Timers of the longest delay, each set by the callback of the one before: does
\* the wheel keep them all?
CONSTANTS
  Capacity = 3
  Ids = {i1, i2}
  Tasks = {t1, t2}
  Delays = {3}
  CallbackDelays = {3}
  Reuse = FALSE
  MaxPending = 1
  NoTask = NoTask
  NoId = NoId
SPECIFICATION Spec
INVARIANTS NoTimerLost
CHECK_DEADLOCK FALSE
