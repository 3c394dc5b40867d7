\* A connection whose timeout is enabled a second time, by its user: is it
\* still closed only when idle?
CONSTANTS
  Capacity = 4
  Ids = {i1}
  Tasks = {t1, t2, t3}
  Delays = {1, 3}
  CallbackDelays = {}
  Reuse = TRUE
  MaxPending = 2
  NoTask = NoTask
  NoId = NoId
SPECIFICATION SpecConns
INVARIANTS IdleBeforeClose
