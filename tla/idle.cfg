\* Connections whose timeout is enabled by their user, and enabled again after
\* it was switched off or ran out, once the timer there was has ended.
CONSTANTS
  Capacity = 3
  Ids = {i1, i2}
  Tasks = {t1, t2}
  Delays = {2}
  CallbackDelays = {}
  Reuse = FALSE
  MaxPending = 1
  NoTask = NoTask
  NoId = NoId
SPECIFICATION SpecConns
INVARIANTS ConnTypeOK DisableStopsTimer IdleBeforeClose 
PROPERTIES IdleConnectionsClose
