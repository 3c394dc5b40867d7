\* Timers set by handlers with every delay up to the size of the ring, and timers
\* set, refreshed and cancelled by the callbacks of others with lesser delays.
CONSTANTS
  Capacity = 3
  Ids = {i1, i2}
  Tasks = {t1, t2}
  Delays = {1, 3}
  CallbackDelays = {1, 2}
  Reuse = FALSE
  MaxPending = 2
  NoTask = NoTask
  NoId = NoId
SPECIFICATION Spec
INVARIANTS TypeOK EntryNamesTheTimer NeverEarly
PROPERTIES TimersEnd ImplementsTimers
