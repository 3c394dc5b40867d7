\* Two threads and the loop itself queue three tasks over and over.
CONSTANTS
  Producers = {p1, p2}
  Loop = Loop
  Tasks = {t1, t2, t3}
  EfdMax = 2
SPECIFICATION Spec
INVARIANTS TypeOK NoLostWakeup
PROPERTIES ImplementsTaskQueue WorkGetsDone
