\* Two connections that share a descriptor number, one loop of the pool.
CONSTANTS
  WorkerCnt = 1
  ConnCnt = 2
  Fds = {5}
  EnableCnt = 0
  Partial = TRUE
  Signals = FALSE
  Reactions = {"wait", "echo", "finish", "close"}
  NoConn = NoConn
SPECIFICATION Spec
INVARIANTS TypeOK PollersAgree EstablishedIsServed NoDanglingPointer
PROPERTIES NothingUnsent ClosedForAReason GoneIsErased
CHECK_DEADLOCK FALSE
