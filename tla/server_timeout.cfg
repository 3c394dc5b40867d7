\* Connections with the idle timeout of the server, which users enable once more.
CONSTANTS
  WorkerCnt = 1
  ConnCnt = 2
  Fds = {5}
  EnableCnt = 2
  Partial = FALSE
  Signals = TRUE
  Reactions = {"blank"}
  NoConn = NoConn
SPECIFICATION Spec
INVARIANTS PollersAgree
CHECK_DEADLOCK FALSE
