SPECIFICATION Spec
CONSTANTS
  Conns = {c1}
  Fds = {f1}
  NoConn = NoConn
  NoFd = NoFd
  c1 = c1
  f1 = f1
  Pipeline = 1
  ReqUnits = 2
  Dynamic = FALSE
  Delay = TRUE
  Tls = FALSE
  Replies = {"keep", "close"}
  EarlyReply = FALSE
  ConnectFails = FALSE
  OtherThreads = FALSE
  MaxFaults = 2
  MaxDelays = 2
  MaxCount = 0
INVARIANT OneCycleAtATime
CHECK_DEADLOCK FALSE
