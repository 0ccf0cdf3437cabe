SPECIFICATION Spec
CONSTANTS
  c1 = c1
  f1 = f1
  NoConn = NoConn
  NoFd = NoFd
  Conns = {c1}
  Fds = {f1}
  Pipeline = 1
  ReqUnits = 2
  Dynamic = TRUE
  Delay = TRUE
  Tls = FALSE
  Replies = {"keep", "close"}
  EarlyReply = FALSE
  ConnectFails = FALSE
  OtherThreads = FALSE
  MaxFaults = 2
  MaxDelays = 2
  MaxCount = 3
INVARIANTS NoStall CyclesAreCounted
CHECK_DEADLOCK FALSE
