SPECIFICATION Spec
CONSTANTS
  Conns = {c1, c2}
  Fds = {f1, f2}
  NoConn = NoConn
  NoFd = NoFd
  c1 = c1
  c2 = c2
  f1 = f1
  f2 = f2
  Pipeline = 1
  ReqUnits = 2
  Dynamic = TRUE
  Delay = FALSE
  Tls = TRUE
  Replies = {"keep", "close", "eof", "junk"}
  EarlyReply = TRUE
  ConnectFails = TRUE
  OtherThreads = TRUE
  MaxFaults = 1
  MaxDelays = 2
  MaxCount = 0
SYMMETRY Symmetry
CHECK_DEADLOCK FALSE
INVARIANTS EventsOwnTheirSocket NoStaleDispatch OneCycleAtATime
