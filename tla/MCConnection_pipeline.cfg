SPECIFICATION FairSpec
CONSTANTS
  c1 = c1
  c2 = c2
  f1 = f1
  f2 = f2
  NoConn = NoConn
  NoFd = NoFd
  Conns = {c1, c2}
  Fds = {f1, f2}
  Pipeline = 2
  ReqUnits = 1
  Dynamic = FALSE
  Delay = FALSE
  Tls = FALSE
  Replies = {"keep"}
  EarlyReply = FALSE
  ConnectFails = FALSE
  OtherThreads = FALSE
  MaxFaults = 1
  MaxDelays = 2
  MaxCount = 0
INVARIANTS PendingIsOutstanding
PROPERTIES ImplementsClosedLoop Progress
