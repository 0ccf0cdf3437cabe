SPECIFICATION FairRunSpec
CONSTANTS
  t1 = t1
  t2 = t2
  Threads = {t1, t2}
  Limit = 11
  UINT64_MAX = 1000
  Latencies = {0, 2, 9, 11}
  MaxCalls = 4
  Histograms <- Sparse
  Intervals = {1, 2, 3, 5}
  Pipelined = FALSE
CHECK_DEADLOCK FALSE
INVARIANTS ExtremesExact ReportSound
PROPERTIES RecordReturns
