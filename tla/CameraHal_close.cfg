SPECIFICATION Spec
CONSTANTS
  ReqCount = 2
  Threads = {t1, t2}
  MaxFrames = 1
  MaxCalls = 2
  Requests <- MCRequests1
  Configs <- MCConfigs1
  MaxRetries = 2
  Faults = FALSE
  QuietClose = FALSE
CHECK_DEADLOCK FALSE
INVARIANT NoUseAfterFree
