SPECIFICATION LiveSpec
CONSTANTS
  ReqCount = 2
  Threads = {t1, t2}
  MaxFrames = 2
  MaxCalls = 3
  Requests <- MCRequests1
  Configs <- MCConfigs1
  MaxRetries = 2
  Faults = FALSE
  QuietClose = FALSE
CHECK_DEADLOCK FALSE
INVARIANTS
  BuffersReturned
PROPERTIES
  CallsReturn
