SPECIFICATION Spec
CONSTANTS
  ReqCount = 2
  Threads = {t1, t2}
  MaxFrames = 2
  MaxCalls = 2
  Requests <- MCRequests
  Configs <- MCConfigs
  MaxRetries = 2
  Faults = TRUE
  QuietClose = FALSE
CHECK_DEADLOCK FALSE
INVARIANTS
  DeviceSound
  TrackerExact
  
PROPERTIES
  PipelineExclusive
