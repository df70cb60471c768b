CONSTANTS
  DeviceList <- MCDevices
  Bits <- MCBits
  StreamList <- MCStreams
  Outs = {o1}
  Ins = {i1}
  OutRoutes <- MCOutRoutes
  InRoutes <- MCInRoutes
  Mic <- MCMic
  RoutedSource = TRUE
SPECIFICATION FairSpec
INVARIANTS
  StreamsHeld
  
  ActiveExactly
  CaptureHasOwner
PROPERTIES
  LockReturned
