CONSTANTS
  DeviceList <- MochaDevices
  Bits <- MCBits
  StreamList <- MochaStreams
  Outs = {o1}
  Ins = {i1}
  OutRoutes <- MCOutRoutes
  InRoutes <- MochaInRoutes
  Mic <- MCMic
  RoutedSource = TRUE
SPECIFICATION Spec
INVARIANTS
  ActiveExactly
