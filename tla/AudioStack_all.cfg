CONSTANTS
  MaxRequests = 3
  Fragment = 3
  ReadSize = 4
  Blocks = {1, 3, 7}
  AccumSize = 2
  Elapsed = {0, 3, 5, 9}
  Tick = 4
  PeriodSize = 3
  PeriodCount = 1
  PcmIntMax = 9
  StartThreshold = 2
  PcmStopIn = 3
  PcmCounts = {4}
  DriverCtls <- MCDriverCtls
  CtlType <- MCCtlType
  CtlCount <- MCCtlCount
  CtlMax = 3
  CfgCtls <- MCCfgCtls
  RouteCtls <- MCRouteCtls
  CaseCtls <- MCCaseCtls
  VolCtl = "Volume"
  Percents = {50, 100}
  CfgFiles = {"a.xml", "b.xml"}
  FirstFile = "a.xml"
  ProbeFiles = {"p1", "p2"}
  CodecIn <- MCCodecIn
  MaxStarts = 8
  MaxRedirects = 2
  MaxCases = 1
  DYN_ARRAY_GRANULE = 2
  MaxMax = 4
  Ranges <- MCRanges
  AskPercents <- MCPercents
  ItemNames <- MCItemNames
SPECIFICATION StackSpec
INVARIANTS
  
  
  RingExact
  FaultsUndone
  ControlsExact
  
  ArraysSound
  ValueAsAsked
