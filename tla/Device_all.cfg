SPECIFICATION DeviceSpec
CONSTANTS
  MaxStreams = 4
  Cams <- MCCams
  Lumas = {5, 40, 84, 100, 130, 450}
  NeedDeltas = 2
  HoldFrames = 2
  SweepMin = 2
  SweepMax = 6
  FirstGuess = 3
  CoarseStep = 2
  FineStep = 1
  Energies = {3, 5}
  MaxFails = 3
  MinSamples = 4
  Fds = {0, 1, 2, 3, 4}
  Threshold = 2
  MaxArrivals = 2
  Binders = {"b1", "b2", "b3"}
  SubHals <- MCSubHals
  Sensors <- MCSensors
  HalThreads = {"t1", "t2"}
  Objects = {"m1", "m2"}
  Tags = {1}
  Vals = {0}
  MaxBufs = 3
  MaxOutside = 1
  MaxEntries = 2
  Alignment = 2
  Boundary = 10
  NUM_TYPES = 6
  Ops <- MCOps
  AppThreads = {"a1", "a2"}
  MaxLives = 2
  Waiters = {"w1", "w2"}
  Attrs = {0, 3}
  Counters = 3
  MaxPulses = 2
  States <- MCStates
  Nearest <- MCNearest
  Panels = {100, 255, 4095}
  Requests <- MCRequests
  MaxList = 2
  ParamKeys <- MCParamKeys
  ParamValues <- MCParamValues
  SizeTexts <- MCSizeTexts
  Numerals <- MCNumerals
  MaxSets = 2
INVARIANTS
  
  
  FocusSound
  
  GuardSound
  HandlesSound
  MetadataSound
  
  
  
  WaitsSound
  LightsSound
  CallsSound
  ParamsSound
