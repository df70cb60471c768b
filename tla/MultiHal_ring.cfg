CONSTANTS
  Capacity = 3
  NumSubs = 1
  good = good
  bad = bad
  LocalHandles <- MCHandles
  full_to_global <- MCFullToGlobal
  MetaKinds <- MCNoMeta
  MaxReads = 2
  MaxEvents = 6
SPECIFICATION Spec
INVARIANTS
  IInv
  NoOverlap
PROPERTIES
  ImplementsChannel
