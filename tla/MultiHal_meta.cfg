CONSTANTS
  Capacity = 2
  NumSubs = 1
  good = good
  bad = bad
  LocalHandles <- MCHandles
  full_to_global <- MCFullToGlobal
  MetaKinds <- MCMeta
  MaxReads = 1
  MaxEvents = 2
SPECIFICATION Spec
INVARIANT NoBadHandleUpstream
