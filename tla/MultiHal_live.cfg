CONSTANTS
  Capacity = 1
  NumSubs = 2
  good = good
  bad = bad
  LocalHandles <- MCGood
  full_to_global <- MCFullToGlobal
  MetaKinds <- MCNoMeta
  MaxReads = 1
  MaxEvents = 3
SPECIFICATION FairSpec
INVARIANTS
  NoLostWakeup
  NotStarved
PROPERTIES
  PollWakes
  WriterResumes
