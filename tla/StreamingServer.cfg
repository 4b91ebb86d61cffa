SPECIFICATION FairSpec
CONSTANTS
  Clients = {c1, c2}
  MaxConcurrentRuns = 1
  MaxIterations = 1
  FactoryMayRaise = TRUE
  EncodingMayRaise = TRUE
  ArchiveFaults = {"os", "other"}
INVARIANT SlotAccounting
INVARIANT CancelOnlyAbandoned
PROPERTY EveryRunSettles
PROPERTY StreamOrder
