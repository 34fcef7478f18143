\* An inventory result of more than 64 KiB and one lost reply.
SPECIFICATION FairLoopSpec
CONSTANTS
  c1 = c1
  c2 = c2
  c3 = c3
  c4 = c4
  Commands = {c1, c2}
  Kind <- KindInventoryShutdown
  MaxLeases = 1
  MaxFaults = 1
  MaxCrashes = 0
  Releasable = {}
  Oversize = {c1}
  NoLease = NoLease
  MaxBatch = 2
  Poison = {}
PROPERTY
  PendingIsCleared
