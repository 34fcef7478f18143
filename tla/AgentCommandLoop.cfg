\* The loop over an image deployment, an environment, an upgrade, and a command
\* that cannot be decoded.
SPECIFICATION FairLoopSpec
CONSTANTS
  c1 = c1
  c2 = c2
  c3 = c3
  c4 = c4
  Commands = {c1, c2, c3, c4}
  Kind <- KindsOfTheLoop
  MaxLeases = 1
  MaxFaults = 1
  MaxCrashes = 1
  Releasable = {}
  Oversize = {}
  NoLease = NoLease
  MaxBatch = 2
  Poison = {c4}
INVARIANTS
  NothingPendingInBatch
  StoredAcknowledgedBeforeNext
  LoopIInv
PROPERTIES
  PendingIsCleared
