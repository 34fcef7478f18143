\* An image deployment, leased again only while it is not RUNNING, and an
\* inventory, leased again at any time, whose result file Load refuses.
SPECIFICATION Spec
CONSTANTS
  c1 = c1
  c2 = c2
  Commands = {c1, c2}
  Kind <- KindImageInventory
  MaxLeases = 2
  MaxFaults = 2
  MaxCrashes = 1
  Releasable = {c2}
  Oversize = {c2}
  NoLease = NoLease
INVARIANTS
  AtMostOncePerLease
  AtMostOncePerCommand
  TruthfulVerdict
  ExecutedIsRecorded
  SavedSurvivesUntilAccepted
PROPERTIES
  ImplementsOnce
