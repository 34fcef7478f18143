\* Two components, two failing calls, one act of others, one cancellation.
SPECIFICATION FairSpec
CONSTANTS
  N = 2
  Ops = {"create", "start", "stop", "restore", "delete"}
  MaxFaults = 2
  MaxForeign = 1
  MaxStops = 1
INVARIANTS
  IInv
  FailureIsUndone
  SuccessIsTruthful
PROPERTIES
  TouchesOnlyItsOwn
  RetrySucceeds
