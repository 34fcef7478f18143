\* Two upgrades to binaries of every kind of life, two faults, one reboot.
SPECIFICATION FairSpec
CONSTANTS
  Versions = {v1, v2}
  Old = Old
  Lives <- SomeLives
  Forever = Forever
  RestartSec = 5
  Patience = 8
  Slack = 1
  MaxInstalls = 2
  MaxFaults = 2
  MaxReboots = 1
  None = None
  Torn = Torn
INVARIANTS
  IInv
  InstalledIsEnrolled
  InstalledWasStaged
  RollsBackToProven
PROPERTIES
  DeadIsRolledBack
\* A host where all offers, faults and installations are used up comes to rest.
CHECK_DEADLOCK FALSE
