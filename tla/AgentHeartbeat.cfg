\* Three decisions, the second of which withdraws the grant.
SPECIFICATION FairSpec
CONSTANTS
  MaxSequence = 3
  Policies = 3
  Allowing = {1, 3}
  MaxFaults = 2
  MaxCrashes = 1
INVARIANTS
  NeverSkips
PROPERTIES
  GrantConverges
