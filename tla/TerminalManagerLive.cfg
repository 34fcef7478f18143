\* Three lost exchanges or store errors, which use up the attempts of a
\* report, and one end of the process.
SPECIFICATION FairSpec
CONSTANTS
  Sessions = {s1, s2}
  NoSession = NoSession
  Releasable = {}
  MaxFaults = 3
  MaxCrashes = 1
PROPERTIES
  LockIsReleased
  RestartReports
