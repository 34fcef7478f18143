\* One failing Save.
SPECIFICATION Spec
CONSTANTS
  Sessions = {s1, s2}
  NoSession = NoSession
  Releasable = {}
  MaxFaults = 1
  MaxCrashes = 0
INVARIANT
  RecordIsGuarded
