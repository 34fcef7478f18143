\* Two sessions, one of which the server may offer again while it runs; three
\* lost exchanges use up the attempts of a report.
SPECIFICATION Spec
CONSTANTS
  Sessions = {s1, s2}
  NoSession = NoSession
  Releasable = {s2}
  MaxFaults = 3
  MaxCrashes = 1
INVARIANTS
  TruthfulEnd
  ShellIsRecorded
  LockIsOwned
PROPERTY
  ImplementsSession
