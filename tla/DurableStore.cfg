\* Three records, in either store.
SPECIFICATION Spec
CONSTANTS
  Record = {r1, r2, r3}
  Absent = Absent
  Torn = Torn
  None = None
INVARIANT
  IInv
PROPERTY
  ImplementsFile
