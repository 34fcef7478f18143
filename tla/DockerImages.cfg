\* Two images, two references, two containers.
SPECIFICATION Spec
CONSTANTS
  i1 = i1
  i2 = i2
  t1 = t1
  t2 = t2
  c1 = c1
  c2 = c2
  n1 = n1
  Ids = {i1, i2}
  Tags = {t1, t2}
  Cids = {c1, c2}
  Names = {n1}
  Archives <- SomeArchives
  MaxFaults = 1
  MaxForeign = 2
  None = None
INVARIANTS
  IInv
  UndisturbedDeletionIsAtomic
  DeployedIsTheArchive
PROPERTIES
  RemovesOnlyTheInspected
  ManagedIsKept
