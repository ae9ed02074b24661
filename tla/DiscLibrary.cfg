\* Two UUIDs, each with two runs, that meet at a path where two discs arrive.
CONSTANTS
  u1 = u1
  u2 = u2
  p1 = p1
  d1 = d1
  d2 = d2
  UUIDs = {u1, u2}
  Paths = {p1}
  Discs = {d1, d2}
  None = None
  MaxRuns = 2
  MaxHandlers = 2
SPECIFICATION Spec
SYMMETRY LibrarySymmetry
INVARIANTS
  MovedByThisRun
  IInv
PROPERTIES
  NeverClobbers
