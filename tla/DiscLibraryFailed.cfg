\* Is the directory of a run that could not move it where it was?
CONSTANTS
  u1 = u1
  p1 = p1
  d1 = d1
  UUIDs = {u1}
  Paths = {p1}
  Discs = {d1}
  None = None
  MaxRuns = 1
  MaxHandlers = 3
SPECIFICATION Spec
INVARIANT FailedIsNotMoved
