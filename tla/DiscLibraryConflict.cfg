\* Is a UUID that is in use refused?
CONSTANTS
  u1 = u1
  p1 = p1
  d1 = d1
  UUIDs = {u1}
  Paths = {p1}
  Discs = {d1}
  None = None
  MaxRuns = 2
  MaxHandlers = 1
SPECIFICATION Spec
PROPERTY ConflictIsReported
