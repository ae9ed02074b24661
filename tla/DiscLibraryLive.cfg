\* Does every run stop trying to move its directory?  Two runs of a UUID, for two paths, with
\* handlers enough for all attempts: do they move a disc once, for a request that is wanted?
CONSTANTS
  u1 = u1
  p1 = p1
  p2 = p2
  d1 = d1
  UUIDs = {u1}
  Paths = {p1, p2}
  Discs = {d1}
  None = None
  MaxRuns = 2
  MaxHandlers = 6
SPECIFICATION FairSpec
INVARIANT ThreeHandlersEach
PROPERTIES
  MoveSettles
  ImplementsMoves
