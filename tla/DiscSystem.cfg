\* A disc with at most one video file, and so two activities.
CONSTANTS
  f1 = f1
  Files = {f1}
SPECIFICATION FairSpec
INVARIANTS
  ResultsAreOfJobs
  IInv
PROPERTIES
  LateIsRefused
  GetsDone
CHECK_DEADLOCK FALSE
