\* Every interleaving of results, losses of the copy, polls and a cancellation,
\* for a directory with up to two files.
CONSTANTS
  f1 = f1
  f2 = f2
  Files = {f1, f2}
  None = None
SPECIFICATION FairSpec
INVARIANTS
  NeverDiverges
  ResultsFollowSlots
  CompletesDiagnosed
  NeverHangs
  IInv
PROPERTIES
  StatusNeverRegresses
  AnswersAreCurrent
  DiscSettles
  ImplementsProgress
