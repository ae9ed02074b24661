\* A client that asks again and again, and three runs that it may be told of.
CONSTANTS
  r1 = r1
  Requests = {r1}
  MaxRuns = 3
SPECIFICATION FairSpec
INVARIANTS
  AnswersAreTrue
  GetsAnError
  IInv
PROPERTY RequestsAreAnswered
