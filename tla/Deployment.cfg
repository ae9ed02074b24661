\* Two callers, one disc, one path.
CONSTANTS
  c1 = c1
  c2 = c2
  Callers = {c1, c2}
  Paths = {"p1"}
  Environments <- Some
  Asks <- AllAsks
SPECIFICATION FairSpec
INVARIANTS
  AnswersTell
  InboxIsRegular
  CreatedIsKnown
  RunsAreConfigured
  IInv
PROPERTIES
  HandledOnce
  CallsEnd
CHECK_DEADLOCK FALSE
