\* Is an activity that was left open completed if its job succeeds?
CONSTANTS
  i1 = i1
  t1 = t1
  GetVideoInfos = {i1}
  Transcodes = {}
SPECIFICATION FairSpec
PROPERTY AcceptedIsCompleted
