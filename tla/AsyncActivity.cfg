\* One activity of each kind, any number of attempts, webhooks and delays.
CONSTANTS
  i1 = i1
  t1 = t1
  GetVideoInfos = {i1}
  Transcodes = {t1}
SPECIFICATION FairSpec
INVARIANTS
  CompletedByItsJob
  AcknowledgedIsRecorded
  IInv
PROPERTIES
  CompletesUnlessStale
  ImplementsFates
