\* Any directory of names that may collide on one disc, and one of them on another.
CONSTANTS
  u1 = u1
  u2 = u2
  UUIDs = {u1, u2}
  stem = stem
  Stems = {stem}
  NoStem = NoStem
  None = None
  Names <- Videos
SPECIFICATION SmallSpec
INVARIANTS
  PreviewIsOfItsFile
  VideosArePreviewed
  IInv
\* Once all discs are done there is nothing left to do.
CHECK_DEADLOCK FALSE
