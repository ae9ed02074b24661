\* Is the information of a file that of the file, after a replay too?
CONSTANTS
  f1 = f1
  f2 = f2
  Files = {f1, f2}
  None = None
SPECIFICATION Spec
INVARIANT InfoIsOfItsFile
