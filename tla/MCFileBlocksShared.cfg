SPECIFICATION Spec
CONSTANTS
  p1 = p1
  p2 = p2
  Procs = {p1, p2}
  NoProc = NoProc
  NBLOCK = 6
  NDIRECT = 1
  BSIZE = 2
  MAXW = 2
  Inodes <- MCInodes
  FileOf <- SharedFileOf
  Lens <- MCLens
  Ops <- SharedOps
  Shared = TRUE
SYMMETRY MCSym
INVARIANT SharedOffset
CHECK_DEADLOCK FALSE
