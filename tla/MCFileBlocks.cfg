SPECIFICATION Spec
CONSTANTS
  p1 = p1
  p2 = p2
  Procs = {p1, p2}
  NoProc = NoProc
  NBLOCK = 6
  NDIRECT = 1
  BSIZE = 2
  MAXW = 2
  Inodes <- MCInodes
  FileOf <- MCFileOf
  Lens <- MCLens
  Ops <- MCOps
  Shared = FALSE
SYMMETRY MCSym
INVARIANTS  DiskCovered OwnData
CHECK_DEADLOCK FALSE
