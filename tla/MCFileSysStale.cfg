SPECIFICATION Spec
CONSTANTS
  p1 = p1
  p2 = p2
  Procs = {p1, p2}
  NoProc = NoProc
  NINODE = 3
  NINUM = 4
  Names <- MCNames
  Calls <- MCCalls

INVARIANT FreshType
CHECK_DEADLOCK FALSE
