SPECIFICATION Spec
CONSTANTS
  p1 = p1
  p2 = p2
  Procs = {p1, p2}
  NoProc = NoProc
  NINODE = 3
  NINUM = 4
  Names <- MCNames
  Calls <- MCCalls
CONSTRAINT Bound
INVARIANTS InodeRefs LinksCovered LinksExact LocksReturned
CHECK_DEADLOCK FALSE
