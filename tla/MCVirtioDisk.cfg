SPECIFICATION MCSpec
CONSTANTS
  Procs = {p1, p2, p3}
  NUM = 7
  Wrap = 14
  Blocks = {k1, k2, k3}
  Data = {d1, d2}
  MaxCalls = 1
  Start = 12
  Null = Null
  First = p1
  Block = k1
  Old = d1
INVARIANTS DescsAccounted IntrNotLost
PROPERTIES DiskSpec 
\* The processes make a bounded number of calls.
CHECK_DEADLOCK FALSE
