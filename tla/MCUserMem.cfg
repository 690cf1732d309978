SPECIFICATION Spec
CONSTANTS
  p1 = p1
  p2 = p2
  Procs = {p1, p2}
  init = p1
  NPAGE = 16
  PGSIZE = 2
  Increments <- MCIncrements
  Programs <- MCPrograms
  MaxArgs = 1
  NFILE = 2
  NOFILE = 2
CONSTRAINT Bound
INVARIANTS PagesAccounted MappedBelow 
CHECK_DEADLOCK FALSE
