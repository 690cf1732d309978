SPECIFICATION Spec
CONSTANTS
  Procs = {p1, p2, p3}
  Bufs = {b1, b2, b3}
  Blocks = {k1, k2, k3, k4}
  Data = {d1, d2}
  MaxHeld = 1
  Null = Null
SYMMETRY Sym
INVARIANTS OneCopy RefsCounted OneUser Coherent 
\* A contended sleep lock stops the machine.
CHECK_DEADLOCK FALSE
