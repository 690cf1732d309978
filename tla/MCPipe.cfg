SPECIFICATION Spec
CONSTANTS
  Procs = {p1, p2, p3}
  PIPESIZE = 2
  Wrap = 4
  Byte = {b1, b2}
  MaxN = 3
  NoOwner = NoOwner
SYMMETRY Sym
INVARIANTS SleepersWait NoUseAfterFree
PROPERTIES  FifoSpec
\* A process that reads from a pipe only it can write to waits for ever.
CHECK_DEADLOCK FALSE
