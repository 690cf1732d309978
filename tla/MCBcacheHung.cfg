SPECIFICATION Spec
CONSTANTS
  Procs = {p1, p2}
  Bufs = {b1, b2}
  Blocks = {k1, k2, k3}
  Data = {d1, d2}
  MaxHeld = 1
  Null = Null
INVARIANT NeverHung
