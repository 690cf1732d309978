SPECIFICATION Spec
CONSTANTS
  NPROC = 3
  MaxSleep = 1
  Calls = {"fork", "wait", "exit", "sleep", "io", "fault"}
INVARIANTS
  IntrSafe
  NoSpin
  
  ZombieNotMissed
  DiskWakeNotLost
  ParentAlive
  NewbornClean
  NoKilledCall
  IInv
PROPERTY
  TreeSpec
