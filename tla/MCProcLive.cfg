SPECIFICATION FairSpec
CONSTANTS
  NPROC = 3
  MaxSleep = 1
  Calls = {"fork", "wait", "exit", "sleep"}
PROPERTIES
  RunnableRuns
  SleepEnds
  
