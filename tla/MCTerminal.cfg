SPECIFICATION Spec
CONSTANTS
  Procs = {1, 2, 3, 4, 5}
  INPUT_BUF_SIZE = 9
  WRAP = 18
  UART_TX_BUF_SIZE = 1
  MAXARGS = 3
  NBUF = 7
  CATBUF = 2
  NOFILE = 7
  NPIPE = 2
  PIPESIZE = 1
  Scripts <- MCScripts
  Chars <- MCChars
INVARIANTS ParseExact OnlyStdio
PROPERTIES  Settles
CHECK_DEADLOCK FALSE
