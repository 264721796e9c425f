SPECIFICATION Spec
CONSTANTS
  Threads = {t1, t2}
  Macros = {"DEBUG", "INFO", "SYSERR", "FATAL"}
  LogLevels = {0, 3}
  Lengths = {3923, 3962, 3963}
  Ints <- MCInts
  Errnos = {24}
  BaseLen = 9
  LineNo = 97
  FuncLen = 6
  ErrorLen = 19
  kSmallBuffer = 4000
  MaxLines = 2
  MaxPieces = 2
INVARIANTS TypeOK Terminated LocationKept NumbersRead FatalFlushed
CHECK_DEADLOCK FALSE
