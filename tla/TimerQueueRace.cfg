SPECIFICATION Spec
CONSTANTS
  Addr = {1}
  Threads = {t1}
  Adders = {t1}
  Delays = {0}
  Intervals = {0}
  MaxSeq = 2
  MaxTime = 2
  MaxInbox = 2
INVARIANT ReadBeforeFree
