SPECIFICATION Spec
CONSTANTS
  Addr = {1, 2}
  Threads = {t1}
  Adders = {}
  Delays = {0, 2}
  Intervals = {0, 1}
  MaxSeq = 3
  MaxTime = 2
  MaxInbox = 1
INVARIANTS InSync BatchAllocated Armed CancelSticks OneShotOnce
