SPECIFICATION FairSpec
CONSTANTS
  Addr = {1, 2}
  Threads = {t1}
  Adders = {t1}
  Delays = {0}
  Intervals = {0, 1}
  MaxSeq = 2
  MaxTime = 2
  MaxInbox = 2
INVARIANT NotLost
PROPERTIES Served ActsAsSchedule
