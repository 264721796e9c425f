SPECIFICATION FairSpec
CONSTANTS
  m1 = m1
  m2 = m2
  m3 = m3
  Owner = owner
  Threads = {t1, t2}
  Messages = {m1, m2}
  Size <- MCSize
  StaleBytes = {0, 2}
INVARIANTS TypeOK WireInOrder GracefulShutdown ClosedIsSilent
PROPERTY ShutdownCompletes
CHECK_DEADLOCK FALSE
