SPECIFICATION Spec
CONSTANTS
  m1 = m1
  m2 = m2
  m3 = m3
  Owner = owner
  Threads = {t1}
  Messages = {m1, m2}
  Size <- MCSize
  StaleBytes = {0}
INVARIANT NotScrambled
CHECK_DEADLOCK FALSE
