SPECIFICATION FairSpec
CONSTANTS
  Owner = owner
  Creator = creator
  Others = {other}
  Functors = {f1, f2, f3}
  Channels = {c1}
  Wakeup = wakeup
INVARIANT Handshake
PROPERTIES StartCompletes FirstFunctorsRun DestructorCompletes
CHECK_DEADLOCK FALSE
