SPECIFICATION FairSpec
CONSTANTS
  Owner = owner
  Threads = {t1, t2}
  Functors = {f1, f2, f3}
  Channels = {c1}
  Wakeup = wakeup
INVARIANTS NoLostWakeup NoLostQuit BatchFinished
PROPERTIES FifoAtMostOnce QuitHonoured EventuallyRun
