\* Three threads race.
SPECIFICATION Spec
CONSTANTS
  t1 = t1
  t2 = t2
  t3 = t3
  Threads = {t1, t2, t3}
  NoThread = NoThread
  MaxCalls = 4
  MaxMsgs = 2
INVARIANTS QueuedOnceUnlessOverlapped LastCallIsQueued
SYMMETRY Symmetric
\* The bounds end every behaviour.
CHECK_DEADLOCK FALSE
