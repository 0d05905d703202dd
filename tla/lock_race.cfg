\* Two threads, one operation each.
SPECIFICATION Spec
CONSTANTS
  t1 = t1
  t2 = t2
  t3 = t3
  Threads = {t1, t2}
  NoThread = NoThread
  MaxCalls = 2
  MaxMsgs = 1
INVARIANT QueuedExactlyOnce
\* The bounds end every behaviour.
CHECK_DEADLOCK FALSE
