\* Two listeners, one of which may be polled; two changes of two entries.
SPECIFICATION FairSpec
CONSTANTS
  n1 = n1
  n2 = n2
  p = p
  Names = {n1, n2}
  Values = {a, b}
  NoValue = NoValue
  Specs <- SpecsUsed
  Pollers = {p}
  NoPoller = NoPoller
  Everybody = Everybody
  MaxChanges = 2
  MaxListeners = 2
INVARIANTS FollowersKnow NothingLostByStop NobodySleepsOverNotes
PROPERTY AllIsTold
\* The bounds end every behaviour.
CHECK_DEADLOCK FALSE
