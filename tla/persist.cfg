\* Changes of all kinds; one save by the user, one fault and one crash.
SPECIFICATION FairSpec
CONSTANTS
  SeqSpace = 65536
  NoId = 65535
  n1 = n1
  n2 = n2
  nil = nil
  empty = empty
  Names = {n1, n2}
  Values = {nil, empty}
  TypeOf <- Types
  NoValue = NoValue
  NoName = NoName
  NoFile = NoFile
  Partial = Partial
  Unreadable = {n2}
  ReadBack <- ReadNil
  MaxOps = 2
  MaxManual = 1
  MaxFaults = 1
  MaxCrashes = 2
INVARIANTS FileIsCurrent LastSaveSurvives
PROPERTY ChangesAreSaved
\* The bounds end every behaviour.
CHECK_DEADLOCK FALSE
