\* The user saves once to a file of his own; every name and value can be read back.
SPECIFICATION FairSpec
CONSTANTS
  SeqSpace = 65536
  NoId = 65535
  n1 = n1
  n2 = n2
  nil = nil
  empty = empty
  Names = {n1, n2}
  Values = {nil, empty}
  TypeOf <- Types
  NoValue = NoValue
  NoName = NoName
  NoFile = NoFile
  Partial = Partial
  Unreadable = {}
  ReadBack <- ReadAll
  MaxOps = 2
  MaxManual = 1
  MaxFaults = 0
  MaxCrashes = 0
INVARIANT RestartRestores
\* The bounds end every behaviour.
CHECK_DEADLOCK FALSE
