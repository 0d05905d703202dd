\* The sender is the server or a client; it flags entries or clears them.
SPECIFICATION Spec
CONSTANTS
  SeqSpace = 65536
  NoId = 65535
  n1 = n1
  n2 = n2
  a = a
  b = b
  d = d
  Names = {n1, n2}
  Values = {a, b, d}
  TypeOf <- Types
  NoValue = NoValue
  NoName = NoName
  NoMsg = NoMsg
  SenderRoles = {TRUE, FALSE}
  OpSets <- FlagsOrClear
  MaxOps = 5
INVARIANTS MergingIsInvisible PositionsAreRight
SYMMETRY Symmetric
\* The bounds end every behaviour.
CHECK_DEADLOCK FALSE
