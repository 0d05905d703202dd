\* One client writes, and its connection breaks.
SPECIFICATION Spec
CONSTANTS
  SeqSpace = 65536
  NoId = 65535
  c1 = c1
  c2 = c2
  n1 = n1
  n2 = n2
  a = a
  b = b
  d = d
  Clients = {c1, c2}
  Server = Server
  Names = {n1}
  Values = {a, b}
  TypeOf <- Types
  NoValue = NoValue
  NoName = NoName
  Ops <- OneWriter
  MaxOps = 3
  MaxBreaks = 1
  MaxRestarts = 0
INVARIANT AllAgree
\* The bounds end every behaviour.
CHECK_DEADLOCK FALSE
