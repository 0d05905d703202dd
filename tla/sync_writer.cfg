\* One client writes; the server restarts.
SPECIFICATION FairSpec
CONSTANTS
  SeqSpace = 65536
  NoId = 65535
  c1 = c1
  c2 = c2
  n1 = n1
  n2 = n2
  a = a
  b = b
  d = d
  Clients = {c1, c2}
  Server = Server
  Names = {n1}
  Values = {a, b, d}
  TypeOf <- Types
  NoValue = NoValue
  NoName = NoName
  Ops <- OneWriter
  MaxOps = 4
  MaxBreaks = 0
  MaxRestarts = 1
INVARIANTS TypeOK AllAgree FlagsAgree
PROPERTIES SoleWriterKeepsItsValues Settles
\* The bounds end every behaviour.
CHECK_DEADLOCK FALSE
