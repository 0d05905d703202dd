\* Everyone performs every operation; a connection breaks or the server
\* restarts.
SPECIFICATION Spec
CONSTANTS
  SeqSpace = 65536
  NoId = 65535
  c1 = c1
  c2 = c2
  n1 = n1
  n2 = n2
  a = a
  b = b
  d = d
  Clients = {c1, c2}
  Server = Server
  Names = {n1, n2}
  Values = {a, d}
  TypeOf <- Types
  NoValue = NoValue
  NoName = NoName
  Ops <- EveryoneAll
  MaxOps = 3
  MaxBreaks = 1
  MaxRestarts = 1
INVARIANTS ServerIdsConsistent IdsAgree ClientIdsResolve WritersConverge
PROPERTY ServerSeqNeverRegresses
CONSTRAINT OneFailure
SYMMETRY Interchangeable
\* The bounds end every behaviour.
CHECK_DEADLOCK FALSE
