\* One client and one server of either default revision.
SPECIFICATION FairSpec
CONSTANTS
  SeqSpace = 65536
  NoId = 65535
  Names = {n1}
  Values <- SomeValues
  TypeOf <- TypesOfValues
  NoValue = NoValue
  NoName = NoName
  MaxArray = 1
  MaxString = 2
  LebBase = 2
  OpKindsUsed = {"write", "delete", "clear"}
  MaxOps = 3
  MaxBreaks = 1
INVARIANTS TypeOK RevsAgree ReadInRevision3 MisreadOnlyByType AgreeAsHeard
PROPERTIES ToServerInOrder ToClientInOrder StayConnected
\* The bounds end every behaviour.
CHECK_DEADLOCK FALSE
