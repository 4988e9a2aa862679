\* Two handlers, and a server that is started again over the same database.
\* After the last crash nothing starts it: CHECK_DEADLOCK is off.
SPECIFICATION Spec
CONSTANTS
  user1 = user1
  user2 = user2
  Users = {user1, user2, user3}
  Predefined <- MCPredefined
  Handlers = {h1, h2}
  MaxStarts = 2
  Crossing = TRUE
  NoUser = NoUser
SYMMETRY Symmetry
CHECK_DEADLOCK FALSE
INVARIANTS
  TypeOK
  UndisturbedIsRight
  OneIdForLife
