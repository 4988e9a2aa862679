\* Two logins at the same time, each of which gets the answer to its own query.
\* After the last crash nothing starts it: CHECK_DEADLOCK is off.
SPECIFICATION Spec
CONSTANTS
  user1 = user1
  user2 = user2
  Users = {user1, user2, user3}
  Predefined <- MCPredefined
  Handlers = {h1, h2}
  MaxStarts = 1
  Crossing = FALSE
  NoUser = NoUser
SYMMETRY Symmetry
CHECK_DEADLOCK FALSE
INVARIANTS
  GrantedIsOwn
