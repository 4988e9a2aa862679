\* A logout may be undone by a message or a stream already past its check.
\* The server may be aborted: CHECK_DEADLOCK is off.
SPECIFICATION Spec
CONSTANTS
  u1 = u1
  Users = {u1}
  Msgs = {m1}
  To <- MCTo
  Handlers = {h1, h2}
  Nodes = {n1, n2}
  Length = 1
  NoNode = NoNode
  NoUser = NoUser
  Junk = Junk
  Recycle = TRUE
CHECK_DEADLOCK FALSE
INVARIANTS
  LoggedOutIsOffline
