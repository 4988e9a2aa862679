\* The heap may build an entry in the memory of an erased one.
\* The server may be aborted: CHECK_DEADLOCK is off.
SPECIFICATION Spec
CONSTANTS
  u1 = u1
  Users = {u1}
  Msgs = {m1, m2}
  To <- MCTo
  Handlers = {h1}
  Nodes = {n1, n2}
  Length = 1
  NoNode = NoNode
  NoUser = NoUser
  Junk = Junk
  Recycle = TRUE
CHECK_DEADLOCK FALSE
PROPERTIES
  RefusedOnlyWhenFull
