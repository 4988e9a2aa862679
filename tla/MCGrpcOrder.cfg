\* One user with more mail than its box holds: order, refusals, and, with handlers
\* that keep running, the way out of the box.
\* The server may be aborted: CHECK_DEADLOCK is off.
SPECIFICATION FairSpec
CONSTANTS
  u1 = u1
  Users = {u1}
  Msgs = {m1, m2, m3}
  To <- MCTo
  Handlers = {h1, h2}
  Nodes = {n1, n2}
  Length = 2
  NoNode = NoNode
  NoUser = NoUser
  Junk = Junk
  Recycle = TRUE
CHECK_DEADLOCK FALSE
INVARIANTS
  TypeOK
  MailAccounted
  InOrder
  LostOnlyByLogout
PROPERTIES
  MailIsCollected
