\* The server sends to a client while it acknowledges what the client sends.
\* With no more to send, all threads wait: CHECK_DEADLOCK is off.
SPECIFICATION Spec
CONSTANTS
  server = server
  c1 = c1
  c2 = c2
  m1 = m1
  m2 = m2
  n1 = n1
  Endpoints = {server, c1}
  Msgs = {m1, n1}
  From <- MCFrom
  To <- MCTo
  QueueSize = 1
  Attempts = 1
  AckLife = 1
  Destroyed = {}
  InFlight = 1
  Duplicates = FALSE
  NoMsg = NoMsg
  NoEndpoint = NoEndpoint
CHECK_DEADLOCK FALSE
INVARIANTS
  AckMeansRead
