\* Two messages to one client: retransmission, stale acknowledgements, full queues, a
\* network that may deliver a datagram again and again, and the server's destructor.
\* The endpoints may stop: CHECK_DEADLOCK is off.
SPECIFICATION FairSpec
CONSTANTS
  server = server
  c1 = c1
  c2 = c2
  m1 = m1
  m2 = m2
  n1 = n1
  Endpoints = {server, c1}
  Msgs = {m1, m2}
  From <- MCFrom
  To <- MCTo
  QueueSize = 1
  Attempts = 2
  AckLife = 2
  Destroyed = {server}
  InFlight = 1
  Duplicates = TRUE
  NoMsg = NoMsg
  NoEndpoint = NoEndpoint
CHECK_DEADLOCK FALSE
INVARIANTS
  TypeOK
  AckMeansRead
PROPERTIES
  SendingEnds
  StoringEnds
  ThreadsEnd
