\* As MCTcpLogin, with safety only: mail relayed by a lookup that a login overtakes.
SPECIFICATION LSpec
CONSTANTS
  c1 = c1
  c2 = c2
  c3 = c3
  alice = alice
  bob = bob
  h1 = h1
  h2 = h2
  Workers = {w1, w2}
  Callers = {main}
  Main = main
  Tasks = {c1, c2, c3}
  Capacity = 1
  NoTask = NoTask
  Users = {alice, bob}
  NoUser = NoUser
  Account <- MCAccount
  Host <- MCHost
  Silent = {c3}
  maxTcpConnections = 2
  Mail = {m1}
  NoMail = NoMail
  Recipient <- MCRecipient
  Nowhere = Nowhere
  Torn = TRUE
INVARIANT
  RelayedToRecipient
