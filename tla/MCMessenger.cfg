\* Two clients, of one user or of two; the first may be killed, the second writes.
\* Everybody may go home, and the server may be aborted: CHECK_DEADLOCK is off.
SPECIFICATION FairMSpec
CONSTANTS
  a1 = a1
  a2 = a2
  alice = alice
  bob = bob
  x = x
  y = y
  Users = {alice, bob}
  Contacts = {alice}
  Clients = {a1, a2}
  Accounts <- MCAccounts
  Limit <- MCLimit
  Mortal = {a1}
  Chars = {x, y}
  NUL = NUL
  PayloadSize = 3
  Words <- MCWords
  Exit <- MCExit
  Msgs <- MCMsgs
  To <- MCTo
  Handlers <- MCHandlers
  Nodes = {n1, n2, n3, n4, n5, n6}
  Length = 2
  NoNode = NoNode
  NoUser = NoUser
  Junk = Junk
  Recycle = FALSE
CHECK_DEADLOCK FALSE
INVARIANTS
  ClientTypeOK
  OnlineOnlyAfterLogin
  OwnMail
  ShowsWhatWasTyped
  ShownInOrder
  ShownOnceNoneLost
PROPERTIES
  ImplementsPostOffice
  IsDelivered
  ExitEndsClient
