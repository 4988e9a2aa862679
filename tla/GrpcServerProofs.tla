---------------------------- MODULE GrpcServerProofs ----------------------------
(***************************************************************************)
(* For any users, envelopes, handlers and capacity: the types; nobody is   *)
(* online without a login; and a step keeps every user's mail apart from   *)
(* the others' if the heap has only fresh memory to give out.              *)
(***************************************************************************)
EXTENDS GrpcServer, TLAPS

--------------------------------------------------------------------------------
(* Sequences. *)

LEMMA ToSetAppend ==
  ASSUME NEW S, NEW s \in Seq(S), NEW e \in S
  PROVE  ToSet(Append(s, e)) = ToSet(s) \cup {e}
<1>1. /\ DOMAIN s = 1 .. Len(s) /\ Len(s) \in Nat
      /\ DOMAIN Append(s, e) = 1 .. Len(s) + 1
      /\ \A i \in 1 .. Len(s) : Append(s, e)[i] = s[i]
      /\ Append(s, e)[Len(s) + 1] = e
  OBVIOUS
<1>2. ASSUME NEW x \in ToSet(Append(s, e)) PROVE x \in ToSet(s) \cup {e}
  BY <1>1, <1>2 DEF ToSet
<1>3. ASSUME NEW x \in ToSet(s) \cup {e} PROVE x \in ToSet(Append(s, e))
  <2>1. CASE x \in ToSet(s)
    <3>1. PICK i \in 1 .. Len(s) : s[i] = x
      BY <1>1, <2>1 DEF ToSet
    <3>2. i \in 1 .. Len(s) + 1 /\ Append(s, e)[i] = x
      BY <1>1, <3>1
    <3>3. QED  BY <1>1, <3>2 DEF ToSet
  <2>2. CASE x = e
    <3>1. Len(s) + 1 \in 1 .. Len(s) + 1
      BY <1>1
    <3>2. QED  BY <1>1, <2>2, <3>1 DEF ToSet
  <2>3. QED  BY <1>3, <2>1, <2>2
<1>4. QED  BY <1>2, <1>3

LEMMA ToSetTail ==
  ASSUME NEW S, NEW s \in Seq(S), s # <<>>
  PROVE  ToSet(Tail(s)) \subseteq ToSet(s) /\ Head(s) \in ToSet(s)
BY DEF ToSet

--------------------------------------------------------------------------------
(* What a handler's locals say of the step it is at: one that is running has a
   user, and one that is about to push or pop has found a node. *)
LocalsOK ==
  \A h \in Handlers :
    /\ rpc[h].pc # "idle" => rpc[h].user \in Users
    /\ rpc[h].pc \in {"push", "pop"} <=> rpc[h].node # NoNode
    /\ rpc[h].pc \in Receiving => IsMailFor(rpc[h].env, rpc[h].user)

Types == TypeOK /\ LocalsOK

LEMMA InitTypes == ASSUME Init PROVE Types
BY LengthAssumption, ValuesAssumption
DEF Init, Types, TypeOK, LocalsOK, Idle, Calls, Fates, Envelopes, Receiving, Streaming

(* Building a cell keeps the cells and the fates in their types. *)
LEMMA InsertTypes ==
  ASSUME Types, NEW u \in Users, NEW n \in Allocated,
         NEW c \in Seq(Envelopes), Len(c) <= Length, Insert(u, n, c)
  PROVE  /\ n \in Nodes
         /\ post_box' \in [Users -> Nodes \cup {NoNode}]
         /\ cell' \in [Nodes -> Seq(Envelopes)]
         /\ \A k \in Nodes : Len(cell'[k]) <= Length
         /\ fate' \in [Msgs -> Fates]
<1>1. n \in Nodes
  BY DEF Allocated, Untouched
<1>2. post_box' \in [Users -> Nodes \cup {NoNode}]
  BY <1>1 DEF Insert, Types, TypeOK
<1>3. cell' \in [Nodes -> Seq(Envelopes)] /\ \A k \in Nodes : Len(cell'[k]) <= Length
  BY <1>1 DEF Insert, Types, TypeOK
<1>4. fate' \in [Msgs -> Fates]
  BY DEF Insert, LoseMail, Types, TypeOK, Fates
<1>5. QED  BY <1>1, <1>2, <1>3, <1>4

LEMMA MovedType ==
  ASSUME Types, NEW n \in Nodes
  PROVE  Moved(n) \in Seq(Envelopes) /\ Len(Moved(n)) <= Length
<1>1. cell[n] \in Seq(Envelopes) /\ Len(cell[n]) \in Nat /\ Len(cell[n]) <= Length
  BY DEF Types, TypeOK
<1>2. Junk \in Envelopes
  BY DEF Envelopes
<1>3. CASE Recycle
  <2>1. [i \in 1 .. Len(cell[n]) |-> Junk] \in Seq(Envelopes)
    BY <1>1, <1>2
  <2>2. Len([i \in 1 .. Len(cell[n]) |-> Junk]) = Len(cell[n])
    BY <1>1
  <2>3. QED  BY <1>1, <1>3, <2>1, <2>2 DEF Moved
<1>4. CASE ~Recycle
  BY <1>4, LengthAssumption DEF Moved
<1>5. QED  BY <1>3, <1>4

LEMMA StepTypes ==
  ASSUME Types, [Next]_vars
  PROVE  Types'
<1>. USE ToAssumption, LengthAssumption, ValuesAssumption
<1>. USE DEF Types, TypeOK, LocalsOK, IsMailFor, Calls, Fates, Receiving, Streaming, Idle, Call, At,
             Goto, Finish, history, server
<1>0. Junk \in Envelopes /\ Msgs \subseteq Envelopes
  BY DEF Envelopes
<1>1. ASSUME NEW h \in Handlers, NEW u \in Users,
             AcceptConnection(h, u) \/ ReceiveExit(h, u) \/ StreamIncomingMessages(h, u)
      PROVE  Types'
  <2>1. CASE AcceptConnection(h, u)
    BY <1>0, <2>1 DEF AcceptConnection
  <2>2. CASE ReceiveExit(h, u)
    BY <1>0, <2>2 DEF ReceiveExit
  <2>3. CASE StreamIncomingMessages(h, u)
    BY <1>0, <2>3 DEF StreamIncomingMessages
  <2>4. QED  BY <1>1, <2>1, <2>2, <2>3
<1>2. ASSUME NEW h \in Handlers, NEW m \in Msgs, ReceiveMessage(h, m)
      PROVE  Types'
  BY <1>0, <1>2 DEF ReceiveMessage
<1>3. ASSUME NEW h \in Handlers, AddUserToConnected(h)
      PROVE  Types'
  <2>1. rpc[h].user \in Users
    BY <1>3 DEF AddUserToConnected
  <2>2. session' \in [Users -> {"never", "first", "out", "again"}]
    BY <1>3, <2>1 DEF AddUserToConnected, LogsIn
  <2>3. CASE Online(rpc[h].user)
    BY <1>0, <1>3, <2>2, <2>3 DEF AddUserToConnected
  <2>4. CASE ~Online(rpc[h].user)
    <3>1. PICK n \in Allocated : Insert(rpc[h].user, n, Moved(n))
      BY <1>3, <2>4 DEF AddUserToConnected
    <3>2. Moved(n) \in Seq(Envelopes) /\ Len(Moved(n)) <= Length
      BY MovedType DEF Allocated, Untouched
    <3>3. QED  BY <1>0, <1>3, <2>1, <2>2, <3>1, <3>2, InsertTypes DEF AddUserToConnected
  <2>5. QED  BY <2>3, <2>4
<1>4. ASSUME NEW h \in Handlers, DisconnectUser(h)
      PROVE  Types'
  BY <1>0, <1>4 DEF DisconnectUser
<1>5. ASSUME NEW h \in Handlers, IsRecipientOnline(h)
      PROVE  Types'
  <2>1. CASE Online(rpc[h].user)
    <3>1. /\ rpc[h].pc = "online?" /\ Goto(h, "[]", NoNode, rpc[h].env)
          /\ UNCHANGED <<post_box, cell, up, fate, accepted, written, session>>
      BY <1>5, <2>1 DEF IsRecipientOnline
    <3>2. QED  BY <1>0, <3>1
  <2>2. CASE ~(Online(rpc[h].user))
    <3>1. /\ Finish(h) /\ fate' = [fate EXCEPT ![rpc[h].env] = "refused"]
          /\ UNCHANGED <<post_box, cell, up, accepted, written, session>>
      BY <1>5, <2>2 DEF IsRecipientOnline
    <3>2. QED  BY <1>0, <3>1
  <2>3. QED  BY <2>1, <2>2
<1>6. ASSUME NEW h \in Handlers, IndexToPush(h) \/ IndexToPop(h)
      PROVE  Types'
  <2>1. rpc[h].user \in Users
    BY <1>6 DEF IndexToPush, IndexToPop, Index
  <2>2. /\ post_box' \in [Users -> Nodes \cup {NoNode}]
        /\ cell' \in [Nodes -> Seq(Envelopes)]
        /\ \A k \in Nodes : Len(cell'[k]) <= Length
        /\ fate' \in [Msgs -> Fates]
        /\ post_box'[rpc[h].user] \in Nodes
    <3>1. CASE Online(rpc[h].user)
      BY <1>6, <2>1, <3>1 DEF IndexToPush, IndexToPop, Index, Online
    <3>2. CASE ~Online(rpc[h].user)
      <4>1. PICK n \in Allocated : Insert(rpc[h].user, n, <<>>)
        BY <1>6, <3>2 DEF IndexToPush, IndexToPop, Index
      <4>2. <<>> \in Seq(Envelopes) /\ Len(<<>>) <= Length
        OBVIOUS
      <4>3. QED  BY <2>1, <4>1, <4>2, InsertTypes DEF Insert
    <3>3. QED  BY <3>1, <3>2
  <2>3. CASE IndexToPush(h)
    BY <1>0, <2>1, <2>2, <2>3 DEF IndexToPush, Index
  <2>4. CASE IndexToPop(h)
    BY <1>0, <2>1, <2>2, <2>4 DEF IndexToPop, Index
  <2>5. QED  BY <1>6, <2>3, <2>4
<1>7. ASSUME NEW h \in Handlers, PushEnvelope(h)
      PROVE  Types'
  <2>1. CASE Len(cell[rpc[h].node]) < Length
    <3>1. rpc[h].pc = "push" /\ rpc[h].node \in Nodes /\ rpc[h].env \in Msgs
      BY <1>7 DEF PushEnvelope, HasRoom
    <3>2. /\ Append(cell[rpc[h].node], rpc[h].env) \in Seq(Envelopes)
          /\ Len(Append(cell[rpc[h].node], rpc[h].env)) <= Length
      BY <1>0, <2>1, <3>1
    <3>3. /\ Finish(h) /\ UNCHANGED <<post_box, up, written, session>>
          /\ cell' = [cell EXCEPT ![rpc[h].node] = Append(cell[rpc[h].node], rpc[h].env)]
          /\ accepted' = [accepted EXCEPT ![To[rpc[h].env]] = Append(@, rpc[h].env)]
          /\ fate' = [fate EXCEPT ![rpc[h].env] = "queued"]
      BY <1>7, <2>1 DEF PushEnvelope, HasRoom
    <3>4. QED  BY <1>0, <3>1, <3>2, <3>3
  <2>2. CASE ~(Len(cell[rpc[h].node]) < Length)
    BY <1>0, <1>7, <2>2 DEF PushEnvelope, HasRoom
  <2>3. QED  BY <2>1, <2>2
<1>8. ASSUME NEW h \in Handlers, Poll(h)
      PROVE  Types'
  <2>1. CASE Online(rpc[h].user)
    <3>1. /\ rpc[h].pc = "poll" /\ Goto(h, "stream[]", NoNode, Junk)
          /\ UNCHANGED <<post_box, cell, up, fate, accepted, written, session>>
      BY <1>8, <2>1 DEF Poll
    <3>2. QED  BY <1>0, <3>1
  <2>2. CASE ~(Online(rpc[h].user))
    <3>1. /\ Finish(h) /\ written' = [written EXCEPT ![h] = <<>>]
          /\ UNCHANGED <<post_box, cell, up, fate, accepted, session>>
      BY <1>8, <2>2 DEF Poll
    <3>2. QED  BY <1>0, <3>1
  <2>3. QED  BY <2>1, <2>2
<1>9. ASSUME NEW h \in Handlers, PopEnvelope(h)
      PROVE  Types'
  <2>1. rpc[h].pc = "pop" /\ rpc[h].user \in Users /\ rpc[h].node \in Nodes
    BY <1>9 DEF PopEnvelope, Oldest, Rest
  <2>2. CASE cell[rpc[h].node] = <<>>
    <3>1. Goto(h, "poll", NoNode, Junk) /\ UNCHANGED <<post_box, cell, up, history>>
      BY <1>9, <2>2 DEF PopEnvelope, Oldest, Rest
    <3>2. QED  BY <1>0, <2>1, <3>1
  <2>3. CASE cell[rpc[h].node] # <<>>
    <3>1. /\ Head(cell[rpc[h].node]) \in Envelopes
          /\ Tail(cell[rpc[h].node]) \in Seq(Envelopes)
          /\ Len(Tail(cell[rpc[h].node])) <= Length
      BY <2>1, <2>3
    <3>2. /\ Goto(h, "write", NoNode, Head(cell[rpc[h].node]))
          /\ cell' = [cell EXCEPT ![rpc[h].node] = Tail(cell[rpc[h].node])]
          /\ UNCHANGED <<post_box, up, history>>
      BY <1>9, <2>3 DEF PopEnvelope, Oldest, Rest
    <3>3. QED  BY <2>1, <3>1, <3>2
  <2>4. QED  BY <2>2, <2>3
<1>10. ASSUME NEW h \in Handlers, WriteEnvelope(h)
      PROVE  Types'
  <2>1. CASE rpc[h].env \in Msgs
    BY <1>0, <1>10, <2>1 DEF WriteEnvelope
  <2>2. CASE ~(rpc[h].env \in Msgs)
    BY <1>0, <1>10, <2>2 DEF WriteEnvelope
  <2>3. QED  BY <2>1, <2>2
<1>11. ASSUME NEW h \in Handlers, Abort(h)
      PROVE  Types'
  BY <1>11 DEF Abort
<1>12. CASE UNCHANGED vars
  BY <1>12 DEF vars
<1>13. QED
  BY <1>1, <1>2, <1>3, <1>4, <1>5, <1>6, <1>7, <1>8, <1>9, <1>10, <1>11, <1>12
  DEF Next, Request, HandlerStep

(* Types hold, and a running handler's locals fit its step (GrpcServer.cpp:28-124). *)
THEOREM TypesAreCorrect == Spec => []TypeOK
<1>1. Init => Types
  BY InitTypes
<1>2. Types /\ [Next]_vars => Types'
  BY StepTypes
<1>3. QED  BY <1>1, <1>2, PTL DEF Spec, Types

--------------------------------------------------------------------------------
(* Who may be online.  operator[] creates an entry for the user it looks up, so the
   invariant has to speak of the handlers that are about to look one up. *)
LoggedIn ==
  /\ OnlineOnlyAfterLogin
  /\ \A h \in Handlers : Looking(h) => session[rpc[h].user] # "never"

LEMMA InitLoggedIn == ASSUME Init PROVE LoggedIn
BY DEF Init, LoggedIn, OnlineOnlyAfterLogin, Online, Looking, Idle

LEMMA StepLoggedIn ==
  ASSUME Types, LoggedIn, [Next]_vars
  PROVE  LoggedIn'
<1>. USE DEF LoggedIn, OnlineOnlyAfterLogin, Online, Looking, Call, At, Goto, Finish,
             Idle, Types, TypeOK, LocalsOK, history
<1>1. ASSUME NEW h \in Handlers, NEW u \in Users,
             AcceptConnection(h, u) \/ ReceiveExit(h, u) \/ StreamIncomingMessages(h, u)
      PROVE  LoggedIn'
  <2>1. PICK pc \in {"add", "erase", "poll"} : Call(h, pc, u, Junk)
    BY <1>1 DEF AcceptConnection, ReceiveExit, StreamIncomingMessages
  <2>2. UNCHANGED <<post_box, session>>
    BY <1>1 DEF AcceptConnection, ReceiveExit, StreamIncomingMessages
  <2>3. QED  BY <2>1, <2>2
<1>2. ASSUME NEW h \in Handlers, NEW m \in Msgs, ReceiveMessage(h, m)
      PROVE  LoggedIn'
  BY <1>2 DEF ReceiveMessage
<1>3. ASSUME NEW h \in Handlers, AddUserToConnected(h)
      PROVE  LoggedIn'
  <2>1. /\ rpc[h].user \in Users
        /\ \A u \in Users \ {rpc[h].user} : post_box'[u] = post_box[u]
        /\ session'[rpc[h].user] # "never"
        /\ \A u \in Users \ {rpc[h].user} : session'[u] = session[u]
    BY <1>3 DEF AddUserToConnected, Insert, LogsIn
  <2>2. Finish(h)
    BY <1>3 DEF AddUserToConnected
  <2>3. \A g \in Handlers \ {h} : Looking(g) => rpc[g].user \in Users
    OBVIOUS
  <2>4. QED  BY <2>1, <2>2, <2>3
<1>4. ASSUME NEW h \in Handlers, DisconnectUser(h)
      PROVE  LoggedIn'
  <2>1. /\ rpc[h].user \in Users
        /\ post_box' = [post_box EXCEPT ![rpc[h].user] = NoNode]
        /\ Finish(h)
        /\ \A u \in Users : session[u] # "never" => session'[u] # "never"
    BY <1>4 DEF DisconnectUser
  <2>2. \A g \in Handlers : Looking(g) => rpc[g].user \in Users
    OBVIOUS
  <2>3. QED  BY <2>1, <2>2
<1>5. ASSUME NEW h \in Handlers, IsRecipientOnline(h)
      PROVE  LoggedIn'
  <2>1. UNCHANGED <<post_box, session>> /\ rpc[h].user \in Users
    BY <1>5 DEF IsRecipientOnline
  <2>2. CASE Online(rpc[h].user)
    <3>1. Goto(h, "[]", NoNode, rpc[h].env)
      BY <1>5, <2>2 DEF IsRecipientOnline
    <3>2. QED  BY <2>1, <2>2, <3>1
  <2>3. CASE ~Online(rpc[h].user)
    <3>1. Finish(h)
      BY <1>5, <2>3 DEF IsRecipientOnline
    <3>2. QED  BY <2>1, <3>1
  <2>4. QED  BY <2>2, <2>3
<1>6. ASSUME NEW h \in Handlers, IndexToPush(h) \/ IndexToPop(h)
      PROVE  LoggedIn'
  <2>1. /\ rpc[h].user \in Users /\ session[rpc[h].user] # "never"
        /\ \A u \in Users \ {rpc[h].user} : post_box'[u] = post_box[u]
        /\ session' = session
    BY <1>6 DEF IndexToPush, IndexToPop, Index, Insert
  <2>2. \E pc \in {"push", "pop"} : \E n, e : Goto(h, pc, n, e)
    BY <1>6 DEF IndexToPush, IndexToPop, Index
  <2>3. QED  BY <2>1, <2>2
<1>7. ASSUME NEW h \in Handlers, PushEnvelope(h)
      PROVE  LoggedIn'
  <2>1. UNCHANGED <<post_box, session>> /\ Finish(h)
    BY <1>7 DEF PushEnvelope, HasRoom
  <2>2. QED  BY <2>1
<1>8. ASSUME NEW h \in Handlers, Poll(h)
      PROVE  LoggedIn'
  <2>1. UNCHANGED <<post_box, session>> /\ rpc[h].user \in Users
    BY <1>8 DEF Poll
  <2>2. CASE Online(rpc[h].user)
    <3>1. Goto(h, "stream[]", NoNode, Junk)
      BY <1>8, <2>2 DEF Poll
    <3>2. QED  BY <2>1, <2>2, <3>1
  <2>3. CASE ~Online(rpc[h].user)
    <3>1. Finish(h)
      BY <1>8, <2>3 DEF Poll
    <3>2. QED  BY <2>1, <3>1
  <2>4. QED  BY <2>2, <2>3
<1>9. ASSUME NEW h \in Handlers, PopEnvelope(h) \/ WriteEnvelope(h)
      PROVE  LoggedIn'
  <2>1. UNCHANGED <<post_box, session>>
    BY <1>9 DEF PopEnvelope, WriteEnvelope
  <2>2. \E pc \in {"poll", "write"} : \E e : Goto(h, pc, NoNode, e)
    BY <1>9 DEF PopEnvelope, WriteEnvelope
  <2>3. QED  BY <2>1, <2>2
<1>10. ASSUME NEW h \in Handlers, Abort(h)
      PROVE  LoggedIn'
  BY <1>10 DEF Abort
<1>11. CASE UNCHANGED vars
  BY <1>11 DEF vars
<1>12. QED
  BY <1>1, <1>2, <1>3, <1>4, <1>5, <1>6, <1>7, <1>8, <1>9, <1>10, <1>11
  DEF Next, Request, HandlerStep

(* A user is online only after a login: a message or a stream may bring a user back
   after a logout, and never bring in one who was not there before
   (GrpcServer.cpp:63-67, 96-100). *)
THEOREM NobodyOnlineWithoutLogin == Spec => []OnlineOnlyAfterLogin
<1>1. Init => Types /\ LoggedIn
  BY InitTypes, InitLoggedIn
<1>2. Types /\ LoggedIn /\ [Next]_vars => (Types /\ LoggedIn)'
  BY StepTypes, StepLoggedIn
<1>3. LoggedIn => OnlineOnlyAfterLogin
  BY DEF LoggedIn
<1>4. QED  BY <1>1, <1>2, <1>3, PTL DEF Spec

--------------------------------------------------------------------------------
(* Whose mail a node holds.  A node is within a user's reach while it is the user's
   entry, and while a handler that works for the user refers to it; the second may
   outlast the first. *)
Reaches(u, n) ==
  \/ post_box[u] = n
  \/ \E h \in Handlers : rpc[h].user = u /\ rpc[h].node = n

(* No node is within the reach of two users, and what it holds is for the one. *)
Apart ==
  /\ \A n \in Nodes, u, v \in Users : Reaches(u, n) /\ Reaches(v, n) => u = v
  /\ \A n \in Nodes, u \in Users :
       Reaches(u, n) => \A e \in ToSet(cell[n]) : IsMailFor(e, u)
  /\ \A h \in Handlers : rpc[h].pc = "write" => IsMailFor(rpc[h].env, rpc[h].user)

LEMMA ApartImpliesOwnMail == ASSUME Types, Apart PROVE OwnMail
BY DEF Types, TypeOK, Apart, OwnMail, Reaches, Online

LEMMA InitApart == ASSUME Init PROVE Apart
BY ValuesAssumption DEF Init, Apart, Reaches, Idle

(* A step that leaves the cells and brings no node within a new reach. *)
LEMMA NothingNewReached ==
  ASSUME Apart, cell' = cell,
         \A n \in Nodes, u \in Users : Reaches(u, n)' => Reaches(u, n),
         \A h \in Handlers : rpc'[h].pc = "write" => rpc'[h] = rpc[h]
  PROVE  Apart'
BY DEF Apart, IsMailFor

(* The heap has only nodes to give out that nobody refers to, and that an entry can be
   built over without it finding anything. *)
Fresh == \A n \in Allocated : Moved(n) = <<>> /\ \A u \in Users : ~Reaches(u, n)

LEMMA NewMemoryIsFresh == ASSUME ~Recycle PROVE Fresh
BY DEF Fresh, Allocated, Untouched, Free, Moved, Reaches

(* Memory nobody refers to becomes the empty cell of one user. *)
LEMMA NewCellReached ==
  ASSUME Types, Apart, Fresh, NEW n \in Allocated, NEW w \in Users,
         cell' = [cell EXCEPT ![n] = <<>>],
         \A k \in Nodes, u \in Users :
           Reaches(u, k)' => Reaches(u, k) \/ (u = w /\ k = n),
         \A h \in Handlers : rpc'[h].pc = "write" => rpc'[h] = rpc[h]
  PROVE  Apart'
<1>1. n \in Nodes /\ \A u \in Users : ~Reaches(u, n)
  BY DEF Fresh, Allocated, Untouched
<1>2. \A k \in Nodes : cell'[k] = IF k = n THEN <<>> ELSE cell[k]
  BY <1>1 DEF Types, TypeOK
<1>3. ToSet(<<>>) = {}
  BY DEF ToSet
<1>4. \A k \in Nodes, u, v \in Users : Reaches(u, k)' /\ Reaches(v, k)' => u = v
  BY <1>1 DEF Apart
<1>5. \A k \in Nodes, u \in Users :
        Reaches(u, k)' => \A e \in ToSet(cell'[k]) : IsMailFor(e, u)
  BY <1>1, <1>2, <1>3 DEF Apart
<1>6. \A h \in Handlers : rpc'[h].pc = "write" => IsMailFor(rpc'[h].env, rpc'[h].user)
  BY DEF Apart
<1>7. QED  BY <1>4, <1>5, <1>6 DEF Apart, IsMailFor

LEMMA StepApart ==
  ASSUME Types, Apart, Fresh, [Next]_vars
  PROVE  Apart'
<1>. USE ValuesAssumption
<1>. USE DEF Call, At, Goto, Finish, Idle, Types, TypeOK, LocalsOK, Receiving, history
<1>1. ASSUME NEW h \in Handlers, NEW u \in Users,
             AcceptConnection(h, u) \/ ReceiveExit(h, u) \/ StreamIncomingMessages(h, u)
      PROVE  Apart'
  <2>1. PICK pc \in {"add", "erase", "poll"} : Call(h, pc, u, Junk)
    BY <1>1 DEF AcceptConnection, ReceiveExit, StreamIncomingMessages
  <2>2. UNCHANGED <<post_box, cell>>
    BY <1>1 DEF AcceptConnection, ReceiveExit, StreamIncomingMessages
  <2>3. \A n \in Nodes, v \in Users : Reaches(v, n)' => Reaches(v, n)
    BY <2>1, <2>2 DEF Reaches
  <2>4. \A g \in Handlers : rpc'[g].pc = "write" => rpc'[g] = rpc[g]
    BY <2>1
  <2>5. QED  BY <2>2, <2>3, <2>4, NothingNewReached
<1>2. ASSUME NEW h \in Handlers, NEW m \in Msgs, ReceiveMessage(h, m)
      PROVE  Apart'
  BY <1>2, NothingNewReached DEF ReceiveMessage, Reaches
<1>3. ASSUME NEW h \in Handlers, AddUserToConnected(h)
      PROVE  Apart'
  <2>1. Finish(h) /\ rpc[h].user \in Users
    BY <1>3 DEF AddUserToConnected
  <2>2. CASE Online(rpc[h].user)
    <3>1. UNCHANGED <<post_box, cell>>
      BY <1>3, <2>2 DEF AddUserToConnected
    <3>2. QED  BY <2>1, <3>1, NothingNewReached DEF Reaches
  <2>3. CASE ~Online(rpc[h].user)
    <3>1. PICK n \in Allocated : Insert(rpc[h].user, n, Moved(n))
      BY <1>3, <2>3 DEF AddUserToConnected
    <3>2. /\ cell' = [cell EXCEPT ![n] = <<>>]
          /\ post_box' = [post_box EXCEPT ![rpc[h].user] = n]
      BY <3>1 DEF Insert, Fresh
    <3>3. \A k \in Nodes, u \in Users :
            Reaches(u, k)' => Reaches(u, k) \/ (u = rpc[h].user /\ k = n)
      BY <2>1, <3>2 DEF Reaches
    <3>4. QED  BY <2>1, <3>2, <3>3, NewCellReached
  <2>4. QED  BY <2>2, <2>3
<1>4. ASSUME NEW h \in Handlers, DisconnectUser(h)
      PROVE  Apart'
  BY <1>4, NothingNewReached DEF DisconnectUser, Reaches
<1>5. ASSUME NEW h \in Handlers, IsRecipientOnline(h)
      PROVE  Apart'
  <2>1. UNCHANGED <<post_box, cell>>
    BY <1>5 DEF IsRecipientOnline
  <2>2. Finish(h) \/ Goto(h, "[]", NoNode, rpc[h].env)
    BY <1>5 DEF IsRecipientOnline
  <2>3. \A k \in Nodes, u \in Users : Reaches(u, k)' => Reaches(u, k)
    <3>1. \A g \in Handlers : rpc'[g] = rpc[g] \/ rpc'[g].node = NoNode
      BY <2>2
    <3>2. QED  BY <2>1, <3>1 DEF Reaches
  <2>4. \A g \in Handlers : rpc'[g].pc = "write" => rpc'[g] = rpc[g]
    BY <2>2
  <2>5. QED  BY <2>1, <2>3, <2>4, NothingNewReached
<1>6. ASSUME NEW h \in Handlers, IndexToPush(h) \/ IndexToPop(h)
      PROVE  Apart'
  <2>1. rpc[h].user \in Users
    BY <1>6 DEF IndexToPush, IndexToPop, Index
  <2>2. PICK pc \in {"push", "pop"} : Goto(h, pc, post_box'[rpc[h].user], rpc[h].env)
    BY <1>6 DEF IndexToPush, IndexToPop, Index
  <2>3. CASE Online(rpc[h].user)
    <3>1. UNCHANGED <<post_box, cell>>
      BY <1>6, <2>3 DEF IndexToPush, IndexToPop, Index
    <3>2. QED  BY <2>1, <2>2, <3>1, NothingNewReached DEF Reaches
  <2>4. CASE ~Online(rpc[h].user)
    <3>1. PICK n \in Allocated : Insert(rpc[h].user, n, <<>>)
      BY <1>6, <2>4 DEF IndexToPush, IndexToPop, Index
    <3>2. /\ cell' = [cell EXCEPT ![n] = <<>>]
          /\ post_box' = [post_box EXCEPT ![rpc[h].user] = n]
      BY <3>1 DEF Insert
    <3>3. \A k \in Nodes, u \in Users :
            Reaches(u, k)' => Reaches(u, k) \/ (u = rpc[h].user /\ k = n)
      BY <2>1, <2>2, <3>2 DEF Reaches
    <3>4. QED  BY <2>1, <2>2, <3>2, <3>3, NewCellReached
  <2>5. QED  BY <2>3, <2>4
<1>7. ASSUME NEW h \in Handlers, PushEnvelope(h)
      PROVE  Apart'
  <2>. DEFINE n == rpc[h].node
              m == rpc[h].env
  <2>1. /\ Finish(h) /\ post_box' = post_box
        /\ n \in Nodes /\ rpc[h].user \in Users /\ Reaches(rpc[h].user, n)
        /\ IsMailFor(m, rpc[h].user)
    <3>1. rpc[h].pc = "push" /\ Finish(h) /\ post_box' = post_box
      BY <1>7 DEF PushEnvelope, HasRoom
    <3>2. n \in Nodes /\ rpc[h].user \in Users
      BY <3>1 DEF Calls
    <3>3. IsMailFor(m, rpc[h].user)
      BY <3>1
    <3>4. QED  BY <3>1, <3>2, <3>3 DEF Reaches
  <2>2. \A k \in Nodes, u \in Users : Reaches(u, k)' => Reaches(u, k)
    BY <2>1 DEF Reaches
  <2>3. \A g \in Handlers : rpc'[g].pc = "write" => rpc'[g] = rpc[g]
    BY <2>1
  <2>4. CASE Len(cell[n]) < Length
    <3>1. cell' = [cell EXCEPT ![n] = Append(cell[n], m)]
      BY <1>7, <2>4 DEF PushEnvelope, HasRoom
    <3>2. ToSet(Append(cell[n], m)) = ToSet(cell[n]) \cup {m}
      <4>1. cell[n] \in Seq(Envelopes) /\ m \in Envelopes
        BY <2>1 DEF IsMailFor, Envelopes
      <4>2. QED  BY <4>1, ToSetAppend
    <3>3. \A e \in ToSet(cell'[n]) : IsMailFor(e, rpc[h].user)
      <4>1. \A e \in ToSet(cell[n]) : IsMailFor(e, rpc[h].user)
        BY <2>1 DEF Apart
      <4>2. cell'[n] = Append(cell[n], m)
        BY <2>1, <3>1
      <4>3. QED  BY <2>1, <3>2, <4>1, <4>2
    <3>4. \A k \in Nodes, u \in Users :
            Reaches(u, k)' => \A e \in ToSet(cell'[k]) : IsMailFor(e, u)
      <4>1. TAKE k \in Nodes, u \in Users
      <4>2. CASE k = n
        BY <2>1, <2>2, <3>3, <4>2 DEF Apart
      <4>3. CASE k # n
        BY <2>2, <3>1, <4>3 DEF Apart
      <4>4. QED  BY <4>2, <4>3
    <3>5. QED  BY <2>2, <2>3, <3>4 DEF Apart, IsMailFor
  <2>5. CASE ~(Len(cell[n]) < Length)
    <3>1. cell' = cell
      BY <1>7, <2>5 DEF PushEnvelope, HasRoom
    <3>2. QED  BY <2>2, <2>3, <3>1, NothingNewReached
  <2>6. QED  BY <2>4, <2>5
<1>8. ASSUME NEW h \in Handlers, Poll(h)
      PROVE  Apart'
  <2>1. UNCHANGED <<post_box, cell>>
    BY <1>8 DEF Poll
  <2>2. Finish(h) \/ Goto(h, "stream[]", NoNode, Junk)
    BY <1>8 DEF Poll
  <2>3. \A k \in Nodes, u \in Users : Reaches(u, k)' => Reaches(u, k)
    <3>1. \A g \in Handlers : rpc'[g] = rpc[g] \/ rpc'[g].node = NoNode
      BY <2>2
    <3>2. QED  BY <2>1, <3>1 DEF Reaches
  <2>4. \A g \in Handlers : rpc'[g].pc = "write" => rpc'[g] = rpc[g]
    BY <2>2
  <2>5. QED  BY <2>1, <2>3, <2>4, NothingNewReached
<1>9. ASSUME NEW h \in Handlers, PopEnvelope(h)
      PROVE  Apart'
  <2>. DEFINE n == rpc[h].node
  <2>1. /\ n \in Nodes /\ rpc[h].user \in Users /\ Reaches(rpc[h].user, n)
        /\ post_box' = post_box
    <3>1. rpc[h].pc = "pop" /\ post_box' = post_box
      BY <1>9 DEF PopEnvelope, Oldest, Rest
    <3>2. n \in Nodes /\ rpc[h].user \in Users
      BY <3>1 DEF Calls
    <3>3. QED  BY <3>1, <3>2 DEF Reaches
  <2>2. CASE cell[n] = <<>>
    <3>1. Goto(h, "poll", NoNode, Junk) /\ cell' = cell
      BY <1>9, <2>2 DEF PopEnvelope, Oldest, Rest
    <3>2. QED  BY <2>1, <3>1, NothingNewReached DEF Reaches
  <2>3. CASE cell[n] # <<>>
    <3>1. /\ Goto(h, "write", NoNode, Head(cell[n]))
          /\ cell' = [cell EXCEPT ![n] = Tail(cell[n])]
      BY <1>9, <2>3 DEF PopEnvelope, Oldest, Rest
    <3>2. ToSet(Tail(cell[n])) \subseteq ToSet(cell[n]) /\ Head(cell[n]) \in ToSet(cell[n])
      <4>1. cell[n] \in Seq(Envelopes)
        BY <2>1
      <4>2. QED  BY <2>3, <4>1, ToSetTail
    <3>3. \A k \in Nodes, u \in Users : Reaches(u, k)' => Reaches(u, k)
      BY <2>1, <3>1 DEF Reaches
    <3>4. \A k \in Nodes : ToSet(cell'[k]) \subseteq ToSet(cell[k])
      BY <2>1, <3>1, <3>2
    <3>5. IsMailFor(Head(cell[n]), rpc[h].user)
      BY <2>1, <3>2 DEF Apart
    <3>6. \A g \in Handlers : rpc'[g].pc = "write" => IsMailFor(rpc'[g].env, rpc'[g].user)
      BY <3>1, <3>5 DEF Apart
    <3>7. QED  BY <3>3, <3>4, <3>6 DEF Apart, IsMailFor
  <2>4. QED  BY <2>2, <2>3
<1>10. ASSUME NEW h \in Handlers, WriteEnvelope(h)
      PROVE  Apart'
  <2>1. UNCHANGED <<post_box, cell>> /\ Goto(h, "poll", NoNode, Junk)
    BY <1>10 DEF WriteEnvelope
  <2>2. QED  BY <2>1, NothingNewReached DEF Reaches
<1>11. ASSUME NEW h \in Handlers, Abort(h)
      PROVE  Apart'
  BY <1>11, NothingNewReached DEF Abort, Reaches
<1>12. CASE UNCHANGED vars
  BY <1>12, NothingNewReached DEF vars, Reaches
<1>13. QED
  BY <1>1, <1>2, <1>3, <1>4, <1>5, <1>6, <1>7, <1>8, <1>9, <1>10, <1>11, <1>12
  DEF Next, Request, HandlerStep
================================================================================
