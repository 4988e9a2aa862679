----------------------------- MODULE GrpcMailProofs -----------------------------
(***************************************************************************)
(* What becomes of mail in the gRPC server, for any users, envelopes,      *)
(* handlers and capacity: every accepted envelope is in one place until it *)
(* is passed to Write or lost with a cell; that place is its recipient's,  *)
(* and keeps the order, as far as the heap lets it.                        *)
(***************************************************************************)
EXTENDS GrpcServerProofs, FiniteSetTheorems, SequenceTheorems

--------------------------------------------------------------------------------
(* Where an envelope can be: in a slot of a cell, or with a stream about to write it. *)
InCell(m, n, i) == i \in 1 .. Len(cell[n]) /\ cell[n][i] = m
InHand(m, h) == rpc[h].pc = "write" /\ rpc[h].env = m

InSomeCell(m) == \E n \in Nodes, i \in 1 .. Length : InCell(m, n, i)
InSomeHand(m) == \E h \in Handlers : InHand(m, h)

OneCopy(m) ==
  /\ \A n, k \in Nodes, i, j \in 1 .. Length : InCell(m, n, i) /\ InCell(m, k, j) => n = k /\ i = j
  /\ \A g, h \in Handlers : InHand(m, g) /\ InHand(m, h) => g = h
  /\ ~(InSomeCell(m) /\ InSomeHand(m))

Tracked(m) == OneCopy(m) /\ (fate[m] = "queued" <=> InSomeCell(m) \/ InSomeHand(m))

(* A call that delivers an envelope is the only one, and nothing has become of the
   envelope yet. *)
Delivering(h) == rpc[h].pc \in Receiving

SentOnce ==
  /\ \A h \in Handlers : Delivering(h) => fate[rpc[h].env] = "sent"
  /\ \A g, h \in Handlers : Delivering(g) /\ Delivering(h) /\ rpc[g].env = rpc[h].env => g = h

MailInv == SentOnce /\ \A m \in Msgs : Tracked(m)

LEMMA InitMail == ASSUME Init PROVE MailInv
BY DEF Init, MailInv, SentOnce, Delivering, Receiving, Tracked, OneCopy, InSomeCell, InSomeHand,
       InCell, InHand, Idle

--------------------------------------------------------------------------------
(* What a step may do to the place of one envelope. *)

LEMMA StaysInPlace ==
  ASSUME NEW m \in Msgs, Tracked(m), cell' = cell,
         \A h \in Handlers : InHand(m, h)' <=> InHand(m, h),
         fate'[m] = "queued" <=> fate[m] = "queued"
  PROVE  Tracked(m)'
<1>1. \A n, i : InCell(m, n, i)' <=> InCell(m, n, i)
  BY DEF InCell
<1>2. (InSomeCell(m)' <=> InSomeCell(m)) /\ (InSomeHand(m)' <=> InSomeHand(m))
  BY <1>1 DEF InSomeCell, InSomeHand
<1>3. QED  BY <1>1, <1>2 DEF Tracked, OneCopy

(* A cell is built over node k, which holds no mail afterwards. *)
LEMMA LostOrStays ==
  ASSUME Types, NEW m \in Msgs, Tracked(m), NEW k \in Nodes, NEW c,
         cell' = [cell EXCEPT ![k] = c], \A i \in 1 .. Len(c) : c[i] # m,
         \A h \in Handlers : InHand(m, h)' <=> InHand(m, h),
         LoseMail(k)
  PROVE  Tracked(m)'
<1>1. /\ cell'[k] = c /\ \A n \in Nodes \ {k} : cell'[n] = cell[n]
      /\ Len(cell[k]) \in 0 .. Length /\ DOMAIN cell[k] = 1 .. Len(cell[k])
  BY DEF Types, TypeOK
<1>2. \A n \in Nodes \ {k}, i \in 1 .. Length : InCell(m, n, i)' <=> InCell(m, n, i)
  BY <1>1 DEF InCell
<1>3. \A i \in 1 .. Length : ~InCell(m, k, i)'
  BY <1>1 DEF InCell
<1>4. fate'[m] = IF m \in ToSet(cell[k]) THEN "lost" ELSE fate[m]
  BY DEF LoseMail
<1>5. m \in ToSet(cell[k]) <=> \E i \in 1 .. Length : InCell(m, k, i)
  BY <1>1, LengthAssumption DEF ToSet, InCell
<1>6. InSomeHand(m)' <=> InSomeHand(m)
  BY DEF InSomeHand
<1>7. CASE m \in ToSet(cell[k])
  <2>1. InSomeCell(m) /\ ~InSomeCell(m)'
    BY <1>2, <1>3, <1>5, <1>7 DEF Tracked, OneCopy, InSomeCell
  <2>2. ~InSomeHand(m)'
    BY <1>6, <2>1 DEF Tracked, OneCopy
  <2>3. fate'[m] # "queued"
    BY <1>4, <1>7
  <2>4. OneCopy(m)'
    BY <2>1, <2>2 DEF OneCopy, InSomeCell, InSomeHand
  <2>5. QED  BY <2>1, <2>2, <2>3, <2>4 DEF Tracked
<1>8. CASE m \notin ToSet(cell[k])
  <2>1. \A n \in Nodes, i \in 1 .. Length : InCell(m, n, i)' <=> InCell(m, n, i)
    BY <1>2, <1>3, <1>5, <1>8
  <2>2. InSomeCell(m)' <=> InSomeCell(m)
    BY <2>1 DEF InSomeCell
  <2>3. fate'[m] = fate[m]
    BY <1>4, <1>8
  <2>4. QED  BY <1>6, <2>1, <2>2, <2>3 DEF Tracked, OneCopy
<1>9. QED  BY <1>7, <1>8

(* Envelope e, which is nowhere, is appended to the cell in node k. *)
LEMMA PushedOrStays ==
  ASSUME Types, NEW m \in Msgs, Tracked(m), NEW k \in Nodes, NEW e \in Msgs,
         HasRoom(k), cell' = [cell EXCEPT ![k] = Append(@, e)],
         fate' = [fate EXCEPT ![e] = "queued"], fate[e] # "queued",
         \A h \in Handlers : InHand(m, h)' <=> InHand(m, h)
  PROVE  Tracked(m)'
<1>. DEFINE l == Len(cell[k])
<1>1. /\ l \in Nat /\ l + 1 \in 1 .. Length /\ Len(cell'[k]) = l + 1
      /\ cell'[k][l + 1] = e /\ \A i \in 1 .. l : cell'[k][i] = cell[k][i]
  BY LengthAssumption DEF Types, TypeOK, HasRoom
<1>2. \A n \in Nodes \ {k} : cell'[n] = cell[n]
  BY DEF Types, TypeOK
<1>3. \A n \in Nodes, i \in 1 .. Length :
        InCell(m, n, i)' <=> InCell(m, n, i) \/ (m = e /\ n = k /\ i = l + 1)
  <2>1. TAKE n \in Nodes, i \in 1 .. Length
  <2>2. CASE n # k
    BY <1>2, <2>2 DEF InCell
  <2>3. CASE n = k
    BY <1>1, <2>3 DEF InCell
  <2>4. QED  BY <2>2, <2>3
<1>4. InSomeHand(m)' <=> InSomeHand(m)
  BY DEF InSomeHand
<1>5. CASE m = e
  <2>1. ~InSomeCell(m) /\ ~InSomeHand(m)'
    BY <1>4, <1>5 DEF Tracked
  <2>2. \A n \in Nodes, i \in 1 .. Length : InCell(m, n, i)' <=> n = k /\ i = l + 1
    BY <1>3, <1>5, <2>1 DEF InSomeCell
  <2>3. InSomeCell(m)' /\ OneCopy(m)'
    BY <1>1, <2>1, <2>2 DEF InSomeCell, InSomeHand, OneCopy
  <2>4. fate'[m] = "queued"
    BY <1>5 DEF Types, TypeOK
  <2>5. QED  BY <2>3, <2>4 DEF Tracked
<1>6. CASE m # e
  <2>1. \A n \in Nodes, i \in 1 .. Length : InCell(m, n, i)' <=> InCell(m, n, i)
    BY <1>3, <1>6
  <2>2. InSomeCell(m)' <=> InSomeCell(m)
    BY <2>1 DEF InSomeCell
  <2>3. fate'[m] = fate[m]
    BY <1>6 DEF Types, TypeOK
  <2>4. QED  BY <1>4, <2>1, <2>2, <2>3 DEF Tracked, OneCopy
<1>7. QED  BY <1>5, <1>6

(* A stream takes the oldest envelope of the cell in node k in hand. *)
LEMMA PoppedOrStays ==
  ASSUME Types, NEW m \in Msgs, Tracked(m), NEW k \in Nodes, cell[k] # <<>>,
         NEW g \in Handlers, ~InHand(m, g),
         cell' = [cell EXCEPT ![k] = Tail(cell[k])], fate' = fate,
         InHand(m, g)' <=> m = Head(cell[k]),
         \A h \in Handlers \ {g} : InHand(m, h)' <=> InHand(m, h)
  PROVE  Tracked(m)'
<1>. DEFINE l == Len(cell[k])
<1>1. /\ l \in 1 .. Length /\ Len(cell'[k]) = l - 1 /\ Head(cell[k]) = cell[k][1]
      /\ \A i \in 1 .. l - 1 : cell'[k][i] = cell[k][i + 1]
  BY LengthAssumption DEF Types, TypeOK
<1>2. \A n \in Nodes \ {k} : cell'[n] = cell[n]
  BY DEF Types, TypeOK
<1>3. \A n \in Nodes, i \in 1 .. Length :
        InCell(m, n, i)' => InCell(m, n, IF n = k THEN i + 1 ELSE i)
                            /\ (IF n = k THEN i + 1 ELSE i) \in 1 .. Length
  <2>1. TAKE n \in Nodes, i \in 1 .. Length
  <2>2. CASE n # k
    BY <1>2, <2>2 DEF InCell
  <2>3. CASE n = k
    BY <1>1, <2>3, LengthAssumption DEF InCell
  <2>4. QED  BY <2>2, <2>3
<1>4. \A n, j \in Nodes, i, o \in 1 .. Length :
        InCell(m, n, i)' /\ InCell(m, j, o)' => n = j /\ i = o
  <2>1. ASSUME NEW n \in Nodes, NEW j \in Nodes, NEW i \in 1 .. Length, NEW o \in 1 .. Length,
               InCell(m, n, i)', InCell(m, j, o)'
        PROVE  n = j /\ i = o
    <3>1. n = j /\ (IF n = k THEN i + 1 ELSE i) = (IF j = k THEN o + 1 ELSE o)
      BY <1>3, <2>1 DEF Tracked, OneCopy
    <3>2. QED  BY <3>1
  <2>2. QED  BY <2>1
<1>5. CASE m = Head(cell[k])
  <2>1. InCell(m, k, 1) /\ 1 \in 1 .. Length
    BY <1>1, <1>5, LengthAssumption DEF InCell
  <2>2. InSomeCell(m) /\ ~InSomeHand(m)
    BY <2>1 DEF InSomeCell, Tracked, OneCopy
  <2>3. ~InSomeCell(m)'
    <3>1. SUFFICES ASSUME NEW n \in Nodes, NEW i \in 1 .. Length, InCell(m, n, i)' PROVE FALSE
      BY DEF InSomeCell
    <3>2. n = k /\ (IF n = k THEN i + 1 ELSE i) = 1
      BY <1>3, <2>1, <3>1 DEF Tracked, OneCopy
    <3>3. QED  BY <3>2
  <2>4. \A h \in Handlers : InHand(m, h)' <=> h = g
    BY <1>5, <2>2 DEF InSomeHand
  <2>5. QED  BY <2>2, <2>3, <2>4 DEF InSomeCell, InSomeHand, Tracked, OneCopy
<1>6. CASE m # Head(cell[k])
  <2>1. \A h \in Handlers : InHand(m, h)' <=> InHand(m, h)
    BY <1>6
  <2>2. InSomeHand(m)' <=> InSomeHand(m)
    BY <2>1 DEF InSomeHand
  <2>3. InSomeCell(m)' => InSomeCell(m)
    <3>1. SUFFICES ASSUME NEW n \in Nodes, NEW i \in 1 .. Length, InCell(m, n, i)' PROVE InSomeCell(m)
      BY DEF InSomeCell
    <3>2. QED  BY <1>3, <3>1 DEF InSomeCell
  <2>4. InSomeCell(m) => InSomeCell(m)'
    <3>1. SUFFICES ASSUME NEW n \in Nodes, NEW i \in 1 .. Length, InCell(m, n, i) PROVE InSomeCell(m)'
      BY DEF InSomeCell
    <3>2. CASE n # k
      BY <1>2, <3>1, <3>2 DEF InCell, InSomeCell
    <3>3. CASE n = k
      <4>1. i - 1 \in 1 .. Length /\ i - 1 \in 1 .. l - 1 /\ cell'[k][i - 1] = m
        BY <1>1, <1>6, <3>1, <3>3, LengthAssumption DEF InCell
      <4>2. InCell(m, k, i - 1)'
        BY <1>1, <4>1 DEF InCell
      <4>3. QED  BY <4>1, <4>2 DEF InSomeCell
    <3>4. QED  BY <3>2, <3>3
  <2>5. QED  BY <1>4, <2>1, <2>2, <2>3, <2>4 DEF Tracked, OneCopy
<1>7. QED  BY <1>5, <1>6

(* Handler g writes the envelope it has in hand. *)
LEMMA WrittenOrStays ==
  ASSUME Types, NEW m \in Msgs, Tracked(m), NEW g \in Handlers, cell' = cell,
         ~InHand(m, g)', \A h \in Handlers \ {g} : InHand(m, h)' <=> InHand(m, h),
         InHand(m, g) => fate'[m] = "written",
         ~InHand(m, g) => fate'[m] = fate[m]
  PROVE  Tracked(m)'
<1>1. CASE InHand(m, g)
  <2>1. ~InSomeCell(m)' /\ ~InSomeHand(m)'
    BY <1>1 DEF Tracked, OneCopy, InSomeCell, InSomeHand, InCell
  <2>2. QED  BY <1>1, <2>1 DEF Tracked, OneCopy, InSomeCell, InSomeHand
<1>2. CASE ~InHand(m, g)
  BY <1>2, StaysInPlace
<1>3. QED  BY <1>1, <1>2

--------------------------------------------------------------------------------
(* Who delivers what: a call goes on with its envelope, of which nothing becomes
   until the call ends. *)
LEMMA SentOnceStays ==
  ASSUME SentOnce,
         \A h \in Handlers :
           Delivering(h)' => /\ Delivering(h) /\ rpc'[h].env = rpc[h].env
                            /\ fate'[rpc[h].env] = fate[rpc[h].env]
  PROVE  SentOnce'
BY DEF SentOnce

(* A step of a handler that no envelope in a hand or a cell notices. *)
LEMMA MailStays ==
  ASSUME MailInv, cell' = cell,
         \A m \in Msgs, h \in Handlers : InHand(m, h)' <=> InHand(m, h),
         \A m \in Msgs : fate'[m] = "queued" <=> fate[m] = "queued",
         SentOnce'
  PROVE  MailInv'
BY StaysInPlace DEF MailInv

LEMMA BuildMail ==
  ASSUME Types, MailInv, NEW u, NEW k \in Nodes, NEW c, Insert(u, k, c),
         \A m \in Msgs : \A i \in 1 .. Len(c) : c[i] # m,
         \A m \in Msgs, h \in Handlers : InHand(m, h)' <=> InHand(m, h),
         \A h \in Handlers : Delivering(h)' => Delivering(h) /\ rpc'[h].env = rpc[h].env
  PROVE  MailInv'
<1>1. \A m \in Msgs : Tracked(m)'
  BY LostOrStays DEF Insert, MailInv
<1>2. ASSUME NEW h \in Handlers, Delivering(h)
      PROVE  fate'[rpc[h].env] = fate[rpc[h].env]
  <2>1. rpc[h].env \in Msgs /\ fate[rpc[h].env] = "sent"
    BY <1>2 DEF MailInv, SentOnce, Delivering, Types, LocalsOK, IsMailFor
  <2>2. ~InSomeCell(rpc[h].env)
    BY <2>1 DEF MailInv, Tracked
  <2>3. rpc[h].env \notin ToSet(cell[k])
    <3>1. DOMAIN cell[k] = 1 .. Len(cell[k]) /\ Len(cell[k]) \in 0 .. Length
      BY DEF Types, TypeOK
    <3>2. QED  BY <2>2, <3>1, LengthAssumption DEF InSomeCell, InCell, ToSet
  <2>4. QED  BY <2>1, <2>3 DEF Insert, LoseMail
<1>3. SentOnce'
  BY <1>2, SentOnceStays DEF MailInv
<1>4. QED  BY <1>1, <1>3 DEF MailInv

LEMMA MovedIsBlank ==
  ASSUME Types, NEW n \in Nodes, NEW m \in Msgs
  PROVE  \A i \in 1 .. Len(Moved(n)) : Moved(n)[i] # m
<1>1. Len(cell[n]) \in Nat
  BY DEF Types, TypeOK
<1>2. CASE Recycle
  BY <1>1, <1>2, ValuesAssumption DEF Moved
<1>3. CASE ~Recycle
  BY <1>3 DEF Moved
<1>4. QED  BY <1>2, <1>3

(* A handler that is about to add or lose nothing starts or goes on. *)
LEMMA RequestMail ==
  ASSUME Types, MailInv, NEW h \in Handlers, Request(h)
  PROVE  MailInv'
<1>. USE DEF Call, Delivering, Receiving, Streaming, InHand, Types, TypeOK, history
<1>1. ASSUME NEW u \in Users,
             AcceptConnection(h, u) \/ ReceiveExit(h, u) \/ StreamIncomingMessages(h, u)
      PROVE  MailInv'
  <2>1. PICK pc \in {"add", "erase", "poll"} :
          rpc' = [rpc EXCEPT ![h] = [pc |-> pc, user |-> u, node |-> NoNode, env |-> Junk]]
    BY <1>1 DEF AcceptConnection, ReceiveExit, StreamIncomingMessages
  <2>2. rpc[h].pc = "idle" /\ UNCHANGED <<cell, fate>>
    BY <1>1 DEF AcceptConnection, ReceiveExit, StreamIncomingMessages
  <2>3. \A m \in Msgs, g \in Handlers : InHand(m, g)' <=> InHand(m, g)
    BY <2>1, <2>2
  <2>4. \A g \in Handlers : Delivering(g)' => Delivering(g) /\ rpc'[g].env = rpc[g].env
    BY <2>1, <2>2
  <2>5. SentOnce'
    BY <2>2, <2>4, SentOnceStays DEF MailInv
  <2>6. QED  BY <2>2, <2>3, <2>5, MailStays
<1>2. ASSUME NEW e \in Msgs, ReceiveMessage(h, e) PROVE MailInv'
  <2>1. /\ rpc' = [rpc EXCEPT ![h] = [pc |-> "online?", user |-> To[e], node |-> NoNode, env |-> e]]
        /\ rpc[h].pc = "idle" /\ fate[e] = "new"
        /\ fate' = [fate EXCEPT ![e] = "sent"] /\ cell' = cell
    BY <1>2 DEF ReceiveMessage
  <2>2. \A m \in Msgs, g \in Handlers : InHand(m, g)' <=> InHand(m, g)
    BY <2>1
  <2>3. \A m \in Msgs : fate'[m] = "queued" <=> fate[m] = "queued"
    BY <2>1
  <2>4. \A g \in Handlers \ {h} : rpc'[g] = rpc[g] /\ (Delivering(g) => rpc[g].env # e)
    BY <2>1 DEF MailInv, SentOnce
  <2>5. \A m \in Msgs \ {e} : fate'[m] = fate[m]
    BY <2>1
  <2>6. \A g \in Handlers : Delivering(g) => rpc[g].env \in Msgs
    BY DEF LocalsOK, IsMailFor
  <2>7. rpc'[h].env = e /\ fate'[e] = "sent"
    BY <2>1
  <2>8. SentOnce'
    <3>. HIDE DEF Delivering
    <3>1. \A g \in Handlers \ {h} : Delivering(g)' <=> Delivering(g)
      BY <2>4 DEF Delivering
    <3>2. QED  BY <2>4, <2>5, <2>6, <2>7, <3>1 DEF MailInv, SentOnce
  <2>9. QED  BY <2>1, <2>2, <2>3, <2>8, MailStays
<1>3. QED  BY <1>1, <1>2 DEF Request

LEMMA HandlerMail ==
  ASSUME Types, MailInv, NEW h \in Handlers, HandlerStep(h)
  PROVE  MailInv'
<1>. USE DEF At, Goto, Finish, Idle, Delivering, Receiving, InHand, Types, TypeOK, history
<1>1. CASE AddUserToConnected(h)
  <2>1. rpc[h].pc = "add" /\ rpc' = [rpc EXCEPT ![h] = Idle] /\ rpc[h].user \in Users
    BY <1>1 DEF AddUserToConnected, LocalsOK
  <2>2. \A m \in Msgs, g \in Handlers : InHand(m, g)' <=> InHand(m, g)
    BY <2>1
  <2>3. \A g \in Handlers : Delivering(g)' => Delivering(g) /\ rpc'[g].env = rpc[g].env
    BY <2>1
  <2>4. CASE Online(rpc[h].user)
    <3>1. UNCHANGED <<cell, fate>>
      BY <1>1, <2>4 DEF AddUserToConnected
    <3>2. SentOnce'
      BY <2>3, <3>1, SentOnceStays DEF MailInv
    <3>3. QED  BY <2>2, <3>1, <3>2, MailStays
  <2>5. CASE ~Online(rpc[h].user)
    <3>1. PICK n \in Allocated : Insert(rpc[h].user, n, Moved(n))
      BY <1>1, <2>5 DEF AddUserToConnected
    <3>2. n \in Nodes
      BY DEF Allocated, Untouched
    <3>3. \A m \in Msgs : \A i \in 1 .. Len(Moved(n)) : Moved(n)[i] # m
      BY <3>2, MovedIsBlank
    <3>4. QED  BY <2>2, <2>3, <3>1, <3>2, <3>3, BuildMail
  <2>6. QED  BY <2>4, <2>5
<1>2. CASE DisconnectUser(h)
  <2>1. rpc[h].pc = "erase" /\ rpc' = [rpc EXCEPT ![h] = Idle] /\ UNCHANGED <<cell, fate>>
    BY <1>2 DEF DisconnectUser
  <2>2. \A m \in Msgs, g \in Handlers : InHand(m, g)' <=> InHand(m, g)
    BY <2>1
  <2>3. \A g \in Handlers : Delivering(g)' => Delivering(g) /\ rpc'[g].env = rpc[g].env
    BY <2>1
  <2>4. SentOnce'
    BY <2>1, <2>3, SentOnceStays DEF MailInv
  <2>5. QED  BY <2>1, <2>2, <2>4, MailStays
<1>3. CASE IsRecipientOnline(h)
  <2>1. /\ rpc[h].pc = "online?" /\ rpc[h].env \in Msgs /\ fate[rpc[h].env] = "sent"
        /\ cell' = cell
    BY <1>3 DEF IsRecipientOnline, LocalsOK, IsMailFor, MailInv, SentOnce
  <2>2. CASE Online(rpc[h].user)
    <3>1. Goto(h, "[]", NoNode, rpc[h].env) /\ fate' = fate
      BY <1>3, <2>2 DEF IsRecipientOnline
    <3>2. \A m \in Msgs, g \in Handlers : InHand(m, g)' <=> InHand(m, g)
      BY <2>1, <3>1
    <3>3. \A g \in Handlers : Delivering(g)' => Delivering(g) /\ rpc'[g].env = rpc[g].env
      BY <2>1, <3>1
    <3>4. SentOnce'
      BY <3>1, <3>3, SentOnceStays DEF MailInv
    <3>5. QED  BY <2>1, <3>1, <3>2, <3>4, MailStays
  <2>3. CASE ~Online(rpc[h].user)
    <3>1. Finish(h) /\ fate' = [fate EXCEPT ![rpc[h].env] = "refused"]
      BY <1>3, <2>3 DEF IsRecipientOnline
    <3>2. \A m \in Msgs, g \in Handlers : InHand(m, g)' <=> InHand(m, g)
      BY <2>1, <3>1
    <3>3. \A g \in Handlers :
            Delivering(g)' => /\ Delivering(g) /\ rpc'[g].env = rpc[g].env
                             /\ rpc[g].env # rpc[h].env
      BY <2>1, <3>1 DEF MailInv, SentOnce
    <3>4. \A m \in Msgs : m # rpc[h].env => fate'[m] = fate[m]
      BY <3>1
    <3>5. \A g \in Handlers : Delivering(g) => rpc[g].env \in Msgs
      BY DEF LocalsOK, IsMailFor
    <3>6. SentOnce'
      <4>. HIDE DEF Delivering
      <4>. QED  BY <3>3, <3>4, <3>5, SentOnceStays DEF MailInv
    <3>7. \A m \in Msgs : fate'[m] = "queued" <=> fate[m] = "queued"
      BY <2>1, <3>1
    <3>8. QED  BY <2>1, <3>2, <3>6, <3>7, MailStays
  <2>4. QED  BY <2>2, <2>3
<1>4. CASE IndexToPush(h) \/ IndexToPop(h)
  <2>1. PICK pc \in {"push", "pop"} :
          /\ rpc' = [rpc EXCEPT ![h] = [pc |-> pc, user |-> rpc[h].user,
                                        node |-> post_box'[rpc[h].user], env |-> rpc[h].env]]
          /\ rpc[h].pc = IF pc = "push" THEN "[]" ELSE "stream[]"
    BY <1>4 DEF IndexToPush, IndexToPop, Index
  <2>2. \A m \in Msgs, g \in Handlers : InHand(m, g)' <=> InHand(m, g)
    BY <2>1
  <2>3. \A g \in Handlers : Delivering(g)' => Delivering(g) /\ rpc'[g].env = rpc[g].env
    BY <2>1
  <2>4. CASE Online(rpc[h].user)
    <3>1. UNCHANGED <<cell, fate>>
      BY <1>4, <2>4 DEF IndexToPush, IndexToPop, Index
    <3>2. SentOnce'
      BY <2>3, <3>1, SentOnceStays DEF MailInv
    <3>3. QED  BY <2>2, <3>1, <3>2, MailStays
  <2>5. CASE ~Online(rpc[h].user)
    <3>1. PICK n \in Allocated : Insert(rpc[h].user, n, <<>>)
      BY <1>4, <2>5 DEF IndexToPush, IndexToPop, Index
    <3>2. n \in Nodes /\ \A m \in Msgs : \A i \in 1 .. Len(<<>>) : <<>>[i] # m
      BY DEF Allocated, Untouched
    <3>3. QED  BY <2>2, <2>3, <3>1, <3>2, BuildMail
  <2>6. QED  BY <2>4, <2>5
<1>5. CASE PushEnvelope(h)
  <2>. DEFINE n == rpc[h].node
              e == rpc[h].env
  <2>1. /\ rpc[h].pc = "push" /\ rpc' = [rpc EXCEPT ![h] = Idle]
        /\ n \in Nodes /\ e \in Msgs /\ fate[e] = "sent"
    BY <1>5 DEF PushEnvelope, LocalsOK, IsMailFor, Calls, MailInv, SentOnce
  <2>2. \A m \in Msgs, g \in Handlers : InHand(m, g)' <=> InHand(m, g)
    BY <2>1
  <2>3. \A g \in Handlers :
          Delivering(g)' => Delivering(g) /\ rpc'[g].env = rpc[g].env /\ rpc[g].env # e
    BY <2>1 DEF MailInv, SentOnce
  <2>4. PICK f \in {"queued", "refused"} : fate' = [fate EXCEPT ![e] = f]
    BY <1>5 DEF PushEnvelope
  <2>5. \A g \in Handlers : Delivering(g) => rpc[g].env \in Msgs
    BY DEF LocalsOK, IsMailFor
  <2>6. \A m \in Msgs : m # e => fate'[m] = fate[m]
    BY <2>4
  <2>7. SentOnce'
    <3>. HIDE DEF Delivering, e
    <3>. QED  BY <2>3, <2>5, <2>6, SentOnceStays DEF MailInv
  <2>8. CASE HasRoom(n)
    <3>1. /\ cell' = [cell EXCEPT ![n] = Append(@, e)]
          /\ fate' = [fate EXCEPT ![e] = "queued"] /\ fate[e] # "queued"
      BY <1>5, <2>1, <2>8 DEF PushEnvelope
    <3>. HIDE DEF n, e
    <3>2. \A m \in Msgs : Tracked(m)'
      BY <2>1, <2>2, <2>8, <3>1, PushedOrStays DEF MailInv
    <3>3. QED  BY <2>7, <3>2 DEF MailInv
  <2>9. CASE ~HasRoom(n)
    <3>1. cell' = cell /\ fate' = [fate EXCEPT ![e] = "refused"]
      BY <1>5, <2>9 DEF PushEnvelope
    <3>2. \A m \in Msgs : fate'[m] = "queued" <=> fate[m] = "queued"
      BY <2>1, <3>1
    <3>3. QED  BY <2>2, <2>7, <3>1, <3>2, MailStays
  <2>10. QED  BY <2>8, <2>9
<1>6. CASE Poll(h)
  <2>1. rpc[h].pc = "poll" /\ UNCHANGED <<cell, fate>>
    BY <1>6 DEF Poll
  <2>2. PICK l \in {Idle, [pc |-> "stream[]", user |-> rpc[h].user, node |-> NoNode, env |-> Junk]} :
          rpc' = [rpc EXCEPT ![h] = l]
    BY <1>6 DEF Poll
  <2>3. l.pc \in {"idle", "stream[]"}
    OBVIOUS
  <2>4. /\ \A m \in Msgs, g \in Handlers : InHand(m, g)' <=> InHand(m, g)
        /\ \A g \in Handlers : Delivering(g)' => Delivering(g) /\ rpc'[g].env = rpc[g].env
    BY <2>1, <2>2, <2>3
  <2>5. SentOnce'
    BY <2>1, <2>4, SentOnceStays DEF MailInv
  <2>6. QED  BY <2>1, <2>4, <2>5, MailStays
<1>7. CASE PopEnvelope(h)
  <2>. DEFINE n == rpc[h].node
  <2>1. rpc[h].pc = "pop" /\ n \in Nodes /\ fate' = fate
    BY <1>7 DEF PopEnvelope, LocalsOK, Calls
  <2>2. PICK pc \in {"poll", "write"} : \E e : Goto(h, pc, NoNode, e)
    BY <1>7 DEF PopEnvelope
  <2>3. \A g \in Handlers : Delivering(g)' => Delivering(g) /\ rpc'[g].env = rpc[g].env
    BY <2>1, <2>2
  <2>4. SentOnce'
    BY <2>1, <2>3, SentOnceStays DEF MailInv
  <2>5. CASE cell[n] = <<>>
    <3>1. Goto(h, "poll", NoNode, Junk) /\ cell' = cell
      BY <1>7, <2>5 DEF PopEnvelope
    <3>2. \A m \in Msgs, g \in Handlers : InHand(m, g)' <=> InHand(m, g)
      BY <2>1, <3>1
    <3>3. QED  BY <2>1, <2>4, <3>1, <3>2, MailStays
  <2>6. CASE cell[n] # <<>>
    <3>1. /\ Goto(h, "write", NoNode, Head(cell[n]))
          /\ cell' = [cell EXCEPT ![n] = Tail(cell[n])]
      BY <1>7, <2>6 DEF PopEnvelope, Oldest, Rest
    <3>2. /\ \A m \in Msgs : ~InHand(m, h) /\ (InHand(m, h)' <=> m = Head(cell[n]))
          /\ \A m \in Msgs, g \in Handlers \ {h} : InHand(m, g)' <=> InHand(m, g)
      BY <2>1, <3>1
    <3>. HIDE DEF n, InHand
    <3>3. \A m \in Msgs : Tracked(m)'
      BY <2>1, <2>6, <3>1, <3>2, PoppedOrStays DEF MailInv
    <3>4. QED  BY <2>4, <3>3 DEF MailInv
  <2>7. QED  BY <2>5, <2>6
<1>8. CASE WriteEnvelope(h)
  <2>. DEFINE e == rpc[h].env
  <2>1. rpc[h].pc = "write" /\ cell' = cell /\ Goto(h, "poll", NoNode, Junk)
    BY <1>8 DEF WriteEnvelope
  <2>2. /\ \A m \in Msgs : ~InHand(m, h)' /\ (InHand(m, h) <=> m = e)
        /\ \A m \in Msgs, g \in Handlers \ {h} : InHand(m, g)' <=> InHand(m, g)
    BY <2>1
  <2>3. \A m \in Msgs : fate'[m] = IF m = e THEN "written" ELSE fate[m]
    <3>1. fate' = IF e \in Msgs THEN [fate EXCEPT ![e] = "written"] ELSE fate
      BY <1>8 DEF WriteEnvelope
    <3>. HIDE DEF e
    <3>2. CASE e \in Msgs
      BY <3>1, <3>2
    <3>3. CASE e \notin Msgs
      BY <3>1, <3>3
    <3>4. QED  BY <3>2, <3>3
  <2>4. \A g \in Handlers : Delivering(g)' => Delivering(g) /\ rpc'[g].env = rpc[g].env
    BY <2>1
  <2>5. \A g \in Handlers : Delivering(g) => rpc[g].env \in Msgs /\ rpc[g].env # e
    <3>1. \A g \in Handlers : Delivering(g) => rpc[g].env \in Msgs /\ fate[rpc[g].env] = "sent"
      BY DEF LocalsOK, IsMailFor, MailInv, SentOnce
    <3>2. e \in Msgs => fate[e] = "queued"
      BY <2>1 DEF MailInv, Tracked, InSomeHand
    <3>3. QED  BY <3>1, <3>2
  <2>. HIDE DEF e, InHand, Delivering
  <2>6. SentOnce'
    BY <2>3, <2>4, <2>5, SentOnceStays DEF MailInv
  <2>7. \A m \in Msgs : Tracked(m)'
    BY <2>1, <2>2, <2>3, WrittenOrStays DEF MailInv
  <2>8. QED  BY <2>6, <2>7 DEF MailInv
<1>9. QED
  BY <1>1, <1>2, <1>3, <1>4, <1>5, <1>6, <1>7, <1>8 DEF HandlerStep

LEMMA StepMail ==
  ASSUME Types, MailInv, [Next]_vars
  PROVE  MailInv'
<1>1. CASE \E h \in Handlers : Request(h) \/ HandlerStep(h)
  BY <1>1, RequestMail, HandlerMail
<1>2. CASE UNCHANGED <<cell, rpc, fate>>
  <2>1. \A m \in Msgs, h \in Handlers : InHand(m, h)' <=> InHand(m, h)
    BY <1>2 DEF InHand
  <2>2. SentOnce'
    BY <1>2, SentOnceStays DEF MailInv, Delivering
  <2>3. QED  BY <1>2, <2>1, <2>2, MailStays
<1>3. QED  BY <1>1, <1>2 DEF Next, Abort, vars, history

(* The places of an envelope are those it is at, and there is one, or none. *)
LEMMA PlacesFound ==
  ASSUME Types, NEW m \in Msgs
  PROVE  \A p : p \in Places(m) <=>
           \/ \E n \in Nodes, i \in 1 .. Length : p = <<n, i>> /\ InCell(m, n, i)
           \/ \E h \in Handlers : p = <<h, 0>> /\ InHand(m, h)
<1>1. \A n \in Nodes : Len(cell[n]) \in 0 .. Length
  BY LengthAssumption DEF Types, TypeOK
<1>2. \A h : Held(h) = <<m>> <=> InHand(m, h)
  BY DEF Held, InHand
<1>3. ASSUME NEW n \in Nodes, NEW i \in 1 .. Length
      PROVE  InCell(m, n, i) <=> i <= Len(cell[n]) /\ cell[n][i] = m
  BY <1>1, LengthAssumption DEF InCell
<1>4. QED  BY <1>2, <1>3 DEF Places

LEMMA PlacesFilled ==
  ASSUME Types, NEW m \in Msgs, Tracked(m)
  PROVE  Places(m) # {} <=> fate[m] = "queued"
BY PlacesFound DEF Tracked, InSomeCell, InSomeHand

LEMMA PlacesCounted ==
  ASSUME Types, NEW m \in Msgs, Tracked(m)
  PROVE  Cardinality(Places(m)) = IF fate[m] = "queued" THEN 1 ELSE 0
<1>1. CASE fate[m] = "queued"
  <2>1. PICK p : p \in Places(m)
    BY <1>1, PlacesFilled
  <2>2. ASSUME NEW q \in Places(m) PROVE q = p
    BY PlacesFound, <2>1, <2>2 DEF Tracked, OneCopy, InSomeCell, InSomeHand
  <2>3. Places(m) = {p}
    BY <2>1, <2>2
  <2>4. QED  BY <1>1, <2>3, FS_Singleton
<1>2. CASE fate[m] # "queued"
  <2>1. Places(m) = {}
    BY <1>2, PlacesFilled
  <2>2. QED  BY <1>2, <2>1, FS_EmptySet
<1>3. QED  BY <1>1, <1>2

(* Whatever calls, streams, logins and logouts run at once, and wherever the heap puts
   an entry: an accepted envelope is in one place until it is written or freed with its
   cell, and a refused one is nowhere (GrpcServer.cpp:63-73, 96-105). *)
THEOREM MailIsAccountedFor == Spec => []MailAccounted
<1>1. Init => Types /\ MailInv
  BY InitTypes, InitMail
<1>2. Types /\ MailInv /\ [Next]_vars => (Types /\ MailInv)'
  BY StepTypes, StepMail
<1>3. Types /\ MailInv => MailAccounted
  BY PlacesCounted DEF MailInv, MailAccounted
<1>4. QED  BY <1>1, <1>2, <1>3, PTL DEF Spec

--------------------------------------------------------------------------------
(* Suffixes of sequences, and sequences with elements left out. *)

LEMMA ReverseElements ==
  ASSUME NEW S, NEW s \in Seq(S)
  PROVE  /\ Reverse(s) \in Seq(S) /\ Len(Reverse(s)) = Len(s)
         /\ \A i \in 1 .. Len(s) : Reverse(s)[i] = s[Len(s) - i + 1]
<1>1. Len(s) \in Nat /\ \A i \in 1 .. Len(s) : (Len(s) - i) + 1 \in 1 .. Len(s)
  OBVIOUS
<1>2. Reverse(s) \in [1 .. Len(s) -> S]
  BY <1>1 DEF Reverse
<1>3. Reverse(s) \in Seq(S) /\ Len(Reverse(s)) = Len(s)
  BY <1>1, <1>2
<1>4. QED  BY <1>1, <1>3 DEF Reverse

LEMMA SuffixElements ==
  ASSUME NEW S, NEW s \in Seq(S), NEW t \in Seq(S)
  PROVE  IsSuffix(s, t) <=> /\ Len(s) <= Len(t)
                            /\ \A i \in 1 .. Len(s) : s[i] = t[Len(t) - Len(s) + i]
<1>. DEFINE r == Reverse(s)
            q == Reverse(t)
            n == Len(s)
<1>1. /\ r \in Seq(S) /\ Len(r) = n /\ \A i \in 1 .. n : r[i] = s[n - i + 1]
      /\ q \in Seq(S) /\ Len(q) = Len(t) /\ \A i \in 1 .. Len(t) : q[i] = t[Len(t) - i + 1]
  BY ReverseElements
<1>2. n \in Nat /\ Len(t) \in Nat
  OBVIOUS
<1>. HIDE DEF r, q
<1>3. SUFFICES ASSUME n <= Len(t)
               PROVE  SubSeq(r, 1, n) = SubSeq(q, 1, n)
                        <=> \A i \in 1 .. n : s[i] = t[Len(t) - n + i]
  BY <1>1 DEF IsSuffix, IsPrefix, r, q
<1>4. /\ SubSeq(r, 1, n) \in Seq(S) /\ Len(SubSeq(r, 1, n)) = n
      /\ \A i \in 1 .. n : SubSeq(r, 1, n)[i] = r[i]
      /\ SubSeq(q, 1, n) \in Seq(S) /\ Len(SubSeq(q, 1, n)) = n
      /\ \A i \in 1 .. n : SubSeq(q, 1, n)[i] = q[i]
  BY <1>1, <1>2, <1>3
<1>5. SubSeq(r, 1, n) = SubSeq(q, 1, n) <=> \A i \in 1 .. n : r[i] = q[i]
  BY <1>4, SeqEqual
<1>6. \A i \in 1 .. n : n - i + 1 \in 1 .. n /\ n - (n - i + 1) + 1 = i
  BY <1>2
<1>7. ASSUME \A i \in 1 .. n : r[i] = q[i], NEW i \in 1 .. n
      PROVE  s[i] = t[Len(t) - n + i]
  <2>1. r[n - i + 1] = s[i]
    BY <1>1, <1>6
  <2>2. q[n - i + 1] = t[Len(t) - (n - i + 1) + 1] /\ Len(t) - (n - i + 1) + 1 = Len(t) - n + i
    BY <1>1, <1>2, <1>3
  <2>3. QED  BY <1>6, <1>7, <2>1, <2>2
<1>8. ASSUME \A i \in 1 .. n : s[i] = t[Len(t) - n + i], NEW i \in 1 .. n
      PROVE  r[i] = q[i]
  <2>1. r[i] = t[Len(t) - n + (n - i + 1)]
    BY <1>1, <1>6, <1>8
  <2>2. Len(t) - n + (n - i + 1) = Len(t) - i + 1
    BY <1>2
  <2>3. q[i] = t[Len(t) - i + 1]
    BY <1>1, <1>2, <1>3
  <2>4. QED  BY <2>1, <2>2, <2>3
<1>9. QED  BY <1>5, <1>7, <1>8

LEMMA SuffixAppend ==
  ASSUME NEW S, NEW s \in Seq(S), NEW t \in Seq(S), NEW e \in S, IsSuffix(s, t)
  PROVE  IsSuffix(Append(s, e), Append(t, e))
<1>. DEFINE a == Append(s, e)
            b == Append(t, e)
<1>1. Len(s) \in Nat /\ Len(t) \in Nat /\ Len(s) <= Len(t)
      /\ \A i \in 1 .. Len(s) : s[i] = t[Len(t) - Len(s) + i]
  BY SuffixElements
<1>2. /\ a \in Seq(S) /\ Len(a) = Len(s) + 1
      /\ b \in Seq(S) /\ Len(b) = Len(t) + 1
  OBVIOUS
<1>3. ASSUME NEW i \in 1 .. Len(s) + 1 PROVE a[i] = b[Len(t) - Len(s) + i]
  BY <1>1
<1>. HIDE DEF a, b
<1>4. Len(b) - Len(a) = Len(t) - Len(s)
  BY <1>1, <1>2
<1>5. Len(a) <= Len(b) /\ \A i \in 1 .. Len(a) : a[i] = b[Len(b) - Len(a) + i]
  BY <1>1, <1>2, <1>3, <1>4
<1>6. IsSuffix(a, b)
  BY <1>2, <1>5, SuffixElements
<1>7. QED  BY <1>6 DEF a, b

LEMMA SuffixTail ==
  ASSUME NEW S, NEW s \in Seq(S), NEW t \in Seq(S), s # <<>>, IsSuffix(s, t)
  PROVE  IsSuffix(Tail(s), t)
<1>1. /\ Len(s) \in Nat /\ Len(t) \in Nat /\ Len(s) <= Len(t)
      /\ \A i \in 1 .. Len(s) : s[i] = t[Len(t) - Len(s) + i]
  BY SuffixElements
<1>2. /\ Tail(s) \in Seq(S) /\ Len(Tail(s)) = Len(s) - 1
      /\ \A i \in 1 .. Len(s) - 1 : Tail(s)[i] = s[i + 1]
  BY HeadTailProperties
<1>3. ASSUME NEW i \in 1 .. Len(s) - 1
      PROVE  Tail(s)[i] = t[Len(t) - (Len(s) - 1) + i]
  <2>1. Tail(s)[i] = t[Len(t) - Len(s) + (i + 1)]
    BY <1>1, <1>2
  <2>2. QED  BY <1>1, <2>1
<1>. DEFINE r == Tail(s)
<1>. HIDE DEF r
<1>4. /\ r \in Seq(S) /\ Len(r) <= Len(t)
      /\ \A i \in 1 .. Len(r) : r[i] = t[Len(t) - Len(r) + i]
  BY <1>1, <1>2, <1>3 DEF r
<1>5. IsSuffix(r, t)
  BY <1>4, SuffixElements
<1>6. QED  BY <1>5 DEF r

LEMMA SuffixInOrder ==
  ASSUME NEW S, NEW s \in Seq(S), NEW t \in Seq(S), IsSuffix(s, t)
  PROVE  IsInOrder(s, t)
<1>. DEFINE f == [i \in 1 .. Len(s) |-> Len(t) - Len(s) + i]
<1>1. /\ Len(s) \in Nat /\ Len(t) \in Nat /\ Len(s) <= Len(t)
      /\ \A i \in 1 .. Len(s) : s[i] = t[Len(t) - Len(s) + i]
  BY SuffixElements
<1>2. f \in [1 .. Len(s) -> 1 .. Len(t)]
  BY <1>1
<1>3. \A i \in 1 .. Len(s) : s[i] = t[f[i]]
  BY <1>1
<1>4. \A i, j \in 1 .. Len(s) : i < j => f[i] < f[j]
  BY <1>1
<1>5. QED  BY <1>2, <1>3, <1>4 DEF IsInOrder

LEMMA InOrderAppend ==
  ASSUME NEW S, NEW s \in Seq(S), NEW t \in Seq(S), NEW e \in S, IsInOrder(s, t)
  PROVE  IsInOrder(Append(s, e), Append(t, e))
<1>1. PICK f \in [1 .. Len(s) -> 1 .. Len(t)] :
        /\ \A i \in 1 .. Len(s) : s[i] = t[f[i]]
        /\ \A i, j \in 1 .. Len(s) : i < j => f[i] < f[j]
  BY DEF IsInOrder
<1>. DEFINE g == [i \in 1 .. Len(s) + 1 |-> IF i = Len(s) + 1 THEN Len(t) + 1 ELSE f[i]]
<1>2. /\ Len(s) \in Nat /\ Len(t) \in Nat
      /\ Len(Append(s, e)) = Len(s) + 1 /\ Len(Append(t, e)) = Len(t) + 1
      /\ \A i \in 1 .. Len(s) : f[i] \in 1 .. Len(t)
  OBVIOUS
<1>3. g \in [1 .. Len(s) + 1 -> 1 .. Len(t) + 1]
  BY <1>2
<1>4. \A i \in 1 .. Len(s) + 1 : Append(s, e)[i] = Append(t, e)[g[i]]
  BY <1>1, <1>2
<1>5. \A i, j \in 1 .. Len(s) + 1 : i < j => g[i] < g[j]
  <2>1. ASSUME NEW i \in 1 .. Len(s) + 1, NEW j \in 1 .. Len(s) + 1, i < j PROVE g[i] < g[j]
    <3>1. i \in 1 .. Len(s) /\ g[i] = f[i]
      BY <1>2, <2>1
    <3>2. CASE j = Len(s) + 1
      BY <1>2, <3>1, <3>2
    <3>3. CASE j \in 1 .. Len(s)
      BY <1>1, <1>2, <2>1, <3>1, <3>3
    <3>4. QED  BY <1>2, <3>2, <3>3
  <2>2. QED  BY <2>1
<1>. HIDE DEF g
<1>6. QED  BY <1>2, <1>3, <1>4, <1>5 DEF IsInOrder

(* Leaving out the element between p and what follows. *)
LEMMA InOrderDrop ==
  ASSUME NEW S, NEW p \in Seq(S), NEW c \in Seq(S), NEW t \in Seq(S), c # <<>>,
         IsInOrder(p \o c, t)
  PROVE  IsInOrder(p \o Tail(c), t)
<1>. DEFINE s == p \o c
            d == p \o Tail(c)
            n == Len(d)
<1>1. /\ s \in Seq(S) /\ Len(s) = Len(p) + Len(c)
      /\ \A i \in 1 .. Len(p) + Len(c) : s[i] = IF i <= Len(p) THEN p[i] ELSE c[i - Len(p)]
  BY ConcatProperties
<1>2. /\ Tail(c) \in Seq(S) /\ Len(Tail(c)) = Len(c) - 1
      /\ \A i \in 1 .. Len(c) - 1 : Tail(c)[i] = c[i + 1]
  BY HeadTailProperties
<1>3. /\ d \in Seq(S) /\ n = Len(p) + (Len(c) - 1)
      /\ \A i \in 1 .. n : d[i] = IF i <= Len(p) THEN p[i] ELSE Tail(c)[i - Len(p)]
  BY <1>2, ConcatProperties
<1>4. Len(p) \in Nat /\ Len(c) \in Nat /\ Len(t) \in Nat
  OBVIOUS
<1>. HIDE DEF s, d
<1>5. PICK f \in [1 .. Len(s) -> 1 .. Len(t)] :
        /\ \A i \in 1 .. Len(s) : s[i] = t[f[i]]
        /\ \A i, j \in 1 .. Len(s) : i < j => f[i] < f[j]
  BY DEF IsInOrder, s
<1>. DEFINE past(i) == IF i <= Len(p) THEN i ELSE i + 1
            g == [i \in 1 .. n |-> f[past(i)]]
<1>6. /\ n \in Nat /\ Len(s) = n + 1
      /\ \A i \in 1 .. n : past(i) \in 1 .. Len(s)
      /\ \A i, j \in 1 .. n : i < j => past(i) < past(j)
  <2>. HIDE DEF n
  <2>. QED  BY <1>1, <1>3, <1>4
<1>7. \A i \in 1 .. n : d[i] = s[past(i)]
  <2>1. TAKE i \in 1 .. n
  <2>2. CASE i <= Len(p)
    BY <1>1, <1>3, <1>4, <1>6, <2>2
  <2>3. CASE i > Len(p)
    <3>1. i - Len(p) \in 1 .. Len(c) - 1 /\ i + 1 \in 1 .. Len(p) + Len(c)
      BY <1>3, <1>4, <1>6, <2>3
    <3>2. d[i] = c[i - Len(p) + 1]
      BY <1>2, <1>3, <1>4, <2>3, <3>1
    <3>3. s[i + 1] = c[i + 1 - Len(p)] /\ i + 1 - Len(p) = i - Len(p) + 1
      BY <1>1, <1>4, <2>3, <3>1
    <3>4. QED  BY <1>4, <2>3, <3>2, <3>3
  <2>4. QED  BY <1>4, <1>6, <2>2, <2>3
<1>. HIDE DEF n, past
<1>8. g \in [1 .. n -> 1 .. Len(t)]
  BY <1>6
<1>9. /\ \A i \in 1 .. n : d[i] = t[g[i]]
      /\ \A i, j \in 1 .. n : i < j => g[i] < g[j]
  BY <1>5, <1>6, <1>7
<1>10. QED  BY <1>8, <1>9 DEF IsInOrder, n, d

--------------------------------------------------------------------------------
(* Order.  While a user's first session lasts, the user has one entry, and every handler
   that has found a node for the user has found that one. *)
Found(h) == rpc[h].pc \in {"[]", "push", "stream[]", "pop", "write"}

OneEntry ==
  /\ OnlineOnlyAfterLogin
  /\ \A h \in Handlers : Found(h) => session[rpc[h].user] # "never"
  /\ \A u \in Users : session[u] = "first" => Online(u)
  /\ \A h \in Handlers :
       rpc[h].pc \in {"push", "pop"} /\ session[rpc[h].user] = "first" =>
         rpc[h].node = post_box[rpc[h].user]

(* What a stream has passed to Write is forgotten when it ends, and is nothing before
   its user has logged in. *)
WrittenOK ==
  \A h \in Handlers :
    rpc[h].pc \notin Streaming \/ session[rpc[h].user] = "never" => written[h] = <<>>

LEMMA InitEntries == ASSUME Init PROVE OneEntry /\ WrittenOK
BY DEF Init, OneEntry, OnlineOnlyAfterLogin, Found, WrittenOK, Online, Idle

LEMMA EntryStays ==
  ASSUME OneEntry, post_box' = post_box, session' = session,
         \A h \in Handlers :
           rpc'[h].pc \in {"push", "pop"} =>
             rpc'[h] = rpc[h] \/ rpc'[h].node = post_box[rpc'[h].user],
         \A h \in Handlers :
           Found(h)' => \/ Found(h) /\ rpc'[h].user = rpc[h].user
                        \/ rpc'[h].user \in Users /\ Online(rpc'[h].user)
  PROVE  OneEntry'
<1>1. \A u \in Users : Online(u)' <=> Online(u)
  BY DEF Online
<1>2. OnlineOnlyAfterLogin' /\ \A u \in Users : session'[u] = "first" => Online(u)'
  BY <1>1 DEF OneEntry, OnlineOnlyAfterLogin
<1>3. \A h \in Handlers : Found(h)' => session'[rpc'[h].user] # "never"
  BY DEF OneEntry, OnlineOnlyAfterLogin
<1>4. \A h \in Handlers :
        rpc'[h].pc \in {"push", "pop"} /\ session'[rpc'[h].user] = "first" =>
          rpc'[h].node = post_box'[rpc'[h].user]
  BY DEF OneEntry
<1>5. QED  BY <1>2, <1>3, <1>4 DEF OneEntry

LEMMA StepEntry ==
  ASSUME Types, OneEntry, [Next]_vars
  PROVE  OneEntry'
<1>. USE ValuesAssumption
<1>. USE DEF Call, At, Goto, Finish, Idle, Types, TypeOK, LocalsOK, Receiving, Found, history
<1>1. ASSUME NEW h \in Handlers, Request(h) PROVE OneEntry'
  <2>1. PICK pc \in {"add", "erase", "poll", "online?"} : \E u, e : Call(h, pc, u, e)
    BY <1>1 DEF Request, AcceptConnection, ReceiveExit, StreamIncomingMessages, ReceiveMessage
  <2>2. UNCHANGED <<post_box, session>>
    BY <1>1 DEF Request, AcceptConnection, ReceiveExit, StreamIncomingMessages, ReceiveMessage
  <2>3. rpc'[h].pc = pc /\ \A g \in Handlers \ {h} : rpc'[g] = rpc[g]
    BY <2>1
  <2>4. QED  BY <2>2, <2>3, EntryStays
<1>2. ASSUME NEW h \in Handlers, AddUserToConnected(h) PROVE OneEntry'
  <2>. DEFINE u == rpc[h].user
  <2>1. /\ u \in Users /\ rpc' = [rpc EXCEPT ![h] = Idle]
        /\ rpc[h].pc = "add" /\ LogsIn(u)
    BY <1>2 DEF AddUserToConnected
  <2>2. \/ Online(u) /\ post_box' = post_box
        \/ ~Online(u) /\ \E n \in Nodes : post_box' = [post_box EXCEPT ![u] = n]
    BY <1>2 DEF AddUserToConnected, Insert, Allocated, Untouched
  <2>3. /\ session'[u] # "never" /\ \A w \in Users \ {u} : session'[w] = session[w]
        /\ session'[u] = "first" => session[u] \in {"never", "first"}
    BY <2>1 DEF LogsIn
  <2>4. post_box'[u] # NoNode /\ \A w \in Users \ {u} : post_box'[w] = post_box[w]
    BY <2>1, <2>2 DEF Online
  <2>5. OnlineOnlyAfterLogin' /\ \A w \in Users : session'[w] = "first" => Online(w)'
    BY <2>3, <2>4 DEF OneEntry, OnlineOnlyAfterLogin, Online
  <2>6. \A g \in Handlers : Found(g)' => g # h /\ rpc'[g] = rpc[g] /\ rpc[g].user \in Users
    BY <2>1
  <2>7. \A g \in Handlers : Found(g)' => session'[rpc'[g].user] # "never"
    BY <2>3, <2>6 DEF OneEntry
  <2>8. ASSUME NEW g \in Handlers, rpc'[g].pc \in {"push", "pop"},
               session'[rpc'[g].user] = "first"
        PROVE  rpc'[g].node = post_box'[rpc'[g].user]
    <3>1. Found(g)' /\ rpc'[g] = rpc[g] /\ rpc[g].user \in Users
      BY <2>6, <2>8
    <3>2. session[rpc[g].user] = "first"
      BY <2>3, <2>8, <3>1 DEF OneEntry
    <3>3. rpc[g].node = post_box[rpc[g].user] /\ Online(rpc[g].user)
      BY <2>8, <3>1, <3>2 DEF OneEntry
    <3>4. QED  BY <2>2, <2>4, <3>1, <3>3
  <2>9. QED  BY <2>5, <2>7, <2>8 DEF OneEntry
<1>3. ASSUME NEW h \in Handlers, DisconnectUser(h) PROVE OneEntry'
  <2>. DEFINE u == rpc[h].user
  <2>1. /\ u \in Users /\ rpc' = [rpc EXCEPT ![h] = Idle]
        /\ post_box' = [post_box EXCEPT ![u] = NoNode]
    BY <1>3 DEF DisconnectUser
  <2>2. /\ \A w \in Users \ {u} : session'[w] = session[w]
        /\ session'[u] \in {"never", "out"} /\ (session'[u] = "never" => session[u] = "never")
    BY <1>3, <2>1 DEF DisconnectUser
  <2>3. OnlineOnlyAfterLogin' /\ \A w \in Users : session'[w] = "first" => Online(w)'
    BY <2>1, <2>2 DEF OneEntry, OnlineOnlyAfterLogin, Online
  <2>4. \A g \in Handlers : Found(g)' => g # h /\ rpc'[g] = rpc[g] /\ rpc[g].user \in Users
    BY <2>1
  <2>5. \A g \in Handlers : Found(g)' => session'[rpc'[g].user] # "never"
    BY <2>2, <2>4 DEF OneEntry
  <2>6. \A g \in Handlers :
          rpc'[g].pc \in {"push", "pop"} /\ session'[rpc'[g].user] = "first" =>
            rpc'[g].node = post_box'[rpc'[g].user]
    BY <2>1, <2>2, <2>4 DEF OneEntry
  <2>7. QED  BY <2>3, <2>5, <2>6 DEF OneEntry
<1>4. ASSUME NEW h \in Handlers, IsRecipientOnline(h) PROVE OneEntry'
  <2>1. UNCHANGED <<post_box, session>> /\ rpc[h].user \in Users
    BY <1>4 DEF IsRecipientOnline
  <2>2. CASE Online(rpc[h].user)
    <3>1. Goto(h, "[]", NoNode, rpc[h].env)
      BY <1>4, <2>2 DEF IsRecipientOnline
    <3>2. QED  BY <2>1, <2>2, <3>1, EntryStays
  <2>3. CASE ~Online(rpc[h].user)
    <3>1. Finish(h)
      BY <1>4, <2>3 DEF IsRecipientOnline
    <3>2. QED  BY <2>1, <3>1, EntryStays
  <2>4. QED  BY <2>2, <2>3
<1>5. ASSUME NEW h \in Handlers, IndexToPush(h) \/ IndexToPop(h) PROVE OneEntry'
  <2>. DEFINE u == rpc[h].user
  <2>1. u \in Users /\ session' = session /\ Found(h)
    BY <1>5 DEF IndexToPush, IndexToPop, Index
  <2>2. PICK pc \in {"push", "pop"} : Goto(h, pc, post_box'[u], rpc[h].env)
    BY <1>5 DEF IndexToPush, IndexToPop, Index
  <2>3. /\ rpc'[h].user = u /\ rpc'[h].node = post_box'[u]
        /\ \A g \in Handlers \ {h} : rpc'[g] = rpc[g]
    BY <2>2
  <2>4. CASE Online(u)
    <3>1. post_box' = post_box
      BY <1>5, <2>4 DEF IndexToPush, IndexToPop, Index
    <3>2. QED  BY <2>1, <2>3, <3>1, EntryStays
  <2>5. CASE ~Online(u)
    <3>1. PICK n \in Nodes : post_box' = [post_box EXCEPT ![u] = n]
      BY <1>5, <2>5 DEF IndexToPush, IndexToPop, Index, Insert, Allocated, Untouched
    <3>2. session[u] \notin {"never", "first"}
      BY <2>1, <2>5 DEF OneEntry
    <3>3. \A w \in Users \ {u} : post_box'[w] = post_box[w]
      BY <3>1
    <3>4. OnlineOnlyAfterLogin' /\ \A w \in Users : session'[w] = "first" => Online(w)'
      BY <2>1, <3>2, <3>3 DEF OneEntry, OnlineOnlyAfterLogin, Online
    <3>5. \A g \in Handlers : Found(g)' => Found(g) /\ rpc'[g].user = rpc[g].user
      BY <2>1, <2>3
    <3>6. \A g \in Handlers : Found(g)' => session'[rpc'[g].user] # "never"
      BY <2>1, <3>5 DEF OneEntry
    <3>7. \A g \in Handlers :
            rpc'[g].pc \in {"push", "pop"} /\ session'[rpc'[g].user] = "first" =>
              rpc'[g].node = post_box'[rpc'[g].user]
      <4>1. \A g \in Handlers \ {h} : rpc[g].pc \in {"push", "pop"} => rpc[g].user \in Users
        OBVIOUS
      <4>2. \A g \in Handlers \ {h} :
              rpc[g].pc \in {"push", "pop"} /\ session[rpc[g].user] = "first" =>
                rpc[g].node = post_box[rpc[g].user] /\ rpc[g].user \in Users \ {u}
        <5>. HIDE DEF u
        <5>. QED  BY <3>2, <4>1 DEF OneEntry
      <4>3. session' = session /\ session[u] # "first" /\ rpc'[h].user = u
        BY <2>1, <2>3, <3>2
      <4>4. \A g \in Handlers : g = h \/ (g \in Handlers \ {h} /\ rpc'[g] = rpc[g])
        BY <2>3
      <4>. HIDE DEF u, Types
      <4>5. QED  BY <3>3, <4>2, <4>3, <4>4
    <3>8. QED  BY <3>4, <3>6, <3>7 DEF OneEntry
  <2>6. QED  BY <2>4, <2>5
<1>6. ASSUME NEW h \in Handlers, PushEnvelope(h) PROVE OneEntry'
  <2>1. UNCHANGED <<post_box, session>> /\ Finish(h)
    BY <1>6 DEF PushEnvelope
  <2>2. QED  BY <2>1, EntryStays
<1>7. ASSUME NEW h \in Handlers, Poll(h) PROVE OneEntry'
  <2>1. UNCHANGED <<post_box, session>> /\ rpc[h].user \in Users
    BY <1>7 DEF Poll
  <2>2. CASE Online(rpc[h].user)
    <3>1. Goto(h, "stream[]", NoNode, Junk)
      BY <1>7, <2>2 DEF Poll
    <3>2. QED  BY <2>1, <2>2, <3>1, EntryStays
  <2>3. CASE ~Online(rpc[h].user)
    <3>1. Finish(h)
      BY <1>7, <2>3 DEF Poll
    <3>2. QED  BY <2>1, <3>1, EntryStays
  <2>4. QED  BY <2>2, <2>3
<1>8. ASSUME NEW h \in Handlers, PopEnvelope(h) \/ WriteEnvelope(h) PROVE OneEntry'
  <2>1. UNCHANGED <<post_box, session>> /\ Found(h)
    BY <1>8 DEF PopEnvelope, WriteEnvelope
  <2>2. \E pc \in {"poll", "write"} : \E e : Goto(h, pc, NoNode, e)
    BY <1>8 DEF PopEnvelope, WriteEnvelope
  <2>3. /\ rpc'[h].pc \in {"poll", "write"} /\ rpc'[h].user = rpc[h].user
        /\ \A g \in Handlers \ {h} : rpc'[g] = rpc[g]
    BY <2>2
  <2>4. QED  BY <2>1, <2>3, EntryStays
<1>9. CASE UNCHANGED <<post_box, session, rpc>>
  BY <1>9, EntryStays
<1>10. QED
  BY <1>1, <1>2, <1>3, <1>4, <1>5, <1>6, <1>7, <1>8, <1>9
  DEF Next, HandlerStep, Abort, vars

LEMMA WrittenStays ==
  ASSUME WrittenOK, written' = written,
         \A u \in Users : session'[u] = "never" => session[u] = "never",
         \A h \in Handlers :
           rpc[h].pc \in Streaming => /\ rpc'[h].pc \in Streaming
                                      /\ rpc'[h].user = rpc[h].user /\ rpc[h].user \in Users
  PROVE  WrittenOK'
BY DEF WrittenOK

LEMMA StepWritten ==
  ASSUME Types, OneEntry, WrittenOK, [Next]_vars
  PROVE  WrittenOK'
<1>. USE ValuesAssumption
<1>. USE DEF Call, At, Goto, Finish, Idle, Types, TypeOK, LocalsOK, Streaming, history
<1>0. \A g \in Handlers : rpc[g].pc \in Streaming => rpc[g].user \in Users
  OBVIOUS
<1>1. ASSUME NEW h \in Handlers, Request(h) PROVE WrittenOK'
  <2>1. \E pc, u, e : Call(h, pc, u, e)
    BY <1>1 DEF Request, AcceptConnection, ReceiveExit, StreamIncomingMessages, ReceiveMessage
  <2>2. UNCHANGED <<written, session>>
    BY <1>1 DEF Request, AcceptConnection, ReceiveExit, StreamIncomingMessages, ReceiveMessage
  <2>3. rpc[h].pc = "idle" /\ \A g \in Handlers \ {h} : rpc'[g] = rpc[g]
    BY <2>1
  <2>4. QED  BY <1>0, <2>2, <2>3, WrittenStays
<1>2. ASSUME NEW h \in Handlers, rpc[h].pc \in {"add", "erase", "online?", "[]", "push"},
             HandlerStep(h)
      PROVE  WrittenOK'
  <2>1. \E l : rpc' = [rpc EXCEPT ![h] = l]
    BY <1>2 DEF HandlerStep, AddUserToConnected, DisconnectUser, IsRecipientOnline, IndexToPush,
                PushEnvelope, Index, Poll, IndexToPop, PopEnvelope, WriteEnvelope
  <2>2. written' = written /\ \A u \in Users : session'[u] = "never" => session[u] = "never"
    BY <1>2 DEF HandlerStep, AddUserToConnected, DisconnectUser, IsRecipientOnline, IndexToPush,
                PushEnvelope, Index, Poll, IndexToPop, PopEnvelope, WriteEnvelope, LogsIn
  <2>3. \A g \in Handlers \ {h} : rpc'[g] = rpc[g]
    BY <2>1
  <2>4. QED  BY <1>0, <1>2, <2>2, <2>3, WrittenStays
<1>3. ASSUME NEW h \in Handlers, Poll(h) PROVE WrittenOK'
  <2>1. session' = session /\ rpc[h].pc = "poll"
    BY <1>3 DEF Poll
  <2>2. CASE Online(rpc[h].user)
    <3>1. Goto(h, "stream[]", NoNode, Junk) /\ written' = written
      BY <1>3, <2>2 DEF Poll
    <3>2. QED  BY <1>0, <2>1, <3>1, WrittenStays
  <2>3. CASE ~Online(rpc[h].user)
    <3>1. Finish(h) /\ written' = [written EXCEPT ![h] = <<>>]
      BY <1>3, <2>3 DEF Poll
    <3>2. /\ written'[h] = <<>>
          /\ \A g \in Handlers \ {h} : rpc'[g] = rpc[g] /\ written'[g] = written[g]
      BY <3>1
    <3>3. QED  BY <2>1, <3>2 DEF WrittenOK
  <2>4. QED  BY <2>2, <2>3
<1>4. ASSUME NEW h \in Handlers, IndexToPop(h) \/ PopEnvelope(h) PROVE WrittenOK'
  <2>1. UNCHANGED <<written, session>>
    BY <1>4 DEF IndexToPop, Index, PopEnvelope
  <2>2. \E pc \in {"pop", "poll", "write"} : \E n, e : Goto(h, pc, n, e)
    BY <1>4 DEF IndexToPop, Index, PopEnvelope
  <2>3. /\ rpc'[h].pc \in Streaming /\ rpc'[h].user = rpc[h].user
        /\ \A g \in Handlers \ {h} : rpc'[g] = rpc[g]
    BY <2>2
  <2>4. QED  BY <1>0, <2>1, <2>3, WrittenStays
<1>5. ASSUME NEW h \in Handlers, WriteEnvelope(h) PROVE WrittenOK'
  <2>1. /\ rpc[h].pc = "write" /\ session' = session /\ Goto(h, "poll", NoNode, Junk)
        /\ \A g \in Handlers \ {h} : written'[g] = written[g]
    BY <1>5 DEF WriteEnvelope
  <2>2. session[rpc[h].user] # "never"
    BY <2>1 DEF OneEntry, Found
  <2>3. /\ rpc'[h].pc \in Streaming /\ session'[rpc'[h].user] # "never"
        /\ \A g \in Handlers \ {h} : rpc'[g] = rpc[g]
    BY <2>1, <2>2
  <2>4. QED  BY <2>1, <2>3 DEF WrittenOK
<1>6. CASE UNCHANGED <<written, session, rpc>>
  BY <1>0, <1>6, WrittenStays
<1>7. ASSUME NEW h \in Handlers, HandlerStep(h) PROVE WrittenOK'
  BY <1>2, <1>3, <1>4, <1>5, <1>7
  DEF HandlerStep, AddUserToConnected, DisconnectUser, IsRecipientOnline, IndexToPush, Index,
      PushEnvelope
<1>8. QED  BY <1>1, <1>6, <1>7 DEF Next, Abort, vars

--------------------------------------------------------------------------------
(* InOrder of one user. *)
Waiting(u) == cell[post_box[u]]

StreamOf(h, u) == rpc[h].pc \in Streaming /\ rpc[h].user = u

OrderFor(u) ==
  session[u] = "first" =>
    /\ IsSuffix(Waiting(u), accepted[u])
    /\ \A h \in Handlers : StreamOf(h, u) => IsInOrder(Popped(h) \o Waiting(u), accepted[u])

LEMMA InOrderOfEach == InOrder <=> \A u \in Users : OrderFor(u)
BY DEF InOrder, OrderFor, Waiting, StreamOf

LEMMA OrderTypes ==
  ASSUME Types
  PROVE  /\ \A u \in Users : accepted[u] \in Seq(Envelopes)
         /\ \A u \in Users : Online(u) => Waiting(u) \in Seq(Envelopes)
         /\ \A h \in Handlers : Popped(h) \in Seq(Envelopes)
<1>1. \A u \in Users : accepted[u] \in Seq(Envelopes)
  BY SeqMonotonic DEF Types, TypeOK, Envelopes
<1>2. \A u \in Users : Online(u) => Waiting(u) \in Seq(Envelopes)
  BY DEF Types, TypeOK, Online, Waiting
<1>3. \A h \in Handlers : Held(h) \in Seq(Envelopes)
  BY DEF Types, TypeOK, Held, Calls
<1>4. \A h \in Handlers : Popped(h) \in Seq(Envelopes)
  BY <1>3, ConcatProperties DEF Types, TypeOK, Popped
<1>5. QED  BY <1>1, <1>2, <1>4

(* The mail of user u is not touched; a stream of u may start, with nothing read yet. *)
LEMMA OrderStays ==
  ASSUME Types, NEW u \in Users, OrderFor(u),
         session'[u] = "first" => /\ session[u] = "first" /\ Online(u)
                                  /\ Waiting(u)' = Waiting(u) /\ accepted'[u] = accepted[u],
         \A h \in Handlers :
           StreamOf(h, u)' => Popped(h)' = <<>> \/ (StreamOf(h, u) /\ Popped(h)' = Popped(h))
  PROVE  OrderFor(u)'
<1>. SUFFICES ASSUME session'[u] = "first" PROVE OrderFor(u)'
  BY DEF OrderFor
<1>1. /\ IsSuffix(Waiting(u), accepted[u])
      /\ \A h \in Handlers : StreamOf(h, u) => IsInOrder(Popped(h) \o Waiting(u), accepted[u])
  BY DEF OrderFor
<1>2. Waiting(u) \in Seq(Envelopes) /\ accepted[u] \in Seq(Envelopes)
  BY OrderTypes
<1>3. <<>> \o Waiting(u) = Waiting(u)
  BY <1>2, ConcatEmptySeq
<1>4. IsInOrder(<<>> \o Waiting(u), accepted[u])
  BY <1>1, <1>2, <1>3, SuffixInOrder
<1>5. \A h \in Handlers : StreamOf(h, u)' => IsInOrder(Popped(h)' \o Waiting(u)', accepted'[u])
  BY <1>1, <1>4
<1>6. QED  BY <1>1, <1>5 DEF OrderFor

(* A user who was never in logs in, to an empty box. *)
LEMMA OrderStarts ==
  ASSUME Types, NEW u \in Users, Waiting(u)' = <<>>, accepted'[u] \in Seq(Envelopes),
         \A h \in Handlers : StreamOf(h, u)' => Popped(h)' = <<>>
  PROVE  OrderFor(u)'
<1>1. <<>> \in Seq(Envelopes) /\ <<>> \o <<>> = <<>>
  BY ConcatEmptySeq
<1>2. IsSuffix(<<>>, accepted'[u])
  <2>. DEFINE t == accepted'[u]
  <2>1. Len(<<>>) = 0 /\ Len(<<>>) <= Len(t) /\ 1 .. 0 = {}
    OBVIOUS
  <2>. HIDE DEF t
  <2>2. t \in Seq(Envelopes)
    BY DEF t
  <2>3. \A i \in 1 .. Len(<<>>) : <<>>[i] = t[Len(t) - Len(<<>>) + i]
    BY <2>1
  <2>4. IsSuffix(<<>>, t)
    BY <1>1, <2>1, <2>2, <2>3, SuffixElements
  <2>5. QED  BY <2>4 DEF t
<1>3. IsInOrder(<<>> \o <<>>, accepted'[u])
  BY <1>1, <1>2, SuffixInOrder
<1>4. QED  BY <1>2, <1>3 DEF OrderFor

(* An envelope is accepted for user u. *)
LEMMA OrderPush ==
  ASSUME Types, NEW u \in Users, OrderFor(u), NEW e \in Envelopes,
         session' = session, accepted'[u] = Append(accepted[u], e),
         session[u] = "first" => Online(u) /\ Waiting(u)' = Append(Waiting(u), e),
         \A h \in Handlers : StreamOf(h, u)' => StreamOf(h, u) /\ Popped(h)' = Popped(h)
  PROVE  OrderFor(u)'
<1>. SUFFICES ASSUME session[u] = "first" PROVE OrderFor(u)'
  BY DEF OrderFor
<1>1. /\ IsSuffix(Waiting(u), accepted[u])
      /\ \A h \in Handlers : StreamOf(h, u) => IsInOrder(Popped(h) \o Waiting(u), accepted[u])
  BY DEF OrderFor
<1>2. /\ Waiting(u) \in Seq(Envelopes) /\ accepted[u] \in Seq(Envelopes)
      /\ \A h \in Handlers : Popped(h) \in Seq(Envelopes)
  BY OrderTypes
<1>3. IsSuffix(Waiting(u)', accepted'[u])
  BY <1>1, <1>2, SuffixAppend
<1>4. ASSUME NEW h \in Handlers, StreamOf(h, u)'
      PROVE  IsInOrder(Popped(h)' \o Waiting(u)', accepted'[u])
  <2>. DEFINE p == Popped(h)
              w == Waiting(u)
  <2>1. IsInOrder(p \o w, accepted[u]) /\ p \in Seq(Envelopes) /\ w \in Seq(Envelopes)
    BY <1>1, <1>2, <1>4
  <2>2. Popped(h)' = p /\ Waiting(u)' = Append(w, e)
    BY <1>4
  <2>. HIDE DEF p, w
  <2>3. p \o Append(w, e) = Append(p \o w, e) /\ p \o w \in Seq(Envelopes)
    <3>1. <<e>> \in Seq(Envelopes) /\ p \o w \in Seq(Envelopes)
      BY <2>1, ConcatProperties
    <3>2. p \o Append(w, e) = p \o (w \o <<e>>)
      BY <2>1, AppendIsConcat
    <3>3. Append(p \o w, e) = (p \o w) \o <<e>>
      BY <3>1, AppendIsConcat
    <3>4. QED  BY <2>1, <3>1, <3>2, <3>3, ConcatAssociative
  <2>4. IsInOrder(Append(p \o w, e), Append(accepted[u], e))
    BY <1>2, <2>1, <2>3, InOrderAppend
  <2>5. QED  BY <2>2, <2>3, <2>4
<1>5. QED  BY <1>3, <1>4 DEF OrderFor

(* A stream of user u takes the oldest envelope that waits. *)
LEMMA OrderPop ==
  ASSUME Types, NEW u \in Users, OrderFor(u), NEW g \in Handlers,
         session' = session, accepted' = accepted, StreamOf(g, u),
         session[u] = "first" => /\ Online(u) /\ Waiting(u) # <<>> /\ Waiting(u)' = Tail(Waiting(u))
                                 /\ Popped(g)' = Popped(g) \o <<Head(Waiting(u))>>,
         \A h \in Handlers \ {g} : StreamOf(h, u)' => StreamOf(h, u) /\ Popped(h)' = Popped(h)
  PROVE  OrderFor(u)'
<1>. SUFFICES ASSUME session[u] = "first" PROVE OrderFor(u)'
  BY DEF OrderFor
<1>1. /\ IsSuffix(Waiting(u), accepted[u])
      /\ \A h \in Handlers : StreamOf(h, u) => IsInOrder(Popped(h) \o Waiting(u), accepted[u])
  BY DEF OrderFor
<1>2. /\ Waiting(u) \in Seq(Envelopes) /\ accepted[u] \in Seq(Envelopes)
      /\ \A h \in Handlers : Popped(h) \in Seq(Envelopes)
  BY OrderTypes
<1>3. IsSuffix(Waiting(u)', accepted'[u])
  BY <1>1, <1>2, SuffixTail
<1>4. ASSUME NEW h \in Handlers, StreamOf(h, u)'
      PROVE  IsInOrder(Popped(h)' \o Waiting(u)', accepted'[u])
  <2>. DEFINE p == Popped(h)
              w == Waiting(u)
              q == Popped(h)'
  <2>1. /\ IsInOrder(p \o w, accepted[u]) /\ p \in Seq(Envelopes)
        /\ w \in Seq(Envelopes) /\ w # <<>>
    BY <1>1, <1>2, <1>4
  <2>2. Waiting(u)' = Tail(w) /\ (q = p \/ q = p \o <<Head(w)>>)
    BY <1>4
  <2>. HIDE DEF p, w, q
  <2>3. (p \o <<Head(w)>>) \o Tail(w) = p \o w
    <3>1. Head(w) \in Envelopes /\ Tail(w) \in Seq(Envelopes) /\ <<Head(w)>> \in Seq(Envelopes)
      BY <2>1, HeadTailProperties
    <3>2. (p \o <<Head(w)>>) \o Tail(w) = p \o (<<Head(w)>> \o Tail(w))
      BY <2>1, <3>1, ConcatAssociative
    <3>3. <<Head(w)>> \o Tail(w) = w
      BY <2>1
    <3>4. QED  BY <3>2, <3>3
  <2>4. IsInOrder(p \o Tail(w), accepted[u])
    BY <1>2, <2>1, InOrderDrop
  <2>5. QED  BY <2>1, <2>2, <2>3, <2>4 DEF q
<1>5. QED  BY <1>3, <1>4 DEF OrderFor

(* A step of handler h touches no other stream, and no mail but that of one node. *)
LEMMA OtherStreams ==
  ASSUME NEW h \in Handlers,
         \A g \in Handlers \ {h} : rpc'[g] = rpc[g] /\ written'[g] = written[g]
  PROVE  \A g \in Handlers \ {h} : /\ Popped(g)' = Popped(g)
                                    /\ \A u : StreamOf(g, u)' <=> StreamOf(g, u)
BY DEF Popped, Held, StreamOf

LEMMA OtherBoxes ==
  ASSUME Types, NEW u \in Users, Online(u), post_box'[u] = post_box[u],
         NEW n \in Nodes, post_box[u] # n, \A k \in Nodes \ {n} : cell'[k] = cell[k]
  PROVE  Waiting(u)' = Waiting(u)
BY DEF Types, TypeOK, Online, Waiting

LEMMA NothingHeld ==
  ASSUME Types, NEW h \in Handlers, rpc[h].pc # "write"
  PROVE  Popped(h) = written[h]
BY ConcatEmptySeq DEF Types, TypeOK, Popped, Held

LEMMA StepOrder ==
  ASSUME Types, Types', Apart, Fresh, OneEntry, WrittenOK, InOrder, [Next]_vars
  PROVE  InOrder'
<1>. USE ValuesAssumption
<1>. USE DEF Call, At, Goto, Finish, Idle
<1>. SUFFICES ASSUME NEW u \in Users PROVE OrderFor(u)'
  BY InOrderOfEach DEF InOrder, OrderFor, Waiting, StreamOf
<1>0. /\ OrderFor(u) /\ (session[u] = "first" => Online(u))
      /\ rpc \in [Handlers -> Calls] /\ written \in [Handlers -> Seq(Envelopes)]
      /\ \A h \in Handlers : rpc[h].pc # "idle" => rpc[h].user \in Users
  BY InOrderOfEach DEF OneEntry, Types, TypeOK, LocalsOK
<1>1. ASSUME NEW h \in Handlers, Request(h) PROVE OrderFor(u)'
  <2>1. PICK pc \in {"add", "erase", "poll", "online?"} : \E w, e : Call(h, pc, w, e)
    BY <1>1 DEF Request, AcceptConnection, ReceiveExit, StreamIncomingMessages, ReceiveMessage
  <2>2. UNCHANGED <<post_box, cell, accepted, written, session>>
    BY <1>1 DEF Request, AcceptConnection, ReceiveExit, StreamIncomingMessages, ReceiveMessage, history
  <2>3. /\ rpc[h].pc = "idle" /\ rpc'[h].pc = pc
        /\ \A g \in Handlers \ {h} : rpc'[g] = rpc[g]
    BY <1>0, <2>1
  <2>4. written[h] = <<>>
    BY <2>3 DEF WrittenOK, Streaming
  <2>5. Popped(h)' = <<>>
    BY <2>2, <2>3, <2>4, NothingHeld DEF Popped, Held
  <2>6. \A g \in Handlers :
          StreamOf(g, u)' => Popped(g)' = <<>> \/ (StreamOf(g, u) /\ Popped(g)' = Popped(g))
    BY <2>2, <2>3, <2>5, OtherStreams
  <2>7. Waiting(u)' = Waiting(u)
    BY <2>2 DEF Waiting
  <2>8. QED  BY <1>0, <2>2, <2>6, <2>7, OrderStays
<1>2. ASSUME NEW h \in Handlers, AddUserToConnected(h) PROVE OrderFor(u)'
  <2>. DEFINE w == rpc[h].user
  <2>1. /\ w \in Users /\ rpc[h].pc = "add" /\ LogsIn(w)
        /\ rpc'[h].pc = "idle" /\ \A g \in Handlers \ {h} : rpc'[g] = rpc[g]
        /\ UNCHANGED <<accepted, written>>
    BY <1>0, <1>2 DEF AddUserToConnected
  <2>2. \A g \in Handlers :
          StreamOf(g, u)' => StreamOf(g, u) /\ Popped(g)' = Popped(g)
    BY <2>1, OtherStreams DEF StreamOf, Streaming
  <2>3. CASE w # u
    <3>1. session'[u] = session[u]
      BY <2>1, <2>3 DEF LogsIn, Types, TypeOK
    <3>2. CASE Online(w)
      <4>1. UNCHANGED <<post_box, cell>>
        BY <1>2, <3>2 DEF AddUserToConnected
      <4>2. Waiting(u)' = Waiting(u)
        BY <4>1 DEF Waiting
      <4>3. QED  BY <1>0, <2>1, <2>2, <3>1, <4>2, OrderStays
    <3>3. CASE ~Online(w)
      <4>1. PICK n \in Allocated : Insert(w, n, Moved(n))
        BY <1>2, <3>3 DEF AddUserToConnected
      <4>2. n \in Nodes /\ post_box[u] # n
        BY DEF Allocated, Untouched, Free
      <4>3. post_box'[u] = post_box[u] /\ \A k \in Nodes \ {n} : cell'[k] = cell[k]
        BY <2>3, <4>1, <4>2 DEF Insert, Types, TypeOK
      <4>4. Online(u) => Waiting(u)' = Waiting(u)
        BY <4>2, <4>3, OtherBoxes
      <4>5. QED  BY <1>0, <2>1, <2>2, <3>1, <4>4, OrderStays
    <3>4. QED  BY <3>2, <3>3
  <2>4. CASE w = u
    <3>1. CASE session[u] = "never"
      <4>1. ~Online(u)
        BY <3>1 DEF OneEntry, OnlineOnlyAfterLogin
      <4>2. PICK n \in Allocated : Insert(u, n, Moved(n))
        BY <1>2, <2>4, <4>1 DEF AddUserToConnected
      <4>3. Waiting(u)' = <<>>
        BY <4>2 DEF Insert, Fresh, Waiting, Allocated, Untouched, Types, TypeOK
      <4>4. ASSUME NEW g \in Handlers, StreamOf(g, u)' PROVE Popped(g)' = <<>>
        <5>1. StreamOf(g, u) /\ Popped(g)' = Popped(g)
          BY <2>2, <4>4
        <5>2. rpc[g].pc # "write" /\ written[g] = <<>>
          BY <3>1, <5>1 DEF OneEntry, Found, WrittenOK, StreamOf
        <5>3. QED  BY <5>1, <5>2, NothingHeld
      <4>5. accepted'[u] \in Seq(Envelopes)
        BY <2>1, OrderTypes
      <4>6. QED  BY <4>3, <4>4, <4>5, OrderStarts
    <3>2. CASE session[u] = "first"
      <4>1. UNCHANGED <<post_box, cell>>
        BY <1>0, <1>2, <2>4, <3>2 DEF AddUserToConnected
      <4>2. Waiting(u)' = Waiting(u)
        BY <4>1 DEF Waiting
      <4>3. QED  BY <1>0, <2>1, <2>2, <3>2, <4>2, OrderStays
    <3>3. CASE session[u] \notin {"never", "first"}
      <4>1. session'[u] # "first"
        BY <2>1, <2>4, <3>3 DEF LogsIn, Types, TypeOK
      <4>2. QED  BY <4>1 DEF OrderFor
    <3>4. QED  BY <3>1, <3>2, <3>3
  <2>5. QED  BY <2>3, <2>4
<1>3. ASSUME NEW h \in Handlers, DisconnectUser(h) PROVE OrderFor(u)'
  <2>. DEFINE w == rpc[h].user
  <2>1. /\ w \in Users /\ post_box' = [post_box EXCEPT ![w] = NoNode]
        /\ rpc[h].pc = "erase" /\ rpc'[h].pc = "idle" /\ \A g \in Handlers \ {h} : rpc'[g] = rpc[g]
        /\ UNCHANGED <<cell, accepted, written>>
        /\ session' = [session EXCEPT ![w] = IF @ = "never" THEN @ ELSE "out"]
    BY <1>0, <1>3 DEF DisconnectUser
  <2>2. \A g \in Handlers :
          StreamOf(g, u)' => StreamOf(g, u) /\ Popped(g)' = Popped(g)
    BY <2>1, OtherStreams DEF StreamOf, Streaming
  <2>3. CASE w # u
    <3>1. session'[u] = session[u] /\ Waiting(u)' = Waiting(u)
      BY <2>1, <2>3 DEF Waiting, Types, TypeOK
    <3>2. QED  BY <1>0, <2>1, <2>2, <3>1, OrderStays
  <2>4. CASE w = u
    <3>1. session'[u] # "first"
      BY <2>1, <2>4 DEF Types, TypeOK
    <3>2. QED  BY <3>1 DEF OrderFor
  <2>5. QED  BY <2>3, <2>4
<1>4. ASSUME NEW h \in Handlers, IsRecipientOnline(h) PROVE OrderFor(u)'
  <2>1. /\ rpc[h].pc = "online?"
        /\ UNCHANGED <<post_box, cell, accepted, written, session>>
    BY <1>4 DEF IsRecipientOnline
  <2>2. PICK l \in {Idle, [pc |-> "[]", user |-> rpc[h].user, node |-> NoNode, env |-> rpc[h].env]} :
          rpc' = [rpc EXCEPT ![h] = l]
    BY <1>4 DEF IsRecipientOnline
  <2>3. rpc'[h].pc \in {"idle", "[]"} /\ \A g \in Handlers \ {h} : rpc'[g] = rpc[g]
    BY <1>0, <2>2
  <2>4. \A g \in Handlers :
          StreamOf(g, u)' => StreamOf(g, u) /\ Popped(g)' = Popped(g)
    BY <2>1, <2>3, OtherStreams DEF StreamOf, Streaming
  <2>5. Waiting(u)' = Waiting(u)
    BY <2>1 DEF Waiting
  <2>6. QED  BY <1>0, <2>1, <2>4, <2>5, OrderStays
<1>5. ASSUME NEW h \in Handlers, IndexToPush(h) \/ IndexToPop(h) PROVE OrderFor(u)'
  <2>. DEFINE w == rpc[h].user
  <2>1. /\ w \in Users /\ rpc[h].pc \in {"[]", "stream[]"}
        /\ UNCHANGED <<accepted, written, session>>
    BY <1>0, <1>5 DEF IndexToPush, IndexToPop, Index
  <2>2. /\ rpc'[h].user = w
        /\ \/ rpc[h].pc = "[]" /\ rpc'[h].pc = "push"
           \/ rpc[h].pc = "stream[]" /\ rpc'[h].pc = "pop"
        /\ \A g \in Handlers \ {h} : rpc'[g] = rpc[g]
    BY <1>0, <1>5 DEF IndexToPush, IndexToPop, Index
  <2>3. \A g \in Handlers :
          StreamOf(g, u)' => StreamOf(g, u) /\ Popped(g)' = Popped(g)
    BY <2>1, <2>2, OtherStreams DEF StreamOf, Streaming, Popped, Held
  <2>4. session[u] = "first" => Waiting(u)' = Waiting(u)
    <3>1. CASE Online(w)
      <4>1. UNCHANGED <<post_box, cell>>
        BY <1>5, <3>1 DEF IndexToPush, IndexToPop, Index
      <4>2. QED  BY <4>1 DEF Waiting
    <3>2. CASE ~Online(w)
      <4>1. PICK n \in Allocated : Insert(w, n, <<>>)
        BY <1>5, <3>2 DEF IndexToPush, IndexToPop, Index
      <4>2. n \in Nodes /\ post_box[u] # n
        BY DEF Allocated, Untouched, Free
      <4>3. /\ session[u] = "first" => post_box'[u] = post_box[u]
            /\ \A k \in Nodes \ {n} : cell'[k] = cell[k]
        BY <1>0, <2>1, <3>2, <4>1, <4>2 DEF Insert, Types, TypeOK
      <4>4. QED  BY <1>0, <4>2, <4>3, OtherBoxes
    <3>3. QED  BY <3>1, <3>2
  <2>5. QED  BY <1>0, <2>1, <2>3, <2>4, OrderStays
<1>6. ASSUME NEW h \in Handlers, PushEnvelope(h) PROVE OrderFor(u)'
  <2>. DEFINE w == rpc[h].user
              n == rpc[h].node
              m == rpc[h].env
  <2>1. /\ w \in Users /\ n \in Nodes /\ m \in Msgs /\ To[m] = w
        /\ rpc[h].pc = "push" /\ UNCHANGED <<post_box, written, session>>
        /\ rpc'[h].pc = "idle" /\ \A g \in Handlers \ {h} : rpc'[g] = rpc[g]
    BY <1>0, <1>6 DEF PushEnvelope, Types, TypeOK, LocalsOK, Receiving, IsMailFor, Calls
  <2>2. \A g \in Handlers :
          StreamOf(g, u)' => StreamOf(g, u) /\ Popped(g)' = Popped(g)
    BY <2>1, OtherStreams DEF StreamOf, Streaming
  <2>3. CASE HasRoom(n)
    <3>1. /\ cell' = [cell EXCEPT ![n] = Append(@, m)]
          /\ accepted' = [accepted EXCEPT ![To[m]] = Append(@, m)]
      BY <1>6, <2>3 DEF PushEnvelope
    <3>2. CASE u = w
      <4>1. accepted'[u] = Append(accepted[u], m)
        BY <2>1, <3>1, <3>2 DEF Types, TypeOK
      <4>2. session[u] = "first" => post_box[u] = n
        BY <2>1, <3>2 DEF OneEntry
      <4>3. session[u] = "first" => Waiting(u)' = Append(Waiting(u), m)
        BY <2>1, <3>1, <4>2 DEF Waiting, Types, TypeOK
      <4>4. m \in Envelopes
        BY <2>1 DEF Envelopes
      <4>. HIDE DEF m, n, w
      <4>5. QED  BY <1>0, <2>1, <2>2, <4>1, <4>3, <4>4, OrderPush
    <3>3. CASE u # w
      <4>1. accepted'[u] = accepted[u]
        BY <2>1, <3>1, <3>3 DEF Types, TypeOK
      <4>2. Online(u) => post_box[u] # n
        BY <2>1, <3>3 DEF Apart, Reaches
      <4>3. \A k \in Nodes \ {n} : cell'[k] = cell[k]
        BY <3>1 DEF Types, TypeOK
      <4>4. Online(u) => Waiting(u)' = Waiting(u)
        BY <2>1, <4>2, <4>3, OtherBoxes
      <4>5. QED  BY <1>0, <2>1, <2>2, <4>1, <4>4, OrderStays
    <3>4. QED  BY <3>2, <3>3
  <2>4. CASE ~HasRoom(n)
    <3>1. UNCHANGED <<cell, accepted>>
      BY <1>6, <2>4 DEF PushEnvelope
    <3>2. Waiting(u)' = Waiting(u)
      BY <2>1, <3>1 DEF Waiting
    <3>3. QED  BY <1>0, <2>1, <2>2, <3>1, <3>2, OrderStays
  <2>5. QED  BY <2>3, <2>4
<1>7. ASSUME NEW h \in Handlers, Poll(h) PROVE OrderFor(u)'
  <2>1. rpc[h].pc = "poll" /\ UNCHANGED <<post_box, cell, accepted, session>>
    BY <1>7 DEF Poll
  <2>2. \A g \in Handlers :
          StreamOf(g, u)' => StreamOf(g, u) /\ Popped(g)' = Popped(g)
    <3>1. CASE Online(rpc[h].user)
      <4>1. Goto(h, "stream[]", NoNode, Junk) /\ written' = written
        BY <1>7, <3>1 DEF Poll
      <4>2. /\ rpc'[h].pc = "stream[]" /\ rpc'[h].user = rpc[h].user
            /\ \A g \in Handlers \ {h} : rpc'[g] = rpc[g]
        BY <1>0, <4>1
      <4>3. Popped(h)' = Popped(h) /\ (StreamOf(h, u)' => StreamOf(h, u))
        BY <2>1, <4>1, <4>2 DEF StreamOf, Streaming, Popped, Held
      <4>4. QED  BY <4>1, <4>2, <4>3, OtherStreams
    <3>2. CASE ~Online(rpc[h].user)
      <4>1. Finish(h) /\ written' = [written EXCEPT ![h] = <<>>]
        BY <1>7, <3>2 DEF Poll
      <4>2. /\ rpc'[h].pc = "idle"
            /\ \A g \in Handlers \ {h} : rpc'[g] = rpc[g] /\ written'[g] = written[g]
        BY <1>0, <4>1
      <4>3. QED  BY <4>2, OtherStreams DEF StreamOf, Streaming
    <3>3. QED  BY <3>1, <3>2
  <2>3. Waiting(u)' = Waiting(u)
    BY <2>1 DEF Waiting
  <2>4. QED  BY <1>0, <2>1, <2>2, <2>3, OrderStays
<1>8. ASSUME NEW h \in Handlers, PopEnvelope(h) PROVE OrderFor(u)'
  <2>. DEFINE w == rpc[h].user
              n == rpc[h].node
  <2>1. /\ w \in Users /\ n \in Nodes /\ rpc[h].pc = "pop"
        /\ UNCHANGED <<post_box, accepted, written, session>>
    BY <1>0, <1>8 DEF PopEnvelope, Types, LocalsOK, Calls, history
  <2>2. CASE cell[n] = <<>>
    <3>1. Goto(h, "poll", NoNode, Junk) /\ cell' = cell
      BY <1>8, <2>2 DEF PopEnvelope
    <3>2. /\ rpc'[h].pc = "poll" /\ rpc'[h].user = w
          /\ \A g \in Handlers \ {h} : rpc'[g] = rpc[g]
      BY <1>0, <3>1
    <3>3. \A g \in Handlers :
            StreamOf(g, u)' => StreamOf(g, u) /\ Popped(g)' = Popped(g)
      BY <2>1, <3>2, OtherStreams DEF StreamOf, Streaming, Popped, Held
    <3>4. Waiting(u)' = Waiting(u)
      BY <2>1, <3>1 DEF Waiting
    <3>5. QED  BY <1>0, <2>1, <3>3, <3>4, OrderStays
  <2>3. CASE cell[n] # <<>>
    <3>1. /\ Goto(h, "write", NoNode, Head(cell[n]))
          /\ cell' = [cell EXCEPT ![n] = Tail(cell[n])]
      BY <1>8, <2>3 DEF PopEnvelope, Oldest, Rest
    <3>2. /\ rpc'[h].pc = "write" /\ rpc'[h].user = w /\ rpc'[h].env = Head(cell[n])
          /\ \A g \in Handlers \ {h} : rpc'[g] = rpc[g]
      BY <1>0, <3>1
    <3>3. \A g \in Handlers \ {h} :
            StreamOf(g, u)' => StreamOf(g, u) /\ Popped(g)' = Popped(g)
      BY <2>1, <3>2, OtherStreams
    <3>4. CASE u = w
      <4>1. StreamOf(h, u)
        BY <2>1, <3>4 DEF StreamOf, Streaming
      <4>2. Popped(h)' = Popped(h) \o <<Head(cell[n])>>
        <5>1. Popped(h) = written[h]
          BY <2>1, NothingHeld
        <5>2. Popped(h)' = written'[h] \o Held(h)' /\ Held(h)' = <<rpc'[h].env>>
          BY <3>2 DEF Popped, Held
        <5>3. QED  BY <2>1, <3>2, <5>1, <5>2
      <4>3. session[u] = "first" => post_box[u] = n
        BY <2>1, <3>4 DEF OneEntry
      <4>4. session[u] = "first" => Waiting(u) = cell[n] /\ Waiting(u)' = Tail(cell[n])
        BY <2>1, <3>1, <4>3 DEF Waiting, Types, TypeOK
      <4>. HIDE DEF n, w
      <4>5. QED  BY <1>0, <2>1, <2>3, <3>3, <4>1, <4>2, <4>4, OrderPop
    <3>5. CASE u # w
      <4>1. Online(u) => post_box[u] # n
        BY <2>1, <3>5 DEF Apart, Reaches
      <4>2. \A k \in Nodes \ {n} : cell'[k] = cell[k]
        BY <3>1 DEF Types, TypeOK
      <4>3. Online(u) => Waiting(u)' = Waiting(u)
        BY <2>1, <4>1, <4>2, OtherBoxes
      <4>4. ~StreamOf(h, u)'
        BY <3>2, <3>5 DEF StreamOf
      <4>5. QED  BY <1>0, <2>1, <3>3, <4>3, <4>4, OrderStays
    <3>6. QED  BY <3>4, <3>5
  <2>4. QED  BY <2>2, <2>3
<1>9. ASSUME NEW h \in Handlers, WriteEnvelope(h) PROVE OrderFor(u)'
  <2>. DEFINE e == rpc[h].env
  <2>1. /\ rpc[h].pc = "write" /\ Goto(h, "poll", NoNode, Junk)
        /\ written' = [written EXCEPT ![h] = Append(@, e)]
        /\ UNCHANGED <<post_box, cell, accepted, session>>
    BY <1>9 DEF WriteEnvelope
  <2>2. /\ rpc'[h].pc = "poll" /\ rpc'[h].user = rpc[h].user
        /\ \A g \in Handlers \ {h} : rpc'[g] = rpc[g] /\ written'[g] = written[g]
        /\ written'[h] = Append(written[h], e) /\ written[h] \in Seq(Envelopes) /\ e \in Envelopes
    BY <1>0, <2>1 DEF Calls
  <2>3. Popped(h)' = Popped(h)
    <3>1. Popped(h) = written[h] \o <<e>>
      BY <2>1 DEF Popped, Held
    <3>2. Popped(h)' = written'[h]
      <4>1. Held(h)' = <<>> /\ written'[h] \in Seq(Envelopes)
        BY <2>2 DEF Held
      <4>2. QED  BY <4>1, ConcatEmptySeq DEF Popped
    <3>. HIDE DEF e
    <3>3. QED  BY <2>2, <3>1, <3>2, AppendIsConcat
  <2>4. \A g \in Handlers :
          StreamOf(g, u)' => StreamOf(g, u) /\ Popped(g)' = Popped(g)
    BY <2>1, <2>2, <2>3, OtherStreams DEF StreamOf, Streaming
  <2>5. Waiting(u)' = Waiting(u)
    BY <2>1 DEF Waiting
  <2>6. QED  BY <1>0, <2>1, <2>4, <2>5, OrderStays
<1>10. CASE UNCHANGED <<post_box, cell, rpc, accepted, written, session>>
  BY <1>0, <1>10, OrderStays DEF Waiting, StreamOf, Popped, Held
<1>11. QED
  BY <1>1, <1>2, <1>3, <1>4, <1>5, <1>6, <1>7, <1>8, <1>9, <1>10
  DEF Next, HandlerStep, Abort, vars, history

--------------------------------------------------------------------------------
(* Before the first logout.  No entry has been erased, so that every node there is
   belongs to one user and the free ones have never been written to: whatever the heap
   does with them, they are fresh. *)
NobodyLeft == \A u \in Users : session[u] \in {"never", "first"}

Clean == \A n \in Nodes : Free(n) => cell[n] = <<>>

WithItsUser(m) ==
  fate[m] \in {"queued", "lost"} =>
    InBox(m) \/ \E h \in Handlers : Held(h) = <<m>> /\ rpc[h].user = To[m]

\* Memory that held another entry has not been used again: the heap does not give it
\* out, or there is none yet.
NoReuse == Recycle => NobodyLeft

HeapInv ==
  /\ NoReuse => Apart
  /\ NobodyLeft => Clean /\ \A m \in Msgs : WithItsUser(m)

LEMMA InitHeap == ASSUME Init PROVE HeapInv
BY InitApart DEF Init, HeapInv, Clean, WithItsUser

LEMMA StillNobodyLeft ==
  ASSUME Types, [Next]_vars, NobodyLeft'
  PROVE  NobodyLeft
<1>1. ASSUME NEW h \in Handlers, AddUserToConnected(h) PROVE NobodyLeft
  <2>1. LogsIn(rpc[h].user)
    BY <1>1 DEF AddUserToConnected
  <2>2. QED  BY <2>1 DEF LogsIn, NobodyLeft, Types, TypeOK
<1>2. ASSUME NEW h \in Handlers, DisconnectUser(h) PROVE NobodyLeft
  BY <1>2 DEF DisconnectUser, NobodyLeft, Types, TypeOK
<1>3. CASE session' = session
  BY <1>3 DEF NobodyLeft
<1>4. QED
  BY <1>1, <1>2, <1>3
  DEF Next, Request, HandlerStep, Abort, AcceptConnection, ReceiveExit, StreamIncomingMessages,
      ReceiveMessage, IsRecipientOnline, IndexToPush, IndexToPop, Index, PushEnvelope, Poll,
      PopEnvelope, WriteEnvelope, vars, history

LEMMA NobodyLeftIsFresh ==
  ASSUME Types, OneEntry, NobodyLeft, Clean
  PROVE  Fresh
<1> SUFFICES ASSUME NEW n \in Allocated
             PROVE  Moved(n) = <<>> /\ \A u \in Users : ~Reaches(u, n)
  BY DEF Fresh
<1>1. n \in Nodes /\ Free(n)
  BY DEF Allocated, Untouched, Free
<1>2. cell[n] = <<>>
  BY <1>1 DEF Clean
<1>3. Moved(n) = <<>>
  BY <1>2 DEF Moved
<1>4. ASSUME NEW u \in Users, Reaches(u, n) PROVE FALSE
  <2>1. PICK h \in Handlers : rpc[h].user = u /\ rpc[h].node = n
    BY <1>1, <1>4 DEF Reaches, Free
  <2>2. rpc[h].pc \in {"push", "pop"}
    BY <1>1, <2>1, ValuesAssumption DEF Types, LocalsOK
  <2>3. session[u] = "first"
    BY <2>1, <2>2 DEF OneEntry, Found, NobodyLeft
  <2>4. n = post_box[u]
    BY <2>1, <2>2, <2>3 DEF OneEntry
  <2>5. QED  BY <1>1, <2>4 DEF Free
<1>5. QED  BY <1>3, <1>4

(* A step that moves no mail. *)
LEMMA MailRests ==
  ASSUME \A m \in Msgs : WithItsUser(m), Clean,
         post_box' = post_box, cell' = cell,
         \A m \in Msgs : fate'[m] \in {"queued", "lost"} => fate[m] \in {"queued", "lost"},
         \A h \in Handlers : rpc[h].pc = "write" => rpc'[h] = rpc[h]
  PROVE  Clean' /\ \A m \in Msgs : WithItsUser(m)'
<1>1. Clean'
  BY DEF Clean, Free
<1>2. ASSUME NEW m \in Msgs, fate'[m] \in {"queued", "lost"}
      PROVE  InBox(m)' \/ \E h \in Handlers : Held(h)' = <<m>> /\ rpc'[h].user = To[m]
  <2>1. CASE InBox(m)
    BY <2>1 DEF InBox, Online
  <2>2. ASSUME NEW h \in Handlers, Held(h) = <<m>>, rpc[h].user = To[m]
        PROVE  Held(h)' = <<m>> /\ rpc'[h].user = To[m]
    BY <2>2 DEF Held
  <2>3. QED  BY <1>2, <2>1, <2>2 DEF WithItsUser
<1>3. QED  BY <1>1, <1>2 DEF WithItsUser

LEMMA HeadOrRest ==
  ASSUME NEW S, NEW s \in Seq(S), s # <<>>, NEW x \in ToSet(s)
  PROVE  x = Head(s) \/ x \in ToSet(Tail(s))
<1>1. /\ DOMAIN s = 1 .. Len(s) /\ Len(s) \in Nat /\ Len(Tail(s)) = Len(s) - 1
      /\ DOMAIN Tail(s) = 1 .. Len(Tail(s)) /\ Head(s) = s[1]
      /\ \A i \in 1 .. Len(Tail(s)) : Tail(s)[i] = s[i + 1]
  OBVIOUS
<1>2. PICK i \in 1 .. Len(s) : s[i] = x
  BY <1>1 DEF ToSet
<1>3. CASE i = 1
  BY <1>1, <1>2, <1>3
<1>4. CASE i # 1
  <2>1. i - 1 \in 1 .. Len(Tail(s)) /\ Tail(s)[i - 1] = x
    BY <1>1, <1>2, <1>4
  <2>2. QED  BY <1>1, <2>1 DEF ToSet
<1>5. QED  BY <1>3, <1>4

LEMMA StepWithItsUser ==
  ASSUME Types, OneEntry, Apart, Clean, \A m \in Msgs : WithItsUser(m),
         NobodyLeft, NobodyLeft', [Next]_vars
  PROVE  Clean' /\ \A m \in Msgs : WithItsUser(m)'
<1>. USE DEF Call, At, Goto, Finish, Idle
<1>0. /\ rpc \in [Handlers -> Calls] /\ fate \in [Msgs -> Fates]
      /\ post_box \in [Users -> Nodes \cup {NoNode}] /\ cell \in [Nodes -> Seq(Envelopes)]
      /\ session \in [Users -> {"never", "first", "out", "again"}]
      /\ \A h \in Handlers : rpc[h].pc # "idle" => rpc[h].user \in Users
  BY DEF Types, TypeOK, LocalsOK
<1>1. ASSUME NEW h \in Handlers, Request(h)
      PROVE  Clean' /\ \A m \in Msgs : WithItsUser(m)'
  <2>1. rpc[h].pc = "idle" /\ \A g \in Handlers \ {h} : rpc'[g] = rpc[g]
    BY <1>0, <1>1 DEF Request, AcceptConnection, ReceiveExit, StreamIncomingMessages, ReceiveMessage
  <2>2. /\ UNCHANGED <<post_box, cell>>
        /\ fate' = fate \/ \E m \in Msgs : fate' = [fate EXCEPT ![m] = "sent"]
    BY <1>1 DEF Request, AcceptConnection, ReceiveExit, StreamIncomingMessages, ReceiveMessage, history
  <2>3. \A m \in Msgs : fate'[m] \in {"queued", "lost"} => fate[m] \in {"queued", "lost"}
    BY <1>0, <2>2
  <2>4. QED  BY <2>1, <2>2, <2>3, MailRests
<1>2. ASSUME NEW h \in Handlers, AddUserToConnected(h)
      PROVE  Clean' /\ \A m \in Msgs : WithItsUser(m)'
  <2>. DEFINE u == rpc[h].user
  <2>1. u \in Users /\ rpc[h].pc = "add" /\ \A g \in Handlers \ {h} : rpc'[g] = rpc[g]
    BY <1>0, <1>2 DEF AddUserToConnected
  <2>2. CASE Online(u)
    <3>1. UNCHANGED <<post_box, cell, fate>>
      BY <1>2, <2>2 DEF AddUserToConnected
    <3>2. QED  BY <2>1, <3>1, MailRests
  <2>3. CASE ~Online(u)
    <3>1. PICK n \in Allocated : Insert(u, n, Moved(n))
      BY <1>2, <2>3 DEF AddUserToConnected
    <3>2. n \in Nodes /\ Free(n)
      BY DEF Allocated, Untouched, Free
    <3>3. cell[n] = <<>> /\ Moved(n) = <<>> /\ ToSet(<<>>) = {}
      BY <3>2, NobodyLeftIsFresh DEF Clean, Fresh, ToSet
    <3>4. cell' = cell /\ fate' = fate /\ post_box' = [post_box EXCEPT ![u] = n]
      BY <1>0, <3>1, <3>2, <3>3 DEF Insert, LoseMail
    <3>5. /\ \A w \in Users \ {u} : post_box'[w] = post_box[w]
          /\ \A k \in Nodes : Free(k)' => Free(k)
      BY <1>0, <2>1, <2>3, <3>4, ValuesAssumption DEF Free, Online
    <3>6. Clean'
      BY <3>4, <3>5 DEF Clean
    <3>7. ASSUME NEW m \in Msgs, fate'[m] \in {"queued", "lost"}
          PROVE  InBox(m)' \/ \E g \in Handlers : Held(g)' = <<m>> /\ rpc'[g].user = To[m]
      <4>1. CASE InBox(m)
        BY <2>3, <3>4, <3>5, <4>1, ToAssumption DEF InBox, Online
      <4>2. ASSUME NEW g \in Handlers, Held(g) = <<m>>, rpc[g].user = To[m]
            PROVE  Held(g)' = <<m>> /\ rpc'[g].user = To[m]
        BY <2>1, <4>2 DEF Held
      <4>3. QED  BY <3>4, <3>7, <4>1, <4>2 DEF WithItsUser
    <3>8. QED  BY <3>6, <3>7 DEF WithItsUser
  <2>4. QED  BY <2>2, <2>3
<1>3. ASSUME NEW h \in Handlers, DisconnectUser(h)
      PROVE  Clean' /\ \A m \in Msgs : WithItsUser(m)'
  <2>. DEFINE u == rpc[h].user
  <2>1. /\ u \in Users /\ rpc[h].pc = "erase" /\ \A g \in Handlers \ {h} : rpc'[g] = rpc[g]
        /\ post_box' = [post_box EXCEPT ![u] = NoNode] /\ UNCHANGED <<cell, fate>>
        /\ session' = [session EXCEPT ![u] = IF @ = "never" THEN @ ELSE "out"]
    BY <1>0, <1>3 DEF DisconnectUser
  <2>2. session[u] = "never"
    BY <1>0, <2>1 DEF NobodyLeft
  <2>3. post_box[u] = NoNode
    BY <2>1, <2>2 DEF OneEntry, OnlineOnlyAfterLogin, Online
  <2>4. post_box' = post_box
    BY <1>0, <2>1, <2>3
  <2>5. QED  BY <2>1, <2>4, MailRests
<1>4. ASSUME NEW h \in Handlers, IsRecipientOnline(h) \/ Poll(h)
      PROVE  Clean' /\ \A m \in Msgs : WithItsUser(m)'
  <2>1. /\ rpc[h].pc # "write" /\ \A g \in Handlers \ {h} : rpc'[g] = rpc[g]
        /\ UNCHANGED <<post_box, cell>>
        /\ fate' = fate \/ \E e : fate' = [fate EXCEPT ![e] = "refused"]
    BY <1>0, <1>4 DEF IsRecipientOnline, Poll
  <2>2. \A m \in Msgs : fate'[m] \in {"queued", "lost"} => fate[m] \in {"queued", "lost"}
    BY <1>0, <2>1
  <2>3. QED  BY <2>1, <2>2, MailRests
<1>5. ASSUME NEW h \in Handlers, IndexToPush(h) \/ IndexToPop(h)
      PROVE  Clean' /\ \A m \in Msgs : WithItsUser(m)'
  <2>1. rpc[h].pc \in {"[]", "stream[]"} /\ \A g \in Handlers \ {h} : rpc'[g] = rpc[g]
    BY <1>0, <1>5 DEF IndexToPush, IndexToPop, Index
  <2>2. Online(rpc[h].user)
    <3>1. rpc[h].user \in Users /\ session[rpc[h].user] # "never"
      BY <1>0, <2>1 DEF OneEntry, Found
    <3>2. QED  BY <3>1 DEF OneEntry, NobodyLeft
  <2>3. UNCHANGED <<post_box, cell, fate>>
    BY <1>5, <2>2 DEF IndexToPush, IndexToPop, Index
  <2>4. QED  BY <2>1, <2>3, MailRests
<1>6. ASSUME NEW h \in Handlers, PushEnvelope(h)
      PROVE  Clean' /\ \A m \in Msgs : WithItsUser(m)'
  <2>. DEFINE n == rpc[h].node
              e == rpc[h].env
  <2>1. /\ rpc[h].pc = "push" /\ post_box' = post_box
        /\ \A g \in Handlers \ {h} : rpc'[g] = rpc[g]
    BY <1>0, <1>6 DEF PushEnvelope
  <2>2. e \in Msgs /\ To[e] = rpc[h].user /\ rpc[h].user \in Users
    BY <1>0, <2>1 DEF Types, LocalsOK, IsMailFor, Receiving
  <2>3. n = post_box[To[e]] /\ Online(To[e])
    BY <2>1, <2>2 DEF OneEntry, Found, NobodyLeft
  <2>4. n \in Nodes /\ cell[n] \in Seq(Envelopes) /\ e \in Envelopes
    BY <1>0, <2>2, <2>3 DEF Online, Envelopes
  <2>5. CASE ~HasRoom(n)
    <3>1. cell' = cell /\ fate' = [fate EXCEPT ![e] = "refused"]
      BY <1>6, <2>5 DEF PushEnvelope
    <3>2. \A m \in Msgs : fate'[m] \in {"queued", "lost"} => fate[m] \in {"queued", "lost"}
      BY <1>0, <3>1
    <3>3. QED  BY <2>1, <3>1, <3>2, MailRests
  <2>6. CASE HasRoom(n)
    <3>1. /\ cell' = [cell EXCEPT ![n] = Append(@, e)]
          /\ fate' = [fate EXCEPT ![e] = "queued"]
      BY <1>6, <2>6 DEF PushEnvelope
    <3>2. /\ cell'[n] = Append(cell[n], e) /\ ToSet(cell'[n]) = ToSet(cell[n]) \cup {e}
          /\ \A k \in Nodes \ {n} : cell'[k] = cell[k]
      BY <1>0, <2>4, <3>1, ToSetAppend
    <3>3. Clean'
      BY <1>0, <2>1, <2>2, <2>3, <3>2, ToAssumption DEF Clean, Free
    <3>4. \A w \in Users : Online(w) => ToSet(cell[post_box[w]]) \subseteq ToSet(cell'[post_box[w]])
      BY <1>0, <3>2 DEF Online
    <3>5. ASSUME NEW m \in Msgs, fate'[m] \in {"queued", "lost"}
          PROVE  InBox(m)' \/ \E g \in Handlers : Held(g)' = <<m>> /\ rpc'[g].user = To[m]
      <4>1. CASE m = e
        BY <2>1, <2>3, <3>2, <4>1 DEF InBox, Online
      <4>2. CASE m # e
        <5>1. fate[m] \in {"queued", "lost"}
          BY <1>0, <3>1, <3>5, <4>2
        <5>2. CASE InBox(m)
          BY <2>1, <3>4, <5>2, ToAssumption DEF InBox, Online
        <5>3. ASSUME NEW g \in Handlers, Held(g) = <<m>>, rpc[g].user = To[m]
              PROVE  Held(g)' = <<m>> /\ rpc'[g].user = To[m]
          BY <2>1, <5>3 DEF Held
        <5>4. QED  BY <5>1, <5>2, <5>3 DEF WithItsUser
      <4>3. QED  BY <4>1, <4>2
    <3>6. QED  BY <3>3, <3>5 DEF WithItsUser
  <2>7. QED  BY <2>5, <2>6
<1>7. ASSUME NEW h \in Handlers, PopEnvelope(h)
      PROVE  Clean' /\ \A m \in Msgs : WithItsUser(m)'
  <2>. DEFINE n == rpc[h].node
              u == rpc[h].user
  <2>1. /\ rpc[h].pc = "pop" /\ UNCHANGED <<post_box, fate>> /\ u \in Users
        /\ \A g \in Handlers \ {h} : rpc'[g] = rpc[g]
    BY <1>0, <1>7 DEF PopEnvelope, history
  <2>2. n = post_box[u] /\ Online(u)
    BY <2>1 DEF OneEntry, Found, NobodyLeft
  <2>3. n \in Nodes /\ cell[n] \in Seq(Envelopes)
    BY <1>0, <2>1, <2>2 DEF Online
  <2>4. CASE cell[n] = <<>>
    <3>1. cell' = cell
      BY <1>7, <2>4 DEF PopEnvelope
    <3>2. QED  BY <2>1, <3>1, MailRests
  <2>5. CASE cell[n] # <<>>
    <3>1. /\ rpc'[h].pc = "write" /\ rpc'[h].user = u /\ rpc'[h].env = Head(cell[n])
          /\ cell' = [cell EXCEPT ![n] = Tail(cell[n])]
      BY <1>0, <1>7, <2>5 DEF PopEnvelope, Oldest, Rest
    <3>2. /\ cell'[n] = Tail(cell[n]) /\ \A k \in Nodes \ {n} : cell'[k] = cell[k]
          /\ \A x \in ToSet(cell[n]) : x = Head(cell[n]) \/ x \in ToSet(cell'[n])
      BY <1>0, <2>3, <2>5, <3>1, HeadOrRest
    <3>3. Clean'
      BY <2>1, <2>2, <3>2 DEF Clean, Free
    <3>4. \A w \in Users \ {u} : post_box[w] # n
      BY <2>1, <2>2, <2>3 DEF Apart, Reaches
    <3>5. ASSUME NEW m \in Msgs, fate'[m] \in {"queued", "lost"}
          PROVE  InBox(m)' \/ \E g \in Handlers : Held(g)' = <<m>> /\ rpc'[g].user = To[m]
      <4>1. CASE InBox(m) /\ To[m] # u
        <5>1. cell'[post_box[To[m]]] = cell[post_box[To[m]]]
          BY <1>0, <3>2, <3>4, <4>1, ToAssumption DEF InBox, Online
        <5>2. QED  BY <2>1, <4>1, <5>1 DEF InBox, Online
      <4>2. CASE InBox(m) /\ To[m] = u
        <5>1. m = Head(cell[n]) \/ m \in ToSet(cell'[n])
          BY <2>2, <3>2, <4>2 DEF InBox
        <5>2. CASE m = Head(cell[n])
          BY <3>1, <4>2, <5>2 DEF Held
        <5>3. CASE m \in ToSet(cell'[n])
          BY <2>1, <2>2, <4>2, <5>3 DEF InBox, Online
        <5>4. QED  BY <5>1, <5>2, <5>3
      <4>3. ASSUME NEW g \in Handlers, Held(g) = <<m>>, rpc[g].user = To[m]
            PROVE  Held(g)' = <<m>> /\ rpc'[g].user = To[m]
        BY <2>1, <4>3 DEF Held
      <4>4. QED  BY <2>1, <3>5, <4>1, <4>2, <4>3 DEF WithItsUser
    <3>6. QED  BY <3>3, <3>5 DEF WithItsUser
  <2>6. QED  BY <2>4, <2>5
<1>8. ASSUME NEW h \in Handlers, WriteEnvelope(h)
      PROVE  Clean' /\ \A m \in Msgs : WithItsUser(m)'
  <2>. DEFINE e == rpc[h].env
  <2>1. /\ rpc[h].pc = "write" /\ UNCHANGED <<post_box, cell>>
        /\ \A g \in Handlers \ {h} : rpc'[g] = rpc[g]
        /\ fate' = IF e \in Msgs THEN [fate EXCEPT ![e] = "written"] ELSE fate
    BY <1>0, <1>8 DEF WriteEnvelope
  <2>2. Clean'
    BY <2>1 DEF Clean, Free
  <2>3. ASSUME NEW m \in Msgs, fate'[m] \in {"queued", "lost"}
        PROVE  InBox(m)' \/ \E g \in Handlers : Held(g)' = <<m>> /\ rpc'[g].user = To[m]
    <3>1. m # e /\ fate[m] \in {"queued", "lost"}
      BY <1>0, <2>1, <2>3
    <3>2. CASE InBox(m)
      BY <2>1, <3>2 DEF InBox, Online
    <3>3. ASSUME NEW g \in Handlers, Held(g) = <<m>>, rpc[g].user = To[m]
          PROVE  Held(g)' = <<m>> /\ rpc'[g].user = To[m]
      BY <2>1, <3>1, <3>3 DEF Held
    <3>4. QED  BY <3>1, <3>2, <3>3 DEF WithItsUser
  <2>4. QED  BY <2>2, <2>3 DEF WithItsUser
<1>9. CASE UNCHANGED <<post_box, cell, rpc, fate>>
  BY <1>9, MailRests
<1>10. QED
  BY <1>1, <1>2, <1>3, <1>4, <1>5, <1>6, <1>7, <1>8, <1>9
  DEF Next, HandlerStep, Abort, vars, history

LEMMA StepHeap ==
  ASSUME Types, OneEntry, HeapInv, [Next]_vars
  PROVE  HeapInv'
<1>1. ASSUME NoReuse' PROVE Apart'
  <2>1. NoReuse
    BY <1>1, StillNobodyLeft DEF NoReuse
  <2>2. Fresh
    BY <2>1, NewMemoryIsFresh, NobodyLeftIsFresh DEF NoReuse, HeapInv
  <2>3. QED  BY <2>1, <2>2, StepApart DEF HeapInv
<1>2. ASSUME NobodyLeft' PROVE Clean' /\ \A m \in Msgs : WithItsUser(m)'
  <2>1. NobodyLeft
    BY <1>2, StillNobodyLeft
  <2>2. QED  BY <1>2, <2>1, StepWithItsUser DEF HeapInv, NoReuse
<1>3. QED  BY <1>1, <1>2 DEF HeapInv

LEMMA HeapInvariant == Spec => [](Types /\ OneEntry /\ HeapInv)
<1>1. Init => Types /\ OneEntry /\ HeapInv
  BY InitTypes, InitEntries, InitHeap
<1>2. Types /\ OneEntry /\ HeapInv /\ [Next]_vars => (Types /\ OneEntry /\ HeapInv)'
  BY StepTypes, StepEntry, StepHeap
<1>3. QED  BY <1>1, <1>2, PTL DEF Spec

(* For every heap: until somebody logs out, accepted mail is in the box of its own
   recipient, or with a stream of the recipient that is about to write it; second logins
   and second streams take none of it away (GrpcServer.cpp:28-56, 63-73, 93-106). *)
THEOREM MailLostOnlyByLogout == Spec => [](NobodyLeft => LostOnlyByLogout)
<1>1. Types /\ OneEntry /\ HeapInv => (NobodyLeft => LostOnlyByLogout)
  BY DEF HeapInv, LostOnlyByLogout, WithItsUser
<1>2. QED  BY <1>1, HeapInvariant, PTL

(* Every box and every stream holds mail for its own user alone: with every heap until
   the first logout, and past any number of logouts, with senders and streams that go on
   with references to erased entries, if the heap does not give out the memory of those
   (GrpcServer.cpp:58-67, 96-104).  If it does, such a reference can be to the box of the
   next user to log in. *)
THEOREM MailStaysWithItsUser == Spec => [](NoReuse => OwnMail)
<1>1. Types /\ OneEntry /\ HeapInv => (NoReuse => OwnMail)
  BY ApartImpliesOwnMail DEF HeapInv
<1>2. QED  BY <1>1, HeapInvariant, PTL

(* As long as a user's first session lasts, every stream of the user has read some of the
   mail in the order the server accepted it, and what waits is the end of it: with every
   heap until somebody logs out, and after that if the heap does not give out the memory of
   erased entries (GrpcServer.cpp:63-73, 93-106). *)
THEOREM MailComesInOrder == Spec => [](NoReuse => InOrder)
<1>. DEFINE Inv == Types /\ OneEntry /\ HeapInv /\ WrittenOK /\ (NoReuse => InOrder)
<1>1. Init => Inv
  BY InitTypes, InitEntries, InitHeap DEF Init, InOrder
<1>2. ASSUME Inv, [Next]_vars PROVE Inv'
  <2>1. Types' /\ OneEntry' /\ HeapInv' /\ WrittenOK'
    BY <1>2, StepTypes, StepEntry, StepHeap, StepWritten
  <2>2. ASSUME NoReuse' PROVE InOrder'
    <3>1. NoReuse
      BY <1>2, <2>2, StillNobodyLeft DEF NoReuse
    <3>2. Fresh
      BY <1>2, <3>1, NewMemoryIsFresh, NobodyLeftIsFresh DEF NoReuse, HeapInv
    <3>3. QED  BY <1>2, <2>1, <3>1, <3>2, StepOrder DEF HeapInv
  <2>3. QED  BY <2>1, <2>2
<1>3. Inv => (NoReuse => InOrder)
  OBVIOUS
<1>. HIDE DEF Inv
<1>4. QED  BY <1>1, <1>2, <1>3, PTL DEF Spec
================================================================================
