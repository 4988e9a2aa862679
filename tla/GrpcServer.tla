------------------------------- MODULE GrpcServer -------------------------------
(***************************************************************************)
(* server_app/endpoint/GrpcServer: the post boxes of the users who are     *)
(* online, and the gRPC handler threads that share them.  A user is online *)
(* exactly when post_box has an entry for it; the entry is a PostBoxCell,  *)
(* a CircularBuffer<Envelope, 32> that lives in a heap node of the map.    *)
(*                                                                         *)
(* addUserToConnected, disconnectUser and isOnline hold post_box_mtx, so   *)
(* each is one step.  receiveMessage and streamIncomingMessages go on      *)
(* without it: they look the user up a second time with operator[], which  *)
(* creates a missing entry, and then push to or pop from the cell they     *)
(* found, whatever has become of its node.  A cell is the bounded queue    *)
(* that module CircularBuffer shows the ring to implement.                 *)
(***************************************************************************)
EXTENDS Naturals, FiniteSets, SequencesExt

CONSTANTS Users, Msgs, Nodes,  \* user ids, envelopes, heap addresses of map nodes
          To,                  \* To[m]: the recipient of envelope m
          Handlers,            \* the server threads that run RPC handlers
          Length,              \* the capacity of a PostBoxCell
          NoNode, NoUser,      \* no entry; the user of a handler that is not running
          Junk,                \* the contents of a slot nobody pushed to
          Recycle              \* may the heap hand out memory a node has lived in?

ASSUME ToAssumption == To \in [Msgs -> Users]
ASSUME LengthAssumption == Length \in Nat \ {0}
ASSUME ValuesAssumption == NoNode \notin Nodes /\ NoUser \notin Users /\ Junk \notin Msgs
ASSUME RecycleAssumption == Recycle \in BOOLEAN

VARIABLES post_box,   \* post_box[u]: the node of u's entry, or NoNode
          cell,       \* cell[n]: the queue in node n, or the leftovers of one
          up,         \* FALSE once undefined behaviour has aborted the process
          rpc         \* rpc[h]: the handler h runs, its locals and its next step

(* History: what became of each envelope, the order in which cells took each user's,
   what each running stream has passed to Write, and the life of each user's session. *)
VARIABLES fate, accepted, written, session

server == <<post_box, cell, up, rpc>>
history == <<fate, accepted, written, session>>
vars == <<post_box, cell, up, rpc, fate, accepted, written, session>>

Envelopes == Msgs \cup {Junk}

Idle == [pc |-> "idle", user |-> NoUser, node |-> NoNode, env |-> Junk]

Receiving == {"online?", "[]", "push"}             \* receiveMessage
Streaming == {"poll", "stream[]", "pop", "write"}  \* streamIncomingMessages

Calls == [pc : {"idle", "add", "erase"} \cup Receiving \cup Streaming,
          user : Users \cup {NoUser}, node : Nodes \cup {NoNode}, env : Envelopes]

Fates == {"new", "sent", "refused", "queued", "written", "lost"}

Online(u) == post_box[u] # NoNode

--------------------------------------------------------------------------------
(* The heap.  An entry is built in memory no entry lives in.  Unless Recycle, that
   memory is as the process first got it, all zeros, and not within any handler's
   reach: node n then only names it, and which free name is taken is all the same. *)

Free(n) == \A u \in Users : post_box[u] # n

Untouched == {n \in Nodes : Free(n) /\ \A h \in Handlers : rpc[h].node # n}

Allocated ==
  IF Recycle THEN {n \in Nodes : Free(n)}
             ELSE {n \in Untouched : n = CHOOSE x \in Untouched : TRUE}

\* CircularBuffer(CircularBuffer&&): only the slots are written, with those of a
\* temporary; begin_pos, end_pos and size stay as the memory holds them.  In memory
\* that was a node before, they are those of its last life.
Moved(n) == IF Recycle THEN [i \in 1 .. Len(cell[n]) |-> Junk] ELSE <<>>

\* What a cell being built over node n was still holding is lost.
LoseMail(n) == fate' = [m \in Msgs |-> IF m \in ToSet(cell[n]) THEN "lost" ELSE fate[m]]

Insert(u, n, contents) ==
  /\ post_box' = [post_box EXCEPT ![u] = n]
  /\ cell' = [cell EXCEPT ![n] = contents]
  /\ LoseMail(n)

--------------------------------------------------------------------------------
Init ==
  /\ post_box = [u \in Users |-> NoNode]
  /\ cell = [n \in Nodes |-> <<>>]
  /\ up = TRUE
  /\ rpc = [h \in Handlers |-> Idle]
  /\ fate = [m \in Msgs |-> "new"]
  /\ accepted = [u \in Users |-> <<>>]
  /\ written = [h \in Handlers |-> <<>>]
  /\ session = [u \in Users |-> "never"]

Call(h, pc, u, e) ==
  /\ up /\ rpc[h].pc = "idle"
  /\ rpc' = [rpc EXCEPT ![h] = [pc |-> pc, user |-> u, node |-> NoNode, env |-> e]]

At(h, pc) == up /\ rpc[h].pc = pc

\* h goes on to pc, for the same user, with the node it found and the envelope it has.
Goto(h, pc, n, e) ==
  rpc' = [rpc EXCEPT ![h] = [pc |-> pc, user |-> rpc[h].user, node |-> n, env |-> e]]

Finish(h) == rpc' = [rpc EXCEPT ![h] = Idle]

(* acceptConnection of registered credentials; others change nothing. *)
AcceptConnection(h, u) ==
  /\ Call(h, "add", u, Junk)
  /\ UNCHANGED <<post_box, cell, up, history>>

LogsIn(u) ==
  session' = [session EXCEPT ![u] =
                CASE @ = "never" -> "first" [] @ = "out" -> "again" [] OTHER -> @]

\* emplace: a user who has an entry keeps it, mail and all.
AddUserToConnectedMutant(h) ==
  /\ At(h, "add")
  /\ \E n \in Allocated : Insert(rpc[h].user, n, Moved(n))
  /\ LogsIn(rpc[h].user)
  /\ Finish(h)
  /\ UNCHANGED <<up, accepted, written>>
AddUserToConnected(h) ==
  LET u == rpc[h].user
  IN  /\ At(h, "add")
      /\ IF Online(u)
         THEN UNCHANGED <<post_box, cell, fate>>
         ELSE \E n \in Allocated : Insert(u, n, Moved(n))
      /\ LogsIn(u)
      /\ Finish(h)
      /\ UNCHANGED <<up, accepted, written>>

(* receiveMessage of the payload "exit": its sender is disconnected. *)
ReceiveExit(h, u) ==
  /\ Call(h, "erase", u, Junk)
  /\ UNCHANGED <<post_box, cell, up, history>>

DisconnectUser(h) ==
  LET u == rpc[h].user
  IN  /\ At(h, "erase")
      /\ post_box' = [post_box EXCEPT ![u] = NoNode]
      /\ session' = [session EXCEPT ![u] = IF @ = "never" THEN @ ELSE "out"]
      /\ Finish(h)
      /\ UNCHANGED <<cell, up, fate, accepted, written>>

(* receiveMessage of any other payload: m is checked, then pushed. *)
ReceiveMessageMutant(h, m) ==
  /\ fate[m] = "new"
  /\ \E sender \in Users : Call(h, "online?", sender, m)
  /\ fate' = [fate EXCEPT ![m] = "sent"]
  /\ UNCHANGED <<post_box, cell, up, accepted, written, session>>
ReceiveMessage(h, m) ==
  /\ fate[m] = "new"
  /\ Call(h, "online?", To[m], m)
  /\ fate' = [fate EXCEPT ![m] = "sent"]
  /\ UNCHANGED <<post_box, cell, up, accepted, written, session>>

IsRecipientOnlineMutant(h) ==
  /\ At(h, "online?")
  /\ Goto(h, "[]", NoNode, rpc[h].env)
  /\ UNCHANGED <<post_box, cell, up, history>>
IsRecipientOnline(h) ==
  /\ At(h, "online?")
  /\ IF Online(rpc[h].user)
     THEN Goto(h, "[]", NoNode, rpc[h].env) /\ fate' = fate
     ELSE Finish(h) /\ fate' = [fate EXCEPT ![rpc[h].env] = "refused"]
  /\ UNCHANGED <<post_box, cell, up, accepted, written, session>>

\* post_box[user_id], without post_box_mtx: find the entry, or create an empty one.
Index(h, from, to) ==
  LET u == rpc[h].user
  IN  /\ At(h, from)
      /\ IF Online(u)
         THEN UNCHANGED <<post_box, cell, fate>>
         ELSE \E n \in Allocated : Insert(u, n, <<>>)
      /\ Goto(h, to, post_box'[u], rpc[h].env)
      /\ UNCHANGED <<up, accepted, written, session>>

IndexToPush(h) == Index(h, "[]", "push")

\* The cell's push and pop, each of which takes effect at one instant.
HasRoomMutant(n) == Len(cell[n]) <= Length
HasRoom(n) == Len(cell[n]) < Length

OldestMutant(n) == cell[n][Len(cell[n])]
Oldest(n) == Head(cell[n])

RestMutant(n) == cell[n]
Rest(n) == Tail(cell[n])

PushEnvelope(h) ==
  LET n == rpc[h].node
      m == rpc[h].env
  IN  /\ At(h, "push")
      /\ IF HasRoom(n)
         THEN /\ cell' = [cell EXCEPT ![n] = Append(@, m)]
              /\ accepted' = [accepted EXCEPT ![To[m]] = Append(@, m)]
              /\ fate' = [fate EXCEPT ![m] = "queued"]
         ELSE /\ fate' = [fate EXCEPT ![m] = "refused"]
              /\ UNCHANGED <<cell, accepted>>
      /\ Finish(h)
      /\ UNCHANGED <<post_box, up, written, session>>

(* streamIncomingMessages for the user named in the call's metadata. *)
StreamIncomingMessages(h, u) ==
  /\ Call(h, "poll", u, Junk)
  /\ UNCHANGED <<post_box, cell, up, history>>

\* After its sleep of 200 ms: a stream ends when it finds its user offline.
PollMutant(h) ==
  /\ At(h, "poll")
  /\ Goto(h, IF Online(rpc[h].user) THEN "stream[]" ELSE "poll", NoNode, Junk)
  /\ UNCHANGED <<post_box, cell, up, fate, accepted, written, session>>
Poll(h) ==
  /\ At(h, "poll")
  /\ IF Online(rpc[h].user)
     THEN Goto(h, "stream[]", NoNode, Junk) /\ written' = written
     ELSE Finish(h) /\ written' = [written EXCEPT ![h] = <<>>]
  /\ UNCHANGED <<post_box, cell, up, fate, accepted, session>>

IndexToPop(h) == Index(h, "stream[]", "pop")

PopEnvelopeMutant(h) ==
  LET n == rpc[h].node
  IN  /\ At(h, "pop")
      /\ Goto(h, "write", NoNode, IF cell[n] = <<>> THEN Junk ELSE Oldest(n))
      /\ cell' = [cell EXCEPT ![n] = IF @ = <<>> THEN @ ELSE Rest(n)]
      /\ UNCHANGED <<post_box, up, history>>
PopEnvelope(h) ==
  LET n == rpc[h].node
  IN  /\ At(h, "pop")
      /\ \/ /\ cell[n] = <<>>
            /\ Goto(h, "poll", NoNode, Junk)
            /\ cell' = cell
         \/ /\ cell[n] # <<>>
            /\ Goto(h, "write", NoNode, Oldest(n))
            /\ cell' = [cell EXCEPT ![n] = Rest(n)]
      /\ UNCHANGED <<post_box, up, history>>

\* Write's result is not looked at: whether the client was still there or not, the
\* envelope is gone and the stream carries on.
WriteEnvelopeMutant(h) ==
  LET e == rpc[h].env
  IN  /\ At(h, "write")
      /\ written' = [written EXCEPT ![h] = <<>>]
      /\ fate' = IF e \in Msgs THEN [fate EXCEPT ![e] = "written"] ELSE fate
      /\ Finish(h)
      /\ UNCHANGED <<post_box, cell, up, accepted, session>>
WriteEnvelope(h) ==
  LET e == rpc[h].env
  IN  /\ At(h, "write")
      /\ written' = [written EXCEPT ![h] = Append(@, e)]
      /\ fate' = IF e \in Msgs THEN [fate EXCEPT ![e] = "written"] ELSE fate
      /\ Goto(h, "poll", NoNode, Junk)
      /\ UNCHANGED <<post_box, cell, up, accepted, session>>

--------------------------------------------------------------------------------
(* What the build may make of a lookup that races with a change of the map, and
   of the use of an entry that is no longer there: the outcome above, or the end
   of the process. *)

Looking(h) == rpc[h].pc \in {"[]", "stream[]"}

Changing(h) ==
  \/ rpc[h].pc = "add" /\ ~Online(rpc[h].user)
  \/ rpc[h].pc = "erase" /\ Online(rpc[h].user)
  \/ Looking(h) /\ ~Online(rpc[h].user)

Racing(h) ==
  /\ Looking(h)
  /\ \E g \in Handlers \ {h} :
       \/ Changing(g)
       \/ Changing(h) /\ rpc[g].pc \in {"add", "erase", "online?", "poll", "[]", "stream[]"}

Dangling(h) == rpc[h].pc \in {"push", "pop"} /\ post_box[rpc[h].user] # rpc[h].node

Abort(h) ==
  /\ up
  /\ Racing(h) \/ Dangling(h)
  /\ up' = FALSE
  /\ UNCHANGED <<post_box, cell, rpc, history>>

--------------------------------------------------------------------------------
Request(h) ==
  \/ \E u \in Users : AcceptConnection(h, u) \/ ReceiveExit(h, u)
                      \/ StreamIncomingMessages(h, u)
  \/ \E m \in Msgs : ReceiveMessage(h, m)

HandlerStep(h) ==
  \/ AddUserToConnected(h) \/ DisconnectUser(h)
  \/ IsRecipientOnline(h) \/ IndexToPush(h) \/ PushEnvelope(h)
  \/ Poll(h) \/ IndexToPop(h) \/ PopEnvelope(h) \/ WriteEnvelope(h)

Next == \E h \in Handlers : Request(h) \/ HandlerStep(h) \/ Abort(h)

Spec == Init /\ [][Next]_vars

\* The operating system runs every handler thread, and the sleep in a stream ends.
FairSpec == Spec /\ \A h \in Handlers : WF_vars(HandlerStep(h))

--------------------------------------------------------------------------------
(* Every variable has its type, and no cell exceeds its capacity. *)
TypeOK ==
  /\ post_box \in [Users -> Nodes \cup {NoNode}]
  /\ cell \in [Nodes -> Seq(Envelopes)]
  /\ \A n \in Nodes : Len(cell[n]) <= Length
  /\ up \in BOOLEAN
  /\ rpc \in [Handlers -> Calls]
  /\ fate \in [Msgs -> Fates]
  /\ accepted \in [Users -> Seq(Msgs)]
  /\ written \in [Handlers -> Seq(Envelopes)]
  /\ session \in [Users -> {"never", "first", "out", "again"}]

(* Nobody is online who has not logged in, although receiveMessage and the streams
   create entries themselves (GrpcServer.cpp:63-67, 96-100). *)
OnlineOnlyAfterLogin == \A u \in Users : Online(u) => session[u] # "never"

\* The envelope a stream has popped and not yet written.
Held(h) == IF rpc[h].pc = "write" THEN <<rpc[h].env>> ELSE <<>>

Places(m) ==
  {p \in Nodes \X (1 .. Length) : p[2] <= Len(cell[p[1]]) /\ cell[p[1]][p[2]] = m}
  \cup {<<h, 0>> : h \in {g \in Handlers : Held(g) = <<m>>}}

(* An accepted envelope is in exactly one place until it is passed to a
   stream's Write or lost in a freed cell, and a refused one is nowhere: none is
   delivered twice, none vanishes in between (GrpcServer.cpp:63-73, 96-105). *)
MailAccounted ==
  \A m \in Msgs : Cardinality(Places(m)) = IF fate[m] = "queued" THEN 1 ELSE 0

IsMailFor(e, u) == e \in Msgs /\ To[e] = u

(* What waits in a user's box, and what a stream is about to write to its client,
   is mail for that user, although both are reached through a reference that may
   outlive its entry (GrpcServer.cpp:67, 100-104). *)
OwnMail ==
  /\ \A u \in Users : Online(u) => \A e \in ToSet(cell[post_box[u]]) : IsMailFor(e, u)
  /\ \A h \in Handlers : rpc[h].pc = "write" => IsMailFor(rpc[h].env, rpc[h].user)

Popped(h) == written[h] \o Held(h)

IsInOrder(s, t) ==  \* s is t with some elements left out
  \E f \in [1 .. Len(s) -> 1 .. Len(t)] :
    /\ \A i \in 1 .. Len(s) : s[i] = t[f[i]]
    /\ \A i, j \in 1 .. Len(s) : i < j => f[i] < f[j]

(* Until its first logout a user's mail comes in the order the server accepted it:
   each of its streams has read some of it in order, and what waits is the end of
   it (GrpcServer.cpp:63-73, 93-106). *)
InOrder ==
  \A u \in Users : session[u] = "first" =>
    /\ IsSuffix(cell[post_box[u]], accepted[u])
    /\ \A h \in Handlers :
         rpc[h].pc \in Streaming /\ rpc[h].user = u =>
           IsInOrder(Popped(h) \o cell[post_box[u]], accepted[u])

(* A message refused for lack of space met a box full of mail for its recipient
   (GrpcServer.cpp:67-73: "no space left in the post box!"). *)
RefusedOnlyWhenFull ==
  [][\A h \in Handlers :
       At(h, "push") /\ fate'[rpc[h].env] = "refused" =>
         \A i \in 1 .. Length : cell[rpc[h].node][i] \in Msgs]_vars

(* A user who has logged out and not logged in again has no entry
   (GrpcServer.cpp:58-62: "User %d successfully logged out"). *)
LoggedOutIsOffline == \A u \in Users : session[u] = "out" => ~Online(u)

InBox(m) == Online(To[m]) /\ m \in ToSet(cell[post_box[To[m]]])

(* In its recipient's first session an accepted envelope waits in the recipient's own
   box, or a stream of the recipient has popped it, until it is passed to Write: only a
   logout takes mail from a user, and no second login or stream does
   (GrpcServer.cpp:28-56, 63-73, 93-106). *)
LostOnlyByLogout ==
  \A m \in Msgs :
    fate[m] \in {"queued", "lost"} /\ session[To[m]] = "first" =>
      InBox(m) \/ \E h \in Handlers : Held(h) = <<m>> /\ rpc[h].user = To[m]

(* Mail that waits while a stream of its recipient runs leaves the box, unless the
   process is aborted (GrpcServer.cpp:93-106). *)
MailIsCollected ==
  \A m \in Msgs :
    InBox(m) /\ (\E h \in Handlers : rpc[h].user = To[m] /\ rpc[h].pc \in Streaming) ~>
      ~InBox(m) \/ ~up
================================================================================
