---------------------------- MODULE MessengerProofs ----------------------------
(***************************************************************************)
(* The messenger end to end, for any clients, users, words, handlers and   *)
(* capacity.                                                               *)
(***************************************************************************)
EXTENDS Messenger, GrpcMailProofs

--------------------------------------------------------------------------------
(* Texts and messages. *)

(* A text that fits its array with a zero byte to spare survives being copied into one
   and read as a C string. *)
LEMMA CopyIsRead == ASSUME NEW s \in Texts PROVE CString(Copied(s, Len(s))) = s
<1>. DEFINE b == Copied(s, Len(s))
            Ends(i) == b[i] = NUL /\ \A j \in 1 .. i - 1 : b[j] # NUL
            last == CHOOSE i \in 1 .. PayloadSize : Ends(i)
<1>1. PICK n \in 0 .. PayloadSize - 1 : s \in [1 .. n -> Chars]
  BY DEF Texts
<1>2. n \in Nat /\ PayloadSize \in Nat /\ Len(s) = n /\ n + 1 \in 1 .. PayloadSize
  BY <1>1, PayloadAssumption
<1>3. /\ \A i \in 1 .. n : b[i] = s[i] /\ b[i] # NUL
      /\ b[n + 1] = NUL
  BY <1>1, <1>2, PayloadAssumption DEF Copied
<1>. HIDE DEF b
<1>4. Ends(n + 1)
  BY <1>2, <1>3
<1>5. ASSUME NEW i \in 1 .. PayloadSize, Ends(i) PROVE i = n + 1
  <2>1. ~(i \in 1 .. n)
    BY <1>3, <1>5
  <2>2. ~(n + 1 \in 1 .. i - 1)
    BY <1>3, <1>5
  <2>3. QED  BY <1>2, <2>1, <2>2
<1>6. last \in 1 .. PayloadSize /\ Ends(last)
  BY <1>2, <1>4
<1>7. last = n + 1
  <2>. HIDE DEF last, Ends
  <2>. QED  BY <1>5, <1>6
<1>8. CString(b) = [i \in 1 .. last - 1 |-> b[i]]
  BY DEF CString
<1>. HIDE DEF last
<1>9. [i \in 1 .. n |-> b[i]] = s
  BY <1>1, <1>3
<1>10. QED  BY <1>2, <1>7, <1>8, <1>9 DEF b

LEMMA CopyIsPayload == ASSUME NEW s \in Texts PROVE Copied(s, Len(s)) \in Payloads
<1>1. PICK n \in 0 .. PayloadSize - 1 : s \in [1 .. n -> Chars]
  BY DEF Texts
<1>2. Len(s) = n
  BY <1>1, PayloadAssumption
<1>3. QED  BY <1>1, <1>2, PayloadAssumption DEF Copied, Payloads

LEMMA WordsAreTexts == ASSUME NEW w \in Words PROVE w \in Texts
BY ClientsAssumption

Envelope(sender, recepient, b) ==
  [message_type |-> "UserMessage", type |-> "TextMessage", timestamp |-> 0,
   sender_id |-> sender, recepient_id |-> recepient, payload |-> b]

LEMMA ConversionsKeep ==
  ASSUME NEW a, NEW u, NEW w \in Texts
  PROVE  getEnvFromProtoBuf(putEnvToProtoBuf(Envelope(a, u, Copied(w, Len(w)))))
           = Envelope(a, u, Copied(w, Len(w)))
<1>1. CString(Copied(w, Len(w))) = w
  BY CopyIsRead
<1>2. ASSUME NEW b, NEW d PROVE [Envelope(a, u, b) EXCEPT !.payload = d] = Envelope(a, u, d)
  BY DEF Envelope
<1>3. ASSUME NEW b PROVE Envelope(a, u, b).payload = b
  BY DEF Envelope
<1>4. putEnvToProtoBuf(Envelope(a, u, Copied(w, Len(w)))) = Envelope(a, u, w)
  BY <1>1, <1>2, <1>3 DEF putEnvToProtoBuf
<1>5. getEnvFromProtoBuf(Envelope(a, u, w)) = Envelope(a, u, Copied(w, Len(w)))
  BY <1>2, <1>3 DEF getEnvFromProtoBuf
<1>6. QED  BY <1>4, <1>5

(* What the server makes of a word a client has typed: the word, in another array. *)
LEMMA ReceivedIsTyped ==
  ASSUME NEW c, NEW u, NEW w \in Texts
  PROVE  /\ Received(c, u, w) = Envelope(client[c].user, u, Copied(w, Len(w)))
         /\ Received(c, u, w).sender_id = client[c].user
         /\ Received(c, u, w).recepient_id = u
         /\ CString(Received(c, u, w).payload) = w
<1>1. embed_text(create_text_envelope(client[c].user, u), write_message(w))
        = Envelope(client[c].user, u, Copied(w, Len(w)))
  BY DEF embed_text, create_text_envelope, write_message, Envelope
<1>2. Received(c, u, w) = Envelope(client[c].user, u, Copied(w, Len(w)))
  BY <1>1, ConversionsKeep DEF Received
<1>3. QED  BY <1>2, CopyIsRead DEF Envelope

(* And what a client reads of it. *)
LEMMA ReadIsTyped ==
  ASSUME NEW m, typed[m[1]][m[3]] \in Texts
  PROVE  CString(Read(m).payload) = typed[m[1]][m[3]]
<1>. DEFINE w == typed[m[1]][m[3]]
<1>1. Read(m) = getEnvFromProtoBuf(putEnvToProtoBuf(Received(m[1], m[2], w)))
  BY DEF Read
<1>. HIDE DEF w
<1>2. Read(m) = Envelope(client[m[1]].user, m[2], Copied(w, Len(w)))
  BY <1>1, ReceivedIsTyped, ConversionsKeep DEF w
<1>3. CString(Read(m).payload) = w
  BY <1>2, CopyIsRead DEF Envelope, w
<1>4. QED  BY <1>3 DEF w

LEMMA MessageShape ==
  ASSUME NEW m \in Msgs
  PROVE  /\ m[1] \in Clients /\ m[2] \in Contacts /\ m[3] \in 1 .. Limit[m[1]]
         /\ m = <<m[1], m[2], m[3]>> /\ To[m] = m[2]
BY MessagesAssumption

LEMMA MessageBuilt ==
  ASSUME NEW c \in Clients, NEW u \in Contacts, NEW n \in 1 .. Limit[c]
  PROVE  <<c, u, n>> \in Msgs
BY MessagesAssumption

LEMMA HandlersOfClients ==
  /\ \A c \in Clients : Unary(c) \in Handlers /\ Stream(c) \in Handlers
  /\ \A h \in Handlers : \E c \in Clients : h = Unary(c) \/ h = Stream(c)
  /\ \A c, d : Unary(c) # Stream(d) /\ (Unary(c) = Unary(d) => c = d)
               /\ (Stream(c) = Stream(d) => c = d)
BY ClientsAssumption DEF Unary, Stream

--------------------------------------------------------------------------------
(* The clients' states. *)
ClientStates ==
  [main : {"start", "connecting", "refused", "running", "ended", "killed"},
   user : Users \cup {NoUser}, listen : {"off", "reading", "done"},
   send : {"off", "typing", "sending", "done"}, to : Users \cup {NoUser}, buffer : Payloads]

ClientTypes == client \in [Clients -> ClientStates] /\ typed \in [Clients -> Seq(Words)]

(* A client that has called the server has a user, and one whose user is typing, or has
   typed, a recipient. *)
ClientsOK ==
  /\ ClientTypes
  /\ \A c \in Clients : client[c].main \in {"connecting", "running"} => client[c].user \in Users
  /\ \A c \in Clients : client[c].send \in {"typing", "sending"} => client[c].to \in Contacts

LEMMA InitClients == ASSUME MInit PROVE ClientsOK
<1>1. Blank \in Payloads
  BY DEF Blank, Payloads
<1>2. QED
  BY <1>1 DEF MInit, ClientsOK, ClientTypes, ClientStates

LEMMA FieldsKeepTypes ==
  ASSUME NEW f \in [Clients -> ClientStates], NEW c \in Clients
  PROVE  /\ \A u \in Users : [f EXCEPT ![c].user = u] \in [Clients -> ClientStates]
         /\ \A b \in Payloads : [f EXCEPT ![c].buffer = b] \in [Clients -> ClientStates]
<1>1. f[c] \in ClientStates
  OBVIOUS
<1>2. ASSUME NEW u \in Users PROVE [f[c] EXCEPT !.user = u] \in ClientStates
  BY <1>1 DEF ClientStates
<1>3. ASSUME NEW b \in Payloads PROVE [f[c] EXCEPT !.buffer = b] \in ClientStates
  BY <1>1 DEF ClientStates
<1>4. QED  BY <1>2, <1>3

(* What a returning call does to its client. *)
LEMMA ReturnedClient ==
  ASSUME client \in [Clients -> ClientStates], NEW c \in Clients, NEW b \in BOOLEAN,
         Returned(c, b)
  PROVE  /\ client' \in [Clients -> ClientStates]
         /\ \A d \in Clients \ {c} : client'[d] = client[d]
         /\ client'[c].user = client[c].user /\ client'[c].to = client[c].to
         /\ client'[c].listen = client[c].listen
         /\ \/ client'[c] = client[c]
            \/ /\ client[c].main = "connecting" /\ client'[c].main \in {"running", "refused"}
               /\ client'[c].send = client[c].send
            \/ /\ client'[c].main = client[c].main
               /\ client[c].send = "sending" /\ client'[c].send \in {"done", "typing"}
<1>. DEFINE k == client[c]
<1>1. k \in ClientStates
  OBVIOUS
<1>. DEFINE r == CASE k.main = "connecting" -> [k EXCEPT !.main = IF b THEN "running" ELSE "refused"]
                 [] k.send = "sending" /\ CString(k.buffer) = Exit -> [k EXCEPT !.send = "done"]
                 [] k.send = "sending" /\ CString(k.buffer) # Exit -> [k EXCEPT !.send = "typing"]
                 [] OTHER -> k
<1>2. /\ client' = [client EXCEPT ![c] = r]
      /\ \/ k.main = "connecting" /\ r = [k EXCEPT !.main = IF b THEN "running" ELSE "refused"]
         \/ k.send = "sending" /\ r \in {[k EXCEPT !.send = "done"], [k EXCEPT !.send = "typing"]}
         \/ r = k
  <2>1. client' = [client EXCEPT ![c] = r]
    BY DEF Returned
  <2>. HIDE DEF k
  <2>2. QED  BY <2>1
<1>. HIDE DEF r
<1>3. r \in ClientStates /\ r.user = k.user /\ r.to = k.to /\ r.listen = k.listen
      /\ \/ r = k
         \/ k.main = "connecting" /\ r.main \in {"running", "refused"} /\ r.send = k.send
         \/ r.main = k.main /\ k.send = "sending" /\ r.send \in {"done", "typing"}
  <2>. HIDE DEF k
  <2>1. CASE k.main = "connecting" /\ r = [k EXCEPT !.main = IF b THEN "running" ELSE "refused"]
    BY <1>1, <2>1 DEF ClientStates
  <2>2. CASE k.send = "sending" /\ r \in {[k EXCEPT !.send = "done"], [k EXCEPT !.send = "typing"]}
    BY <1>1, <2>2 DEF ClientStates
  <2>3. CASE r = k
    BY <1>1, <2>3
  <2>4. QED  BY <1>2, <2>1, <2>2, <2>3
<1>4. client'[c] = r /\ \A d \in Clients \ {c} : client'[d] = client[d]
  BY <1>2
<1>. HIDE DEF k
<1>5. client' \in [Clients -> ClientStates]
  BY <1>2, <1>3
<1>6. QED  BY <1>3, <1>4, <1>5 DEF k

(* A step of one client, seen from the server: a step of the server, or none. *)
LEMMA IsServerStep ==
  ASSUME ClientsOK, [MNext]_all
  PROVE  [Next]_vars
<1>1. ASSUME NEW c \in Clients, Connect(c) PROVE [Next]_vars
  BY <1>1, HandlersOfClients, ClientsAssumption DEF Connect, Calling, Next, Request
<1>2. ASSUME NEW c \in Clients, NEW word \in Words, SendEnvelope(c, word) PROVE [Next]_vars
  <2>. DEFINE env == Received(c, client[c].to, word)
              n == Len(typed[c]) + 1
  <2>1. env.sender_id = client[c].user /\ env.recepient_id = client[c].to /\ CString(env.payload) = word
    BY WordsAreTexts, ReceivedIsTyped
  <2>2. client[c].user \in Users /\ client[c].to \in Contacts
    BY <1>2 DEF SendEnvelope, Running, ClientsOK
  <2>3. n \in Nat \ {0} /\ (n <= Limit[c] \/ word = Exit)
    BY <1>2 DEF SendEnvelope, ClientsOK, ClientTypes
  <2>4. Calling(IF word = Exit THEN ReceiveExit(Unary(c), client[c].user)
                               ELSE ReceiveMessage(Unary(c), <<c, client[c].to, n>>))
    BY <1>2, <2>1 DEF SendEnvelope
  <2>. HIDE DEF n
  <2>5. word # Exit => <<c, client[c].to, n>> \in Msgs
    BY <2>2, <2>3, MessageBuilt, ClientsAssumption
  <2>6. QED
    BY <2>2, <2>4, <2>5, HandlersOfClients DEF Calling, Next, Request
<1>3. ASSUME NEW c \in Clients, Answer(c) PROVE [Next]_vars
  BY <1>3, HandlersOfClients DEF Answer, Next
<1>4. ASSUME NEW c \in Clients, ListenOthers(c) PROVE [Next]_vars
  BY <1>4, HandlersOfClients DEF ListenOthers, Calling, Next, Request, Running, ClientsOK
<1>5. ASSUME NEW c \in Clients, Forward(c) \/ Watch(c) PROVE [Next]_vars
  BY <1>5, HandlersOfClients DEF Forward, Watch, Next, HandlerStep
<1>6. CASE Crash
  BY <1>6 DEF Crash, Next
<1>7. ASSUME NEW c \in Clients,
             Refuse(c) \/ AskRecipient(c) \/ Unavailable(c) \/ ReadMessage(c)
             \/ StopListening(c) \/ Join(c) \/ Kill(c)
      PROVE  [Next]_vars
  BY <1>7 DEF Refuse, AskRecipient, Unavailable, ReadMessage, StopListening, Join, Kill
<1>8. CASE UNCHANGED all
  BY <1>8 DEF all
<1>9. QED
  BY <1>1, <1>2, <1>3, <1>4, <1>5, <1>6, <1>7, <1>8
  DEF MNext, User, Returning, Streams, Threads

LEMMA StepClients ==
  ASSUME ClientsOK, [MNext]_all
  PROVE  ClientsOK'
<1>. USE DEF ClientsOK, ClientTypes, Running
<1>1. ASSUME NEW c \in Clients, Connect(c) \/ Refuse(c) PROVE ClientsOK'
  <2>1. CASE Connect(c)
    <3>1. PICK u \in Users : client' = [client EXCEPT ![c].main = "connecting", ![c].user = u]
      BY <2>1, ClientsAssumption DEF Connect
    <3>2. typed' = typed
      BY <2>1 DEF Connect
    <3>3. client' \in [Clients -> ClientStates]
      <4>. DEFINE k == [client EXCEPT ![c].main = "connecting"]
      <4>1. k \in [Clients -> ClientStates]
        BY DEF ClientStates
      <4>2. client' = [k EXCEPT ![c].user = u]
        BY <3>1
      <4>. HIDE DEF k
      <4>3. QED  BY <4>1, <4>2, FieldsKeepTypes
    <3>4. client'[c].user = u /\ client'[c].send = client[c].send /\ client'[c].to = client[c].to
      BY <3>1 DEF ClientStates
    <3>5. \A d \in Clients \ {c} : client'[d] = client[d]
      BY <3>1
    <3>6. QED  BY <3>2, <3>3, <3>4, <3>5
  <2>2. CASE Refuse(c)
    BY <2>2 DEF Refuse, ClientStates
  <2>3. QED  BY <1>1, <2>1, <2>2
<1>2. ASSUME NEW c \in Clients, AskRecipient(c) PROVE ClientsOK'
  BY <1>2, ClientsAssumption DEF AskRecipient, ClientStates
<1>3. ASSUME NEW c \in Clients, NEW word \in Words, SendEnvelope(c, word) PROVE ClientsOK'
  <2>1. write_message(word) \in Payloads
    BY WordsAreTexts, CopyIsPayload DEF write_message
  <2>2. client' = [client EXCEPT ![c].send = "sending", ![c].buffer = write_message(word)]
        /\ typed' = [typed EXCEPT ![c] = Append(@, word)] /\ client[c].send = "typing"
    BY <1>3 DEF SendEnvelope
  <2>3. client' \in [Clients -> ClientStates]
    <3>. DEFINE k == [client EXCEPT ![c].send = "sending"]
    <3>1. k \in [Clients -> ClientStates]
      BY DEF ClientStates
    <3>2. client' = [k EXCEPT ![c].buffer = write_message(word)]
      BY <2>2
    <3>. HIDE DEF k
    <3>3. QED  BY <2>1, <3>1, <3>2, FieldsKeepTypes
  <2>4. /\ client'[c].user = client[c].user /\ client'[c].main = client[c].main
        /\ client'[c].to = client[c].to
    BY <2>2 DEF ClientStates
  <2>5. \A d \in Clients \ {c} : client'[d] = client[d]
    BY <2>2
  <2>6. typed' \in [Clients -> Seq(Words)]
    BY <2>2
  <2>7. QED  BY <2>2, <2>3, <2>4, <2>5, <2>6
<1>4. ASSUME NEW c \in Clients, Returned(c, TRUE) \/ Returned(c, FALSE), typed' = typed
      PROVE  ClientsOK'
  BY <1>4, ReturnedClient
<1>5. ASSUME NEW c \in Clients, ListenOthers(c) \/ StopListening(c) \/ Join(c) PROVE ClientsOK'
  <2>1. CASE ListenOthers(c)
    BY <2>1 DEF ListenOthers, ClientStates
  <2>2. CASE StopListening(c)
    BY <2>2 DEF StopListening, ClientStates
  <2>3. CASE Join(c)
    BY <2>3 DEF Join, ClientStates
  <2>4. QED  BY <1>5, <2>1, <2>2, <2>3
<1>6. ASSUME NEW c \in Clients, Kill(c) PROVE ClientsOK'
  BY <1>6 DEF Kill, ClientStates
<1>7. CASE UNCHANGED <<client, typed>>
  BY <1>7
<1>8. QED
  BY <1>1, <1>2, <1>3, <1>4, <1>5, <1>6, <1>7
  DEF MNext, User, Returning, Streams, Threads, Answer, Unavailable, Forward, Watch, ReadMessage,
      Crash, app, all

(* The server inside the messenger behaves as the server does by itself. *)
THEOREM MessengerRunsTheServer == MSpec => Spec
<1>1. MInit => Init /\ ClientsOK
  BY InitClients DEF MInit
<1>2. ClientsOK /\ [MNext]_all => ClientsOK' /\ [Next]_vars
  BY StepClients, IsServerStep
<1>3. QED  BY <1>1, <1>2, PTL DEF MSpec, Spec

--------------------------------------------------------------------------------
(* What the server keeps, as long as the heap does not reuse memory: in addition to
   the invariants of GrpcServerProofs and GrpcMailProofs, no cell holds junk. *)
ServerInv ==
  /\ Types /\ Apart /\ MailInv /\ OneEntry
  /\ cell \in [Nodes -> Seq(Msgs)]

LEMMA InitServer == ASSUME Init PROVE ServerInv
BY InitTypes, InitApart, InitMail, InitEntries DEF Init, ServerInv

LEMMA StepServer ==
  ASSUME ~Recycle, ServerInv, [Next]_vars
  PROVE  ServerInv'
<1>1. Types' /\ Apart' /\ MailInv' /\ OneEntry'
  BY StepTypes, StepApart, StepMail, StepEntry, NewMemoryIsFresh DEF ServerInv
<1>. DEFINE Cells == [Nodes -> Seq(Msgs)]
<1>2. cell \in Cells
  BY DEF ServerInv
<1>3. /\ \A n \in Allocated : n \in Nodes
      /\ \A h \in Handlers :
           /\ At(h, "push") => rpc[h].env \in Msgs /\ rpc[h].node \in Nodes
           /\ At(h, "pop") => rpc[h].node \in Nodes
  BY DEF Allocated, Untouched, At, ServerInv, Types, TypeOK, Calls, LocalsOK, Receiving, IsMailFor
<1>4. \A n \in Nodes : Moved(n) = <<>>
  BY DEF Moved
<1>5. ASSUME NEW u, NEW n \in Allocated, Insert(u, n, <<>>) PROVE cell' \in Cells
  <2>1. cell' = [cell EXCEPT ![n] = <<>>]
    BY <1>5 DEF Insert
  <2>2. n \in Nodes /\ <<>> \in Seq(Msgs)
    BY <1>3
  <2>3. QED  BY <1>2, <2>1, <2>2
<1>6. ASSUME NEW h \in Handlers, AddUserToConnected(h) PROVE cell' \in Cells
  BY <1>2, <1>3, <1>4, <1>5, <1>6 DEF AddUserToConnected
<1>7. ASSUME NEW h \in Handlers, IndexToPush(h) \/ IndexToPop(h) PROVE cell' \in Cells
  BY <1>2, <1>5, <1>7 DEF IndexToPush, IndexToPop, Index
<1>8. ASSUME NEW h \in Handlers, PushEnvelope(h) PROVE cell' \in Cells
  <2>. DEFINE n == rpc[h].node
  <2>1. rpc[h].env \in Msgs /\ n \in Nodes
    BY <1>3, <1>8 DEF PushEnvelope
  <2>2. cell' = cell \/ cell' = [cell EXCEPT ![n] = Append(cell[n], rpc[h].env)]
    BY <1>8 DEF PushEnvelope
  <2>. HIDE DEF n
  <2>3. Append(cell[n], rpc[h].env) \in Seq(Msgs)
    BY <1>2, <2>1
  <2>4. QED  BY <1>2, <2>2, <2>3
<1>9. ASSUME NEW h \in Handlers, PopEnvelope(h) PROVE cell' \in Cells
  <2>. DEFINE n == rpc[h].node
  <2>1. n \in Nodes
    BY <1>3, <1>9 DEF PopEnvelope
  <2>2. cell' = cell \/ (cell[n] # <<>> /\ cell' = [cell EXCEPT ![n] = Tail(cell[n])])
    BY <1>9 DEF PopEnvelope, Rest
  <2>. HIDE DEF n
  <2>3. cell[n] # <<>> => Tail(cell[n]) \in Seq(Msgs)
    BY <1>2, <2>1
  <2>4. QED  BY <1>2, <2>2, <2>3
<1>10. ASSUME cell' = cell PROVE cell' \in Cells
  BY <1>2, <1>10
<1>11. cell' \in Cells
  <2>. HIDE DEF Cells
  <2>. QED
    BY <1>6, <1>7, <1>8, <1>9, <1>10
    DEF Next, Request, HandlerStep, Abort, vars, history, AcceptConnection, ReceiveExit,
        StreamIncomingMessages, ReceiveMessage, DisconnectUser, IsRecipientOnline, Poll,
        WriteEnvelope
<1>12. QED  BY <1>1, <1>11 DEF ServerInv

--------------------------------------------------------------------------------
(* Mail waits in its recipient's entry, until a logout. *)
Boxed ==
  \A k \in Nodes : \A j \in DOMAIN cell[k] :
    LET u == To[cell[k][j]]
    IN  session[u] \in {"never", "first"} => post_box[u] = k

LEMMA StepBoxed ==
  ASSUME ~Recycle, ServerInv, Boxed, [Next]_vars
  PROVE  Boxed'
<1>. USE ValuesAssumption, ToAssumption
<1>0. /\ cell \in [Nodes -> Seq(Msgs)] /\ post_box \in [Users -> Nodes \cup {NoNode}]
      /\ session \in [Users -> {"never", "first", "out", "again"}]
      /\ \A k \in Nodes : \A j \in DOMAIN cell[k] : cell[k][j] \in Msgs /\ To[cell[k][j]] \in Users
      /\ \A u \in Users : session[u] = "never" => post_box[u] = NoNode
      /\ \A u \in Users : session[u] = "first" => post_box[u] # NoNode
      /\ \A h \in Handlers : rpc[h].pc # "idle" => rpc[h].user \in Users
  BY DEF ServerInv, OneEntry, OnlineOnlyAfterLogin, Online, Types, TypeOK, LocalsOK
<1>1. ASSUME \A k \in Nodes : \A j \in DOMAIN cell'[k] :
               \E i \in DOMAIN cell[k] : cell'[k][j] = cell[k][i],
             \A u \in Users : session'[u] \in {"never", "first"} =>
               /\ session[u] \in {"never", "first"}
               /\ post_box'[u] = post_box[u] \/ session[u] = "never"
      PROVE  Boxed'
  <2>1. ASSUME NEW k \in Nodes, NEW j \in DOMAIN cell'[k],
               session'[To[cell'[k][j]]] \in {"never", "first"}
        PROVE  post_box'[To[cell'[k][j]]] = k
    <3>1. PICK i \in DOMAIN cell[k] : cell'[k][j] = cell[k][i]
      BY <1>1
    <3>. DEFINE u == To[cell[k][i]]
    <3>2. u \in Users /\ session'[u] \in {"never", "first"}
      BY <1>0, <2>1, <3>1
    <3>3. session[u] \in {"never", "first"} /\ (post_box'[u] = post_box[u] \/ session[u] = "never")
      BY <1>1, <3>2
    <3>4. post_box[u] = k
      BY <3>3 DEF Boxed
    <3>5. QED  BY <1>0, <3>1, <3>2, <3>3, <3>4
  <2>2. QED  BY <2>1 DEF Boxed
<1>2. ASSUME cell' = cell, post_box' = post_box, session' = session PROVE Boxed'
  BY <1>2 DEF Boxed
<1>3. ASSUME NEW v \in Users, NEW n \in Allocated, Insert(v, n, <<>>), session[v] # "first"
      PROVE  /\ \A k \in Nodes : \A j \in DOMAIN cell'[k] :
                  \E i \in DOMAIN cell[k] : cell'[k][j] = cell[k][i]
             /\ \A u \in Users : post_box'[u] = post_box[u] \/ u = v
  <2>1. n \in Nodes
    BY DEF Allocated, Untouched
  <2>2. cell'[n] = <<>> /\ \A k \in Nodes \ {n} : cell'[k] = cell[k]
    BY <1>0, <1>3, <2>1 DEF Insert
  <2>3. \A k \in Nodes : \A j \in DOMAIN cell'[k] : j \in DOMAIN cell[k] /\ cell'[k][j] = cell[k][j]
    BY <2>2
  <2>4. \A u \in Users : post_box'[u] = post_box[u] \/ u = v
    BY <1>0, <1>3 DEF Insert
  <2>5. QED  BY <2>3, <2>4
<1>4. \A k \in Nodes : cell'[k] = cell[k] => \A j \in DOMAIN cell'[k] :
        \E i \in DOMAIN cell[k] : cell'[k][j] = cell[k][i]
  OBVIOUS
<1>5. ASSUME NEW h \in Handlers, AddUserToConnected(h) PROVE Boxed'
  <2>. DEFINE v == rpc[h].user
  <2>1. v \in Users /\ \A n \in Allocated : Moved(n) = <<>>
    BY <1>0, <1>5 DEF AddUserToConnected, At, Moved
  <2>2. LogsIn(v) /\ ((cell' = cell /\ post_box' = post_box)
                      \/ (~Online(v) /\ \E n \in Allocated : Insert(v, n, <<>>)))
    BY <1>5, <2>1 DEF AddUserToConnected
  <2>. HIDE DEF v
  <2>3. \A u \in Users : session'[u] \in {"never", "first"} => session[u] \in {"never", "first"}
    BY <1>0, <2>1, <2>2 DEF LogsIn
  <2>4. CASE cell' = cell /\ post_box' = post_box
    BY <1>1, <1>4, <2>3, <2>4
  <2>5. ASSUME ~Online(v), NEW n \in Allocated, Insert(v, n, <<>>) PROVE Boxed'
    <3>1. session[v] # "first"
      BY <1>0, <2>1, <2>5 DEF Online
    <3>2. QED  BY <1>1, <1>3, <2>1, <2>3, <2>5, <3>1
  <2>6. QED  BY <2>2, <2>4, <2>5
<1>6. ASSUME NEW h \in Handlers, IndexToPush(h) \/ IndexToPop(h) PROVE Boxed'
  <2>. DEFINE v == rpc[h].user
  <2>1. v \in Users /\ session' = session /\ session[v] # "never"
    BY <1>0, <1>6 DEF IndexToPush, IndexToPop, Index, At, ServerInv, OneEntry, Found
  <2>2. \/ cell' = cell /\ post_box' = post_box
        \/ ~Online(v) /\ \E n \in Allocated : Insert(v, n, <<>>)
    BY <1>6 DEF IndexToPush, IndexToPop, Index
  <2>. HIDE DEF v
  <2>3. ASSUME ~Online(v), NEW n \in Allocated, Insert(v, n, <<>>) PROVE Boxed'
    <3>1. session[v] # "first" /\ session[v] # "never"
      BY <1>0, <2>1, <2>3 DEF Online
    <3>2. QED  BY <1>1, <1>3, <2>1, <2>3, <3>1
  <2>4. QED  BY <1>2, <2>1, <2>2, <2>3
<1>7. ASSUME NEW h \in Handlers, DisconnectUser(h) PROVE Boxed'
  <2>. DEFINE v == rpc[h].user
  <2>1. /\ v \in Users /\ cell' = cell /\ post_box' = [post_box EXCEPT ![v] = NoNode]
        /\ session' = [session EXCEPT ![v] = IF @ = "never" THEN @ ELSE "out"]
    BY <1>0, <1>7 DEF DisconnectUser, At
  <2>. HIDE DEF v
  <2>2. \A u \in Users : session'[u] \in {"never", "first"} =>
          session[u] \in {"never", "first"} /\ (post_box'[u] = post_box[u] \/ session[u] = "never")
    BY <1>0, <2>1
  <2>3. QED  BY <1>1, <1>4, <2>1, <2>2
<1>8. ASSUME NEW h \in Handlers, PushEnvelope(h) PROVE Boxed'
  <2>. DEFINE n == rpc[h].node
              m == rpc[h].env
  <2>1. /\ n \in Nodes /\ m \in Msgs /\ To[m] \in Users
        /\ session[To[m]] \in {"never", "first"} => post_box[To[m]] = n
    BY <1>0, <1>8
    DEF PushEnvelope, At, ServerInv, Types, TypeOK, Calls, LocalsOK, Receiving, IsMailFor,
        OneEntry, Found
  <2>2. /\ post_box' = post_box /\ session' = session
        /\ cell' = cell \/ cell' = [cell EXCEPT ![n] = Append(cell[n], m)]
    BY <1>8 DEF PushEnvelope
  <2>. HIDE DEF n, m
  <2>3. CASE cell' = [cell EXCEPT ![n] = Append(cell[n], m)]
    <3>. DEFINE s == cell[n]
                t == Append(s, m)
    <3>1. s \in Seq(Msgs) /\ cell'[n] = t /\ \A k \in Nodes \ {n} : cell'[k] = cell[k]
      BY <1>0, <2>1, <2>3
    <3>2. \A j \in DOMAIN t : t[j] = m \/ (j \in DOMAIN s /\ t[j] = s[j])
      <4>. HIDE DEF s
      <4>1. QED  BY <2>1, <3>1
    <3>. HIDE DEF t
    <3>3. ASSUME NEW k \in Nodes, NEW j \in DOMAIN cell'[k],
                 session[To[cell'[k][j]]] \in {"never", "first"}
          PROVE  post_box[To[cell'[k][j]]] = k
      <4>1. (cell'[k][j] = m /\ k = n) \/ (j \in DOMAIN cell[k] /\ cell'[k][j] = cell[k][j])
        BY <3>1, <3>2, <3>3
      <4>2. CASE cell'[k][j] = m /\ k = n
        BY <2>1, <3>3, <4>2
      <4>3. CASE j \in DOMAIN cell[k] /\ cell'[k][j] = cell[k][j]
        BY <3>3, <4>3 DEF Boxed
      <4>4. QED  BY <4>1, <4>2, <4>3
    <3>4. QED  BY <2>2, <3>3 DEF Boxed
  <2>4. QED  BY <1>2, <2>2, <2>3
<1>9. ASSUME NEW h \in Handlers, PopEnvelope(h) PROVE Boxed'
  <2>. DEFINE n == rpc[h].node
              s == cell[n]
  <2>1. n \in Nodes
    BY <1>9 DEF PopEnvelope, At, ServerInv, Types, TypeOK, Calls, LocalsOK
  <2>2. /\ post_box' = post_box /\ session' = session
        /\ cell' = cell \/ (s # <<>> /\ cell' = [cell EXCEPT ![n] = Tail(s)])
    BY <1>9 DEF PopEnvelope, Rest, history
  <2>. HIDE DEF n
  <2>3. CASE s # <<>> /\ cell' = [cell EXCEPT ![n] = Tail(s)]
    <3>1. s \in Seq(Msgs) /\ cell'[n] = Tail(s) /\ \A k \in Nodes \ {n} : cell'[k] = cell[k]
      BY <1>0, <2>1, <2>3
    <3>2. ASSUME NEW j \in DOMAIN Tail(s) PROVE \E i \in DOMAIN s : Tail(s)[j] = s[i]
      <4>. HIDE DEF s
      <4>1. j + 1 \in DOMAIN s /\ Tail(s)[j] = s[j + 1]
        BY <2>3, <3>1, <3>2
      <4>2. QED  BY <4>1
    <3>3. \A k \in Nodes : \A j \in DOMAIN cell'[k] :
            \E i \in DOMAIN cell[k] : cell'[k][j] = cell[k][i]
      <4>1. \A j \in DOMAIN cell'[n] : \E i \in DOMAIN cell[n] : cell'[n][j] = cell[n][i]
        BY <3>1, <3>2
      <4>2. \A k \in Nodes \ {n} : \A j \in DOMAIN cell'[k] :
              \E i \in DOMAIN cell[k] : cell'[k][j] = cell[k][i]
        BY <1>4, <3>1
      <4>. HIDE DEF s
      <4>3. QED  BY <4>1, <4>2
    <3>4. QED  BY <1>1, <2>2, <3>3
  <2>4. QED  BY <1>2, <2>2, <2>3
<1>10. QED
  BY <1>2, <1>5, <1>6, <1>7, <1>8, <1>9
  DEF Next, Request, HandlerStep, Abort, vars, history, AcceptConnection, ReceiveExit,
      StreamIncomingMessages, ReceiveMessage, IsRecipientOnline, Poll, WriteEnvelope

--------------------------------------------------------------------------------
(* Which handler runs for whom.  A client's stream runs for the client's user and not
   before the client has one; as long as the server is up, a client whose stream runs
   is reading it, or dead. *)
ThreadsOK ==
  /\ \A c \in Clients :
       /\ rpc[Unary(c)].pc \notin Streaming
       /\ rpc[Stream(c)].pc \in Streaming \cup {"idle"}
       /\ rpc[Stream(c)].pc # "idle" =>
            client[c].main # "start" /\ rpc[Stream(c)].user = client[c].user
       /\ up /\ rpc[Stream(c)].pc # "idle" =>
            client[c].main = "killed" \/ (Running(c) /\ client[c].listen = "reading")
  /\ \A h \in Handlers : Delivering(h) => h = Unary(rpc[h].env[1])

(* What a step of handler h does to the locals. *)
LEMMA HandlerMoves ==
  ASSUME Types, NEW h \in Handlers, HandlerStep(h)
  PROVE  /\ up /\ up' = up /\ rpc[h].pc # "idle"
         /\ \A g \in Handlers \ {h} : rpc'[g] = rpc[g]
         /\ rpc'[h].pc = "idle" \/ rpc'[h].user = rpc[h].user
         /\ rpc[h].pc \notin Streaming => rpc'[h].pc \notin Streaming
         /\ rpc[h].pc \in Streaming => rpc'[h].pc \in Streaming \cup {"idle"}
         /\ Delivering(h)' => Delivering(h) /\ rpc'[h].env = rpc[h].env
<1>. DEFINE Becomes(pc, n, e) == [pc |-> pc, user |-> rpc[h].user, node |-> n, env |-> e]
            Leads(l) ==
              \/ rpc[h].pc \in {"add", "erase", "online?", "push", "poll"} /\ l = Idle
              \/ rpc[h].pc = "online?" /\ \E n : l = Becomes("[]", n, rpc[h].env)
              \/ rpc[h].pc = "[]" /\ \E n : l = Becomes("push", n, rpc[h].env)
              \/ rpc[h].pc = "poll" /\ \E n, e : l = Becomes("stream[]", n, e)
              \/ rpc[h].pc = "stream[]" /\ \E n, e : l = Becomes("pop", n, e)
              \/ rpc[h].pc = "pop" /\ \E n, e : l = Becomes("poll", n, e) \/ l = Becomes("write", n, e)
              \/ rpc[h].pc = "write" /\ \E n, e : l = Becomes("poll", n, e)
<1>1. PICK l : rpc' = [rpc EXCEPT ![h] = l] /\ Leads(l)
  <2>. USE DEF At, Finish, Goto
  <2>1. CASE AddUserToConnected(h) \/ DisconnectUser(h) \/ PushEnvelope(h)
    BY <2>1 DEF AddUserToConnected, DisconnectUser, PushEnvelope
  <2>2. CASE IsRecipientOnline(h)
    BY <2>2 DEF IsRecipientOnline
  <2>3. CASE IndexToPush(h) \/ IndexToPop(h)
    BY <2>3 DEF IndexToPush, IndexToPop, Index
  <2>4. CASE Poll(h)
    BY <2>4 DEF Poll
  <2>5. CASE PopEnvelope(h)
    <3>1. CASE Goto(h, "poll", NoNode, Junk)
      BY <2>5, <3>1 DEF PopEnvelope
    <3>2. CASE Goto(h, "write", NoNode, Oldest(rpc[h].node))
      BY <2>5, <3>2 DEF PopEnvelope
    <3>3. QED  BY <2>5, <3>1, <3>2 DEF PopEnvelope
  <2>6. CASE WriteEnvelope(h)
    BY <2>6 DEF WriteEnvelope
  <2>7. QED  BY <2>1, <2>2, <2>3, <2>4, <2>5, <2>6 DEF HandlerStep
<1>2. rpc'[h] = l /\ \A g \in Handlers \ {h} : rpc'[g] = rpc[g]
  BY <1>1 DEF Types, TypeOK
<1>3. up /\ up' = up
  BY DEF HandlerStep, AddUserToConnected, DisconnectUser, IsRecipientOnline, IndexToPush, Index,
         PushEnvelope, Poll, IndexToPop, PopEnvelope, WriteEnvelope, At
<1>4. \A pc, n, e : Becomes(pc, n, e).pc = pc /\ Becomes(pc, n, e).user = rpc[h].user
                   /\ Becomes(pc, n, e).env = e
  OBVIOUS
<1>. HIDE DEF Becomes
<1>5. QED  BY <1>1, <1>2, <1>3, <1>4 DEF Streaming, Receiving, Delivering, Idle

LEMMA InitThreads == ASSUME MInit PROVE ThreadsOK
BY HandlersOfClients DEF MInit, Init, ThreadsOK, Idle, Streaming, Delivering, Receiving

LEMMA StepThreads ==
  ASSUME ClientsOK, Types, ThreadsOK, [MNext]_all
  PROVE  ThreadsOK'
<1>. USE HandlersOfClients
<1>. USE DEF Running
<1>0. client \in [Clients -> ClientStates] /\ rpc \in [Handlers -> Calls]
  BY DEF ClientsOK, ClientTypes, Types, TypeOK
<1>1. ASSUME NEW c \in Clients, Connect(c) PROVE ThreadsOK'
  <2>1. PICK u \in Users : Calling(AcceptConnection(Unary(c), u))
    BY <1>1, ClientsAssumption DEF Connect
  <2>2. /\ client[c].main = "start" /\ client'[c].main = "connecting"
        /\ \A d \in Clients \ {c} : client'[d] = client[d]
    BY <1>0, <1>1 DEF Connect, ClientStates
  <2>3. rpc[Stream(c)].pc = "idle"
    BY <2>2 DEF ThreadsOK
  <2>4. /\ up' = up
        /\ rpc'[Unary(c)] = rpc[Unary(c)] \/ rpc'[Unary(c)].pc = "add"
        /\ \A g \in Handlers \ {Unary(c)} : rpc'[g] = rpc[g]
    BY <1>0, <2>1 DEF Calling, AcceptConnection, Call, vars
  <2>5. QED  BY <2>2, <2>3, <2>4 DEF ThreadsOK, Streaming, Delivering, Receiving
<1>2. ASSUME NEW c \in Clients, Refuse(c) \/ AskRecipient(c) PROVE ThreadsOK'
  <2>1. UNCHANGED <<up, rpc>>
    BY <1>2 DEF Refuse, AskRecipient, vars
  <2>2. /\ \A d \in Clients \ {c} : client'[d] = client[d]
        /\ client'[c].user = client[c].user /\ client'[c].listen = client[c].listen
        /\ client[c].main = "start" \/ client'[c].main = client[c].main
    <3>1. CASE Refuse(c)
      BY <1>0, <3>1 DEF Refuse, ClientStates
    <3>2. CASE AskRecipient(c)
      <4>1. PICK u : client' = [client EXCEPT ![c].to = u, ![c].send = "typing"]
        BY <3>2 DEF AskRecipient
      <4>2. QED  BY <1>0, <4>1 DEF ClientStates
    <3>3. QED  BY <1>2, <3>1, <3>2
  <2>3. QED  BY <2>1, <2>2 DEF ThreadsOK, Delivering
<1>3. ASSUME NEW c \in Clients, NEW word \in Words, SendEnvelope(c, word) PROVE ThreadsOK'
  <2>1. /\ \A d \in Clients \ {c} : client'[d] = client[d]
        /\ client'[c].user = client[c].user /\ client'[c].listen = client[c].listen
        /\ client'[c].main = client[c].main
    BY <1>0, <1>3 DEF SendEnvelope, ClientStates
  <2>2. PICK u, n : \/ Calling(ReceiveExit(Unary(c), u))
                   \/ Calling(ReceiveMessage(Unary(c), <<c, u, n>>))
    BY <1>3 DEF SendEnvelope
  <2>3. /\ up' = up
        /\ \/ rpc'[Unary(c)] = rpc[Unary(c)] \/ rpc'[Unary(c)].pc = "erase"
           \/ rpc'[Unary(c)].pc = "online?" /\ rpc'[Unary(c)].env = <<c, u, n>>
        /\ \A g \in Handlers \ {Unary(c)} : rpc'[g] = rpc[g]
    BY <1>0, <2>2 DEF Calling, ReceiveExit, ReceiveMessage, Call, vars
  <2>4. <<c, u, n>>[1] = c
    OBVIOUS
  <2>5. QED  BY <2>1, <2>3, <2>4 DEF ThreadsOK, Streaming, Delivering, Receiving
<1>4. ASSUME NEW c \in Clients, Answer(c) PROVE ThreadsOK'
  <2>1. HandlerStep(Unary(c)) /\ (Returned(c, TRUE) \/ client' = client)
    BY <1>4 DEF Answer
  <2>2. /\ \A d \in Clients \ {c} : client'[d] = client[d]
        /\ client'[c].user = client[c].user /\ client'[c].listen = client[c].listen
        /\ client'[c].main = client[c].main \/ client[c].main = "connecting"
        /\ client'[c].main # "start" \/ client[c].main = "start"
    BY <1>0, <2>1, ReturnedClient
  <2>3. /\ up' = up
        /\ \A g \in Handlers \ {Unary(c)} : rpc'[g] = rpc[g]
        /\ rpc'[Unary(c)].pc \notin Streaming
        /\ Delivering(Unary(c))' => Delivering(Unary(c)) /\ rpc'[Unary(c)].env = rpc[Unary(c)].env
    BY <2>1, HandlerMoves DEF ThreadsOK
  <2>4. \A d \in Clients : rpc'[Stream(d)] = rpc[Stream(d)]
    BY <2>3
  <2>5. client[c].main = "connecting" => ~up \/ rpc[Stream(c)].pc = "idle"
    BY DEF ThreadsOK
  <2>6. QED  BY <2>2, <2>3, <2>4, <2>5 DEF ThreadsOK, Delivering
<1>5. ASSUME NEW c \in Clients, Unavailable(c) PROVE ThreadsOK'
  <2>1. UNCHANGED <<up, rpc>> /\ ~up /\ Returned(c, FALSE)
    BY <1>5 DEF Unavailable, vars
  <2>2. /\ \A d \in Clients \ {c} : client'[d] = client[d]
        /\ client'[c].user = client[c].user
        /\ client'[c].main # "start" \/ client[c].main = "start"
    BY <1>0, <2>1, ReturnedClient
  <2>3. QED  BY <2>1, <2>2 DEF ThreadsOK, Delivering
<1>6. ASSUME NEW c \in Clients, ListenOthers(c) PROVE ThreadsOK'
  <2>1. /\ client[c].main = "running" /\ client[c].listen = "off"
        /\ Calling(StreamIncomingMessages(Stream(c), client[c].user))
    BY <1>6 DEF ListenOthers
  <2>2. /\ \A d \in Clients \ {c} : client'[d] = client[d]
        /\ client'[c].user = client[c].user /\ client'[c].listen = "reading"
        /\ client'[c].main = client[c].main
    BY <1>0, <1>6 DEF ListenOthers, ClientStates
  <2>3. /\ up' = up
        /\ \/ ~up /\ rpc' = rpc
           \/ rpc'[Stream(c)].pc = "poll" /\ rpc'[Stream(c)].user = client[c].user
        /\ \A g \in Handlers \ {Stream(c)} : rpc'[g] = rpc[g]
    BY <1>0, <2>1 DEF Calling, StreamIncomingMessages, Call, vars
  <2>4. QED  BY <2>1, <2>2, <2>3 DEF ThreadsOK, Streaming, Delivering, Receiving
<1>7. ASSUME NEW c \in Clients, Forward(c) \/ Watch(c) PROVE ThreadsOK'
  <2>1. HandlerStep(Stream(c)) /\ client' = client
    BY <1>7 DEF Forward, Watch, HandlerStep, app
  <2>2. QED  BY <2>1, HandlerMoves DEF ThreadsOK, Streaming, Delivering, Receiving
<1>8. ASSUME NEW c \in Clients, StopListening(c) \/ Join(c) PROVE ThreadsOK'
  <2>1. UNCHANGED <<up, rpc>>
    BY <1>8 DEF StopListening, Join, vars
  <2>2. /\ client[c].main = "running" /\ client'[c].main # "start"
        /\ client[c].listen = "reading" => ~up \/ rpc[Stream(c)].pc = "idle"
        /\ client'[c].user = client[c].user
        /\ \A d \in Clients \ {c} : client'[d] = client[d]
    BY <1>0, <1>8 DEF StopListening, StreamEnded, Idle, Join, ClientStates
  <2>3. ~up \/ rpc[Stream(c)].pc = "idle"
    BY <2>2 DEF ThreadsOK
  <2>4. QED  BY <2>1, <2>2, <2>3 DEF ThreadsOK, Delivering
<1>9. ASSUME NEW c \in Clients, Kill(c) PROVE ThreadsOK'
  <2>1. UNCHANGED <<up, rpc>>
    BY <1>9 DEF Kill, vars
  <2>2. /\ client'[c].main = "killed" /\ client'[c].user = client[c].user
        /\ \A d \in Clients \ {c} : client'[d] = client[d]
    BY <1>0, <1>9 DEF Kill, ClientStates
  <2>3. QED  BY <2>1, <2>2 DEF ThreadsOK, Delivering
<1>10. CASE Crash
  <2>1. ~up' /\ rpc' = rpc /\ client' = client
    BY <1>10 DEF Crash, Abort, app
  <2>2. QED  BY <2>1 DEF ThreadsOK, Delivering
<1>11. CASE UNCHANGED <<up, rpc, client>>
  BY <1>11 DEF ThreadsOK, Delivering
<1>12. QED
  BY <1>1, <1>2, <1>3, <1>4, <1>5, <1>6, <1>7, <1>8, <1>9, <1>10, <1>11
  DEF MNext, User, Returning, Streams, Threads, ReadMessage, all, vars, app

--------------------------------------------------------------------------------
(* What no step takes back. *)
LEMMA ClientMoves ==
  ASSUME ClientsOK, [MNext]_all, NEW c \in Clients
  PROVE  /\ client[c].main # "start" =>
              client'[c].main # "start" /\ client'[c].user = client[c].user
         /\ client[c].main = "killed" => client'[c].main = "killed"
         /\ Len(typed[c]) <= Len(typed'[c])
         /\ \A i \in 1 .. Len(typed[c]) : typed'[c][i] = typed[c][i]
<1>. USE DEF Running
<1>. DEFINE Moves ==
              /\ client[c].main # "start" =>
                   client'[c].main # "start" /\ client'[c].user = client[c].user
              /\ client[c].main = "killed" => client'[c].main = "killed"
            Types0 == [Clients -> ClientStates]
<1>0. client \in Types0 /\ typed \in [Clients -> Seq(Words)]
  BY DEF ClientsOK, ClientTypes
<1>1. ASSUME NEW d \in Clients, User(d) \/ Returning(d) \/ Streams(d) \/ Threads(d)
      PROVE  Moves
  <2>1. CASE Connect(d) \/ Refuse(d)
    <3>1. client[d].main = "start" /\ \A e \in Clients \ {d} : client'[e] = client[e]
      BY <1>0, <2>1 DEF Connect, Refuse
    <3>2. QED  BY <3>1
  <2>2. CASE AskRecipient(d)
    <3>1. PICK u : client' = [client EXCEPT ![d].to = u, ![d].send = "typing"]
      BY <2>2 DEF AskRecipient
    <3>2. QED  BY <1>0, <3>1 DEF ClientStates
  <2>3. ASSUME NEW word \in Words, SendEnvelope(d, word) PROVE Moves
    BY <1>0, <2>3 DEF SendEnvelope, ClientStates
  <2>4. CASE Returning(d)
    <3>1. Returned(d, TRUE) \/ Returned(d, FALSE) \/ client' = client
      BY <2>4 DEF Returning, Answer, Unavailable
    <3>2. QED  BY <1>0, <3>1, ReturnedClient
  <2>5. CASE ListenOthers(d)
    BY <1>0, <2>5 DEF ListenOthers, ClientStates
  <2>6. CASE StopListening(d) \/ Join(d)
    BY <1>0, <2>6 DEF StopListening, Join, ClientStates
  <2>7. CASE Kill(d)
    BY <1>0, <2>7 DEF Kill, ClientStates
  <2>8. CASE client' = client
    BY <2>8
  <2>9. QED
    BY <1>1, <2>1, <2>2, <2>3, <2>4, <2>5, <2>6, <2>7, <2>8
    DEF User, Streams, Threads, Forward, Watch, ReadMessage, app
<1>2. typed' = typed \/ \E d, word : typed' = [typed EXCEPT ![d] = Append(@, word)]
  BY DEF MNext, User, Returning, Streams, Threads, Connect, Refuse, AskRecipient, SendEnvelope,
         Answer, Unavailable, ListenOthers, Forward, Watch, ReadMessage, StopListening, Join, Kill,
         Crash, app, all
<1>3. Len(typed[c]) <= Len(typed'[c]) /\ \A i \in 1 .. Len(typed[c]) : typed'[c][i] = typed[c][i]
  <2>1. CASE typed' = typed
    BY <1>0, <2>1
  <2>2. ASSUME NEW d, NEW word, typed' = [typed EXCEPT ![d] = Append(@, word)]
        PROVE  /\ Len(typed[c]) <= Len(typed'[c])
               /\ \A i \in 1 .. Len(typed[c]) : typed'[c][i] = typed[c][i]
    <3>1. typed'[c] = typed[c] \/ typed'[c] = Append(typed[c], word)
      BY <1>0, <2>2
    <3>. DEFINE s == typed[c]
    <3>2. s \in Seq(Words)
      BY <1>0
    <3>. HIDE DEF s
    <3>3. /\ Len(s) <= Len(s) /\ Len(s) <= Len(Append(s, word))
          /\ \A i \in 1 .. Len(s) : Append(s, word)[i] = s[i]
      BY <3>2
    <3>4. QED  BY <3>1, <3>3 DEF s
  <2>3. QED  BY <1>2, <2>1, <2>2
<1>4. Moves
  <2>1. client' = client => Moves
    OBVIOUS
  <2>. HIDE DEF Moves
  <2>2. QED  BY <1>1, <2>1 DEF MNext, Crash, app, all
<1>5. QED  BY <1>3, <1>4

(* What becomes of the envelopes in a step of handler h. *)
LEMMA FateMoves ==
  ASSUME Types, MailInv, NEW h \in Handlers, HandlerStep(h), NEW m \in Msgs
  PROVE  /\ fate'[m] = "new" <=> fate[m] = "new"
         /\ fate[m] = "written" => fate'[m] = "written"
         /\ fate'[m] = "written" => fate[m] = "written" \/ InHand(m, h)
<1>0. fate \in [Msgs -> Fates]
  BY DEF Types, TypeOK
<1>1. ASSUME NEW n \in Allocated, LoseMail(n)
      PROVE  fate'[m] = fate[m] \/ (fate[m] = "queued" /\ fate'[m] = "lost")
  <2>1. n \in Nodes /\ cell[n] \in Seq(Envelopes) /\ Len(cell[n]) <= Length
    BY DEF Allocated, Untouched, Types, TypeOK
  <2>2. m \in ToSet(cell[n]) => InSomeCell(m)
    BY <2>1, LengthAssumption DEF ToSet, InSomeCell, InCell
  <2>3. m \in ToSet(cell[n]) => fate[m] = "queued"
    BY <2>2 DEF MailInv, Tracked
  <2>4. QED  BY <1>1, <2>3 DEF LoseMail
<1>2. CASE AddUserToConnected(h) \/ IndexToPush(h) \/ IndexToPop(h)
  <2>1. fate' = fate \/ \E n \in Allocated : LoseMail(n)
    BY <1>2 DEF AddUserToConnected, IndexToPush, IndexToPop, Index, Insert
  <2>2. QED  BY <1>1, <2>1
<1>3. CASE IsRecipientOnline(h) \/ PushEnvelope(h)
  <2>1. Delivering(h)
    BY <1>3 DEF IsRecipientOnline, PushEnvelope, At, Delivering, Receiving
  <2>2. fate[rpc[h].env] = "sent"
    BY <2>1 DEF MailInv, SentOnce
  <2>3. fate' = fate \/ \E f \in {"refused", "queued"} : fate' = [fate EXCEPT ![rpc[h].env] = f]
    BY <1>3 DEF IsRecipientOnline, PushEnvelope
  <2>4. QED  BY <1>0, <2>2, <2>3
<1>4. CASE WriteEnvelope(h)
  <2>1. rpc[h].pc = "write" /\ (fate' = fate \/ fate' = [fate EXCEPT ![rpc[h].env] = "written"])
    BY <1>4 DEF WriteEnvelope, At
  <2>2. InHand(m, h) => fate[m] = "queued"
    BY DEF MailInv, Tracked, InSomeHand
  <2>3. QED  BY <1>0, <2>1, <2>2 DEF InHand
<1>5. CASE fate' = fate
  BY <1>5
<1>6. QED
  BY <1>2, <1>3, <1>4, <1>5 DEF HandlerStep, DisconnectUser, Poll, PopEnvelope, history

--------------------------------------------------------------------------------
(* Messages are numbered as they are typed, and the one being delivered is its sender's
   latest. *)
Numbered ==
  /\ \A m \in Msgs : fate[m] # "new" => m[3] <= Len(typed[m[1]])
  /\ \A h \in Handlers, m \in Msgs :
       Delivering(h) /\ fate[m] # "new" /\ m[1] = rpc[h].env[1] /\ m # rpc[h].env =>
         m[3] < rpc[h].env[3]

LEMMA StepNumbered ==
  ASSUME ClientsOK, Types, MailInv, ThreadsOK, Numbered, [MNext]_all
  PROVE  Numbered'
<1>. USE HandlersOfClients
<1>0. /\ typed \in [Clients -> Seq(Words)] /\ rpc \in [Handlers -> Calls] /\ fate \in [Msgs -> Fates]
      /\ \A m \in Msgs : m[1] \in Clients /\ m[3] \in Nat
      /\ \A h \in Handlers : Delivering(h) => rpc[h].env \in Msgs
  BY MessageShape, ClientsAssumption
  DEF ClientsOK, ClientTypes, Types, TypeOK, LocalsOK, Delivering, IsMailFor
<1>1. ASSUME \A m \in Msgs : fate'[m] = "new" <=> fate[m] = "new",
             \A h \in Handlers : Delivering(h)' => Delivering(h) /\ rpc'[h].env = rpc[h].env
      PROVE  Numbered'
  <2>1. \A c \in Clients : Len(typed[c]) <= Len(typed'[c]) /\ typed'[c] \in Seq(Words)
    BY ClientMoves, StepClients DEF ClientsOK, ClientTypes
  <2>2. \A m \in Msgs : fate'[m] # "new" => m[3] <= Len(typed'[m[1]])
    BY <1>0, <1>1, <2>1 DEF Numbered
  <2>3. ASSUME NEW h \in Handlers, NEW m \in Msgs, Delivering(h)', fate'[m] # "new",
               m[1] = rpc'[h].env[1], m # rpc'[h].env
        PROVE  m[3] < rpc'[h].env[3]
    BY <1>1, <2>3 DEF Numbered
  <2>4. QED  BY <2>2, <2>3 DEF Numbered
<1>2. ASSUME NEW h \in Handlers, HandlerStep(h) PROVE Numbered'
  <2>1. \A m \in Msgs : fate'[m] = "new" <=> fate[m] = "new"
    BY <1>2, FateMoves
  <2>2. \A g \in Handlers : Delivering(g)' => Delivering(g) /\ rpc'[g].env = rpc[g].env
    BY <1>2, HandlerMoves DEF Delivering
  <2>3. QED  BY <1>1, <2>1, <2>2
<1>3. ASSUME NEW h \in Handlers, NEW u, NEW pc \in {"add", "erase", "poll"}, Call(h, pc, u, Junk),
             fate' = fate
      PROVE  Numbered'
  <2>1. rpc'[h].pc = pc /\ \A g \in Handlers \ {h} : rpc'[g] = rpc[g]
    BY <1>0, <1>3 DEF Call
  <2>2. \A g \in Handlers : Delivering(g)' => Delivering(g) /\ rpc'[g].env = rpc[g].env
    BY <2>1 DEF Delivering, Receiving
  <2>3. QED  BY <1>1, <1>3, <2>2
<1>4. ASSUME fate' = fate, rpc' = rpc PROVE Numbered'
  BY <1>1, <1>4 DEF Delivering
<1>5. ASSUME NEW c \in Clients, NEW word \in Words, SendEnvelope(c, word) PROVE Numbered'
  <2>. DEFINE n == Len(typed[c]) + 1
              m == <<c, client[c].to, n>>
              h == Unary(c)
  <2>1. /\ Calling(IF word = Exit THEN ReceiveExit(h, client[c].user) ELSE ReceiveMessage(h, m))
        /\ typed' = [typed EXCEPT ![c] = Append(@, word)]
    <3>1. Received(c, client[c].to, word).sender_id = client[c].user
          /\ Received(c, client[c].to, word).recepient_id = client[c].to
          /\ CString(Received(c, client[c].to, word).payload) = word
      BY WordsAreTexts, ReceivedIsTyped
    <3>2. QED  BY <1>5, <3>1 DEF SendEnvelope
  <2>2. Len(typed'[c]) = n /\ \A d \in Clients \ {c} : typed'[d] = typed[d]
    BY <1>0, <2>1
  <2>3. m[1] = c /\ m[3] = n /\ n \in Nat /\ h \in Handlers
    BY <1>0
  <2>. HIDE DEF m, n
  <2>4. CASE ReceiveMessage(h, m)
    <3>1. /\ rpc'[h].env = m /\ \A g \in Handlers \ {h} : rpc'[g] = rpc[g]
          /\ fate' = [fate EXCEPT ![m] = "sent"]
      BY <1>0, <2>3, <2>4 DEF ReceiveMessage, Call
    <3>2. \A k \in Msgs : k[1] = c /\ fate[k] # "new" => k[3] < n
      BY <1>0 DEF Numbered, n
    <3>3. \A k \in Msgs : k # m => fate'[k] = fate[k]
      BY <1>0, <3>1
    <3>4. ASSUME NEW k \in Msgs, fate'[k] # "new" PROVE k[3] <= Len(typed'[k[1]])
      <4>1. CASE k = m
        BY <2>2, <2>3, <4>1
      <4>2. CASE k # m /\ k[1] = c
        BY <1>0, <2>2, <2>3, <3>2, <3>3, <3>4, <4>2
      <4>3. CASE k # m /\ k[1] # c
        BY <1>0, <2>2, <3>3, <3>4, <4>3 DEF Numbered
      <4>4. QED  BY <4>1, <4>2, <4>3
    <3>5. ASSUME NEW g \in Handlers, NEW k \in Msgs, Delivering(g)', fate'[k] # "new",
                 k[1] = rpc'[g].env[1], k # rpc'[g].env
          PROVE  k[3] < rpc'[g].env[3]
      <4>1. CASE g = h
        BY <2>3, <3>1, <3>2, <3>3, <3>5, <4>1
      <4>2. CASE g # h
        <5>1. Delivering(g) /\ rpc'[g] = rpc[g]
          BY <3>1, <3>5, <4>2 DEF Delivering
        <5>2. rpc[g].env[1] # c
          BY <4>2, <5>1 DEF ThreadsOK
        <5>3. k # m
          BY <2>3, <3>5, <5>1, <5>2
        <5>4. QED  BY <3>3, <3>5, <5>1, <5>3 DEF Numbered
      <4>3. QED  BY <4>1, <4>2
    <3>6. QED  BY <3>4, <3>5 DEF Numbered
  <2>5. CASE ~ReceiveMessage(h, m)
    <3>1. ReceiveExit(h, client[c].user) \/ UNCHANGED vars
      BY <2>1, <2>5 DEF Calling
    <3>2. CASE ReceiveExit(h, client[c].user)
      BY <1>3, <2>3, <3>2 DEF ReceiveExit, history
    <3>3. CASE UNCHANGED vars
      BY <1>4, <3>3 DEF vars
    <3>4. QED  BY <3>1, <3>2, <3>3
  <2>6. QED  BY <2>4, <2>5
<1>6. ASSUME NEW c \in Clients, Connect(c) PROVE Numbered'
  BY <1>3, <1>4, <1>6 DEF Connect, Calling, AcceptConnection, vars, history
<1>7. ASSUME NEW c \in Clients, ListenOthers(c) PROVE Numbered'
  BY <1>3, <1>4, <1>7 DEF ListenOthers, Calling, StreamIncomingMessages, vars, history
<1>8. ASSUME NEW c \in Clients, Answer(c) \/ Forward(c) \/ Watch(c) PROVE Numbered'
  BY <1>2, <1>8 DEF Answer, Forward, Watch, HandlerStep
<1>9. QED
  BY <1>4, <1>5, <1>6, <1>7, <1>8
  DEF MNext, User, Returning, Streams, Threads, Refuse, AskRecipient, Unavailable, ReadMessage,
      StopListening, Join, Kill, Crash, Abort, vars, all, history

OnWireAt(m, c, i) == i \in DOMAIN wire[c] /\ wire[c][i] = m
ShownAt(m, c, i) == i \in DOMAIN shown[c] /\ shown[c][i].msg = m

Visible(m) == \E c \in Clients : \E i : OnWireAt(m, c, i) \/ ShownAt(m, c, i)

(* What a client has been written was written, for its user, and what it shows is what
   was typed. *)
ViewsOK ==
  /\ wire \in [Clients -> Seq(Msgs)]
  /\ shown \in [Clients -> Seq([msg : Msgs, text : Texts])]
  /\ \A c \in Clients, m \in Msgs : \A i :
       OnWireAt(m, c, i) \/ ShownAt(m, c, i) =>
         client[c].main # "start" /\ fate[m] = "written" /\ To[m] = client[c].user
  /\ \A c \in Clients : \A i \in DOMAIN shown[c] :
       shown[c][i].text = typed[shown[c][i].msg[1]][shown[c][i].msg[3]]

(* A message is in one place on the way to one screen. *)
SeenOnce(m) ==
  /\ \A c, d \in Clients : \A i, j : OnWireAt(m, c, i) /\ OnWireAt(m, d, j) => c = d /\ i = j
  /\ \A c, d \in Clients : \A i, j : ShownAt(m, c, i) /\ ShownAt(m, d, j) => c = d /\ i = j
  /\ \A c, d \in Clients : \A i, j : ~(OnWireAt(m, c, i) /\ ShownAt(m, d, j))

Orphaned(u) == \E c \in Clients : client[c].user = u /\ client[c].main = "killed"

FlowInv ==
  /\ Numbered /\ ViewsOK
  /\ \A m \in Msgs : SeenOnce(m)
  /\ \A m \in Msgs : fate[m] = "written" => Visible(m) \/ Orphaned(To[m])

(* A text that was typed stays what it was. *)
LEMMA TextStays ==
  ASSUME ClientsOK, Numbered, [MNext]_all, NEW m \in Msgs, fate[m] # "new"
  PROVE  /\ typed[m[1]][m[3]] \in Texts
         /\ typed'[m[1]][m[3]] = typed[m[1]][m[3]]
<1>1. m[1] \in Clients /\ m[3] \in 1 .. Len(typed[m[1]]) /\ typed[m[1]] \in Seq(Words)
  BY MessageShape, ClientsAssumption DEF Numbered, ClientsOK, ClientTypes
<1>2. typed[m[1]][m[3]] \in Words
  BY <1>1
<1>3. typed'[m[1]][m[3]] = typed[m[1]][m[3]]
  BY <1>1, ClientMoves
<1>4. QED  BY <1>2, <1>3, WordsAreTexts

LEMMA InitFlow == ASSUME MInit PROVE FlowInv
BY DEF MInit, Init, FlowInv, Numbered, Delivering, Receiving, Idle, ViewsOK, SeenOnce, Visible,
       OnWireAt, ShownAt

(* A step in which no client is written or shown anything, and none is killed. *)
LEMMA ViewsStay ==
  ASSUME ClientsOK, Numbered', FlowInv, [MNext]_all, wire' = wire, shown' = shown,
         \A m \in Msgs : fate'[m] = "written" <=> fate[m] = "written"
  PROVE  FlowInv'
<1>1. \A m, c, i : (OnWireAt(m, c, i)' <=> OnWireAt(m, c, i)) /\ (ShownAt(m, c, i)' <=> ShownAt(m, c, i))
  BY DEF OnWireAt, ShownAt
<1>2. /\ wire' \in [Clients -> Seq(Msgs)]
      /\ shown' \in [Clients -> Seq([msg : Msgs, text : Texts])]
  BY DEF FlowInv, ViewsOK
<1>3. ASSUME NEW c \in Clients, NEW m \in Msgs, NEW i, OnWireAt(m, c, i)' \/ ShownAt(m, c, i)'
      PROVE  client'[c].main # "start" /\ fate'[m] = "written" /\ To[m] = client'[c].user
  <2>1. client[c].main # "start" /\ fate[m] = "written" /\ To[m] = client[c].user
    BY <1>1, <1>3 DEF FlowInv, ViewsOK
  <2>2. QED  BY <2>1, ClientMoves
<1>4. ASSUME NEW c \in Clients, NEW i \in DOMAIN shown'[c]
      PROVE  shown'[c][i].text = typed'[shown'[c][i].msg[1]][shown'[c][i].msg[3]]
  <2>. DEFINE m == shown[c][i].msg
  <2>1. shown[c] \in Seq([msg : Msgs, text : Texts]) /\ i \in DOMAIN shown[c]
    BY <1>4 DEF FlowInv, ViewsOK
  <2>2. m \in Msgs /\ ShownAt(m, c, i) /\ shown[c][i].text = typed[m[1]][m[3]]
    <3>1. shown[c][i] \in [msg : Msgs, text : Texts]
      <4>. DEFINE S == [msg : Msgs, text : Texts]
      <4>1. shown[c] \in Seq(S)
        BY <2>1
      <4>. HIDE DEF S
      <4>2. shown[c][i] \in S
        BY <2>1, <4>1
      <4>3. QED  BY <4>2 DEF S
    <3>2. m \in Msgs /\ ShownAt(m, c, i)
      BY <2>1, <3>1 DEF ShownAt
    <3>3. shown[c][i].text = typed[m[1]][m[3]]
      BY <2>1 DEF FlowInv, ViewsOK
    <3>4. QED  BY <3>2, <3>3
  <2>3. fate[m] = "written"
    BY <2>2 DEF FlowInv, ViewsOK
  <2>4. typed'[m[1]][m[3]] = typed[m[1]][m[3]]
    BY <2>2, <2>3, TextStays DEF FlowInv
  <2>5. QED  BY <2>2, <2>4
<1>5. ViewsOK'
  BY <1>2, <1>3, <1>4 DEF ViewsOK
<1>6. \A m \in Msgs : SeenOnce(m)'
  BY <1>1 DEF FlowInv, SeenOnce
<1>7. ASSUME NEW m \in Msgs, fate'[m] = "written" PROVE Visible(m)' \/ Orphaned(To[m])'
  <2>1. CASE Visible(m)
    BY <1>1, <2>1 DEF Visible
  <2>2. CASE Orphaned(To[m])
    <3>1. PICK c \in Clients : client[c].user = To[m] /\ client[c].main = "killed"
      BY <2>2 DEF Orphaned
    <3>2. client'[c].user = To[m] /\ client'[c].main = "killed"
      BY <3>1, ClientMoves
    <3>3. QED  BY <3>2 DEF Orphaned
  <2>3. QED  BY <1>7, <2>1, <2>2 DEF FlowInv
<1>8. QED  BY <1>5, <1>6, <1>7 DEF FlowInv

LEMMA ForwardFlow ==
  ASSUME ClientsOK, Types, Apart, MailInv, ThreadsOK, Numbered', FlowInv, [MNext]_all,
         NEW c \in Clients, Forward(c)
  PROVE  FlowInv'
<1>. DEFINE h == Stream(c)
<1>0. PICK e : e = rpc[h].env
  OBVIOUS
<1>1. /\ h \in Handlers /\ up /\ rpc[h].pc = "write"
      /\ e \in Msgs /\ To[e] = rpc[h].user
      /\ fate' = [fate EXCEPT ![e] = "written"]
      /\ wire' = [wire EXCEPT ![c] = IF Running(c) THEN Append(@, e) ELSE @]
      /\ client' = client /\ typed' = typed /\ shown' = shown
  BY <1>0, HandlersOfClients DEF Forward, WriteEnvelope, At, Apart, IsMailFor
<1>2. /\ client[c].user = To[e] /\ client[c].main # "start"
      /\ client[c].main = "killed" \/ Running(c)
  BY <1>1 DEF ThreadsOK
<1>3. fate[e] = "queued"
  BY <1>0, <1>1 DEF MailInv, Tracked, InSomeHand, InHand
<1>. HIDE DEF h
<1>4. \A d \in Clients : \A i : ~OnWireAt(e, d, i) /\ ~ShownAt(e, d, i)
  BY <1>1, <1>3 DEF FlowInv, ViewsOK
<1>5. fate'[e] = "written" /\ \A m \in Msgs \ {e} : fate'[m] = fate[m]
  BY <1>1 DEF Types, TypeOK
<1>6. /\ wire \in [Clients -> Seq(Msgs)]
      /\ shown \in [Clients -> Seq([msg : Msgs, text : Texts])]
  BY DEF FlowInv, ViewsOK
<1>7. /\ \A m, d, i : ShownAt(m, d, i)' <=> ShownAt(m, d, i)
      /\ \A d \in Clients \ {c} : \A m, i : OnWireAt(m, d, i)' <=> OnWireAt(m, d, i)
  BY <1>1, <1>6 DEF OnWireAt, ShownAt
<1>8. /\ wire'[c] = (IF Running(c) THEN Append(wire[c], e) ELSE wire[c])
      /\ wire' \in [Clients -> Seq(Msgs)]
  BY <1>1, <1>6
<1>9. \A m, i : OnWireAt(m, c, i)' =>
        OnWireAt(m, c, i) \/ (Running(c) /\ m = e /\ i = Len(wire[c]) + 1)
  BY <1>6, <1>8 DEF OnWireAt
<1>10. /\ \A m, i : OnWireAt(m, c, i) => OnWireAt(m, c, i)'
       /\ Running(c) => \E i : OnWireAt(e, c, i)'
  <2>. DEFINE s == wire[c]
  <2>1. /\ s \in Seq(Msgs) /\ DOMAIN s = 1 .. Len(s) /\ Len(s) \in Nat
        /\ DOMAIN Append(s, e) = 1 .. Len(s) + 1
        /\ \A i \in 1 .. Len(s) : Append(s, e)[i] = s[i]
        /\ Append(s, e)[Len(s) + 1] = e
    BY <1>6
  <2>2. wire'[c] = s \/ wire'[c] = Append(s, e)
    BY <1>8
  <2>3. Running(c) => wire'[c] = Append(s, e)
    BY <1>8
  <2>4. \A m, i : OnWireAt(m, c, i) <=> i \in 1 .. Len(s) /\ s[i] = m
    BY <2>1 DEF OnWireAt
  <2>5. \A m, i : OnWireAt(m, c, i)' <=> i \in DOMAIN wire'[c] /\ wire'[c][i] = m
    BY DEF OnWireAt
  <2>. HIDE DEF s
  <2>6. \A m, i : OnWireAt(m, c, i) => OnWireAt(m, c, i)'
    BY <2>1, <2>2, <2>4, <2>5
  <2>7. ASSUME Running(c) PROVE \E i : OnWireAt(e, c, i)'
    <3>1. PICK i : i = Len(s) + 1
      OBVIOUS
    <3>2. OnWireAt(e, c, i)'
      BY <2>1, <2>3, <2>5, <2>7, <3>1
    <3>3. QED  BY <3>2
  <2>8. QED  BY <2>6, <2>7
<1>11. ASSUME NEW d \in Clients, NEW m \in Msgs, NEW i, OnWireAt(m, d, i)' \/ ShownAt(m, d, i)'
       PROVE  client[d].main # "start" /\ fate'[m] = "written" /\ To[m] = client[d].user
  <2>1. OnWireAt(m, d, i) \/ ShownAt(m, d, i) \/ (m = e /\ d = c)
    BY <1>7, <1>9, <1>11
  <2>2. CASE m = e /\ d = c
    BY <1>2, <1>5, <2>2
  <2>3. CASE OnWireAt(m, d, i) \/ ShownAt(m, d, i)
    <3>1. client[d].main # "start" /\ fate[m] = "written" /\ To[m] = client[d].user
      BY <2>3 DEF FlowInv, ViewsOK
    <3>2. QED  BY <1>5, <3>1
  <2>4. QED  BY <2>1, <2>2, <2>3
<1>12. ViewsOK'
  BY <1>1, <1>6, <1>8, <1>11 DEF FlowInv, ViewsOK
<1>13. ASSUME NEW m \in Msgs PROVE SeenOnce(m)'
  <2>1. CASE m = e
    BY <1>4, <1>7, <1>9, <2>1 DEF SeenOnce
  <2>2. CASE m # e
    <3>1. \A d \in Clients : \A i : OnWireAt(m, d, i)' => OnWireAt(m, d, i)
      BY <1>7, <1>9, <2>2
    <3>2. QED  BY <1>7, <3>1 DEF FlowInv, SeenOnce
  <2>3. QED  BY <2>1, <2>2
<1>14. ASSUME NEW m \in Msgs, fate'[m] = "written" PROVE Visible(m)' \/ Orphaned(To[m])'
  <2>1. CASE m = e
    <3>1. CASE Running(c)
      BY <1>10, <2>1, <3>1 DEF Visible
    <3>2. CASE client[c].main = "killed"
      BY <1>1, <1>2, <2>1, <3>2 DEF Orphaned
    <3>3. QED  BY <1>2, <3>1, <3>2
  <2>2. CASE m # e
    <3>1. Visible(m) => Visible(m)'
      BY <1>7, <1>10 DEF Visible
    <3>2. QED  BY <1>1, <1>5, <1>14, <2>2, <3>1 DEF FlowInv, Orphaned
  <2>3. QED  BY <2>1, <2>2
<1>15. QED  BY <1>12, <1>13, <1>14 DEF FlowInv

(* A message read leaves the wire and is shown, as it was typed. *)
LEMMA ReadMoves ==
  ASSUME ClientsOK, FlowInv, [MNext]_all, NEW c \in Clients, ReadMessage(c),
         NEW m, m = Head(wire[c]), NEW line, line = [msg |-> m, text |-> CString(Read(m).payload)]
  PROVE  /\ wire[c] # <<>> /\ client' = client /\ typed' = typed /\ fate' = fate
         /\ shown' = [shown EXCEPT ![c] = Append(@, line)]
         /\ m \in Msgs /\ OnWireAt(m, c, 1)
         /\ client[c].main # "start" /\ fate[m] = "written" /\ To[m] = client[c].user
         /\ line.msg = m /\ line.text = typed[m[1]][m[3]]
         /\ wire' \in [Clients -> Seq(Msgs)]
         /\ shown'[c] = Append(shown[c], line) /\ \A d \in Clients \ {c} : shown'[d] = shown[d]
         /\ shown' \in [Clients -> Seq([msg : Msgs, text : Texts])]
         /\ \A d \in Clients : \A k, i :
              OnWireAt(k, d, i)' <=> IF d = c THEN i \in Nat \ {0} /\ OnWireAt(k, c, i + 1)
                                              ELSE OnWireAt(k, d, i)
         /\ \A d \in Clients : \A k, i :
              ShownAt(k, d, i)' <=> ShownAt(k, d, i) \/ (d = c /\ k = m /\ i = Len(shown[c]) + 1)
<1>1. /\ wire[c] # <<>> /\ wire' = [wire EXCEPT ![c] = Tail(@)]
      /\ shown' = [shown EXCEPT ![c] = Append(@, line)]
      /\ client' = client /\ typed' = typed /\ fate' = fate
  BY DEF ReadMessage, vars
<1>2. /\ wire \in [Clients -> Seq(Msgs)]
      /\ shown \in [Clients -> Seq([msg : Msgs, text : Texts])]
  BY DEF FlowInv, ViewsOK
<1>3. m \in Msgs /\ OnWireAt(m, c, 1)
  BY <1>1, <1>2 DEF OnWireAt
<1>4. client[c].main # "start" /\ fate[m] = "written" /\ To[m] = client[c].user
  BY <1>3 DEF FlowInv, ViewsOK
<1>5. typed[m[1]][m[3]] \in Texts
  BY <1>3, <1>4, TextStays DEF FlowInv
<1>6. line.msg = m /\ line.text = typed[m[1]][m[3]] /\ line \in [msg : Msgs, text : Texts]
  BY <1>3, <1>5, ReadIsTyped
<1>7. /\ wire'[c] = Tail(wire[c]) /\ \A d \in Clients \ {c} : wire'[d] = wire[d]
      /\ wire' \in [Clients -> Seq(Msgs)]
  <2>1. Tail(wire[c]) \in Seq(Msgs)
    BY <1>1, <1>2
  <2>. DEFINE s == Tail(wire[c])
  <2>2. wire' = [wire EXCEPT ![c] = s]
    BY <1>1
  <2>. HIDE DEF s
  <2>3. s \in Seq(Msgs)
    BY <2>1 DEF s
  <2>4. wire'[c] = s /\ wire' \in [Clients -> Seq(Msgs)] /\ \A d \in Clients \ {c} : wire'[d] = wire[d]
    BY <1>2, <2>2, <2>3
  <2>5. QED  BY <2>4 DEF s
<1>8. /\ shown'[c] = Append(shown[c], line) /\ \A d \in Clients \ {c} : shown'[d] = shown[d]
      /\ shown' \in [Clients -> Seq([msg : Msgs, text : Texts])]
  <2>. DEFINE S == [msg : Msgs, text : Texts]
              s == Append(shown[c], line)
  <2>1. shown \in [Clients -> Seq(S)] /\ line \in S
    BY <1>2, <1>6
  <2>. HIDE DEF S
  <2>2. s \in Seq(S) /\ shown' = [shown EXCEPT ![c] = s]
    BY <1>1, <2>1
  <2>. HIDE DEF s
  <2>3. shown'[c] = s /\ shown' \in [Clients -> Seq(S)] /\ \A d \in Clients \ {c} : shown'[d] = shown[d]
    BY <2>1, <2>2
  <2>4. QED  BY <2>3 DEF s, S
<1>9. \A d \in Clients : \A k, i :
        OnWireAt(k, d, i)' <=> IF d = c THEN i \in Nat \ {0} /\ OnWireAt(k, c, i + 1)
                                        ELSE OnWireAt(k, d, i)
  <2>. DEFINE s == wire[c]
              t == wire'[c]
  <2>1. /\ DOMAIN t = 1 .. Len(s) - 1 /\ \A i \in 1 .. Len(s) - 1 : t[i] = s[i + 1]
        /\ DOMAIN s = 1 .. Len(s) /\ Len(s) \in Nat
    BY <1>1, <1>2, <1>7
  <2>2. \A k, i : (OnWireAt(k, c, i) <=> i \in DOMAIN s /\ s[i] = k)
                 /\ (OnWireAt(k, c, i)' <=> i \in DOMAIN t /\ t[i] = k)
    BY DEF OnWireAt
  <2>. HIDE DEF s, t
  <2>3. \A i : i \in DOMAIN t <=> i \in Nat \ {0} /\ i + 1 \in DOMAIN s
    BY <2>1
  <2>4. \A k, i : OnWireAt(k, c, i)' <=> i \in Nat \ {0} /\ OnWireAt(k, c, i + 1)
    BY <2>1, <2>2, <2>3
  <2>5. \A d \in Clients \ {c} : \A k, i : OnWireAt(k, d, i)' <=> OnWireAt(k, d, i)
    BY <1>7 DEF OnWireAt
  <2>6. QED  BY <2>4, <2>5
<1>10. \A d \in Clients : \A k, i :
         ShownAt(k, d, i)' <=> ShownAt(k, d, i) \/ (d = c /\ k = m /\ i = Len(shown[c]) + 1)
  <2>. DEFINE s == shown[c]
              t == shown'[c]
  <2>1. /\ DOMAIN t = 1 .. Len(s) + 1 /\ \A i \in 1 .. Len(s) : t[i] = s[i]
        /\ t[Len(s) + 1].msg = m
        /\ DOMAIN s = 1 .. Len(s) /\ Len(s) \in Nat
    BY <1>2, <1>6, <1>8
  <2>2. \A k, i : (ShownAt(k, c, i) <=> i \in DOMAIN s /\ s[i].msg = k)
                 /\ (ShownAt(k, c, i)' <=> i \in DOMAIN t /\ t[i].msg = k)
    BY DEF ShownAt
  <2>. HIDE DEF s, t
  <2>3. \A i : i \in DOMAIN t <=> i \in DOMAIN s \/ i = Len(s) + 1
    BY <2>1
  <2>4. \A i \in DOMAIN s : t[i] = s[i] /\ i # Len(s) + 1
    BY <2>1
  <2>5. \A k, i : ShownAt(k, c, i)' <=> ShownAt(k, c, i) \/ (k = m /\ i = Len(s) + 1)
    BY <2>1, <2>2, <2>3, <2>4
  <2>6. \A d \in Clients \ {c} : \A k, i : ShownAt(k, d, i)' <=> ShownAt(k, d, i)
    BY <1>8 DEF ShownAt
  <2>7. QED  BY <2>5, <2>6 DEF s
<1>11. QED  BY <1>1, <1>3, <1>4, <1>6, <1>7, <1>8, <1>9, <1>10

LEMMA ReadFlow ==
  ASSUME ClientsOK, Numbered', FlowInv, [MNext]_all, NEW c \in Clients, ReadMessage(c)
  PROVE  FlowInv'
<1>0. PICK m : m = Head(wire[c])
  OBVIOUS
<1>a. PICK line : line = [msg |-> m, text |-> CString(Read(m).payload)]
  OBVIOUS
<1>1. /\ client' = client /\ typed' = typed /\ fate' = fate
      /\ m \in Msgs /\ OnWireAt(m, c, 1)
      /\ client[c].main # "start" /\ fate[m] = "written" /\ To[m] = client[c].user
      /\ line.msg = m /\ line.text = typed[m[1]][m[3]]
      /\ wire' \in [Clients -> Seq(Msgs)]
      /\ shown'[c] = Append(shown[c], line) /\ \A d \in Clients \ {c} : shown'[d] = shown[d]
      /\ shown' \in [Clients -> Seq([msg : Msgs, text : Texts])]
      /\ \A d \in Clients : \A k, i :
           OnWireAt(k, d, i)' <=> IF d = c THEN i \in Nat \ {0} /\ OnWireAt(k, c, i + 1)
                                           ELSE OnWireAt(k, d, i)
      /\ \A d \in Clients : \A k, i :
           ShownAt(k, d, i)' <=> ShownAt(k, d, i) \/ (d = c /\ k = m /\ i = Len(shown[c]) + 1)
  <2>1. /\ client' = client /\ typed' = typed /\ fate' = fate
        /\ m \in Msgs /\ OnWireAt(m, c, 1)
        /\ client[c].main # "start" /\ fate[m] = "written" /\ To[m] = client[c].user
        /\ line.msg = m /\ line.text = typed[m[1]][m[3]]
        /\ wire' \in [Clients -> Seq(Msgs)]
    BY <1>0, <1>a, ReadMoves
  <2>2. shown'[c] = Append(shown[c], line) /\ \A d \in Clients \ {c} : shown'[d] = shown[d]
    BY <1>0, <1>a, ReadMoves
  <2>3. shown' \in [Clients -> Seq([msg : Msgs, text : Texts])]
    BY <1>0, <1>a, ReadMoves
  <2>4. \A d \in Clients : \A k, i :
          OnWireAt(k, d, i)' <=> IF d = c THEN i \in Nat \ {0} /\ OnWireAt(k, c, i + 1)
                                          ELSE OnWireAt(k, d, i)
    BY <1>0, <1>a, ReadMoves
  <2>5. \A d \in Clients : \A k, i :
          ShownAt(k, d, i)' <=> ShownAt(k, d, i) \/ (d = c /\ k = m /\ i = Len(shown[c]) + 1)
    BY <1>0, <1>a, ReadMoves
  <2>6. QED  BY <2>1, <2>2, <2>3, <2>4, <2>5
<1>2. /\ wire \in [Clients -> Seq(Msgs)]
      /\ shown \in [Clients -> Seq([msg : Msgs, text : Texts])]
  BY DEF FlowInv, ViewsOK
<1>11. \A d \in Clients, k \in Msgs : \A i :
         OnWireAt(k, d, i)' \/ ShownAt(k, d, i)' =>
           client[d].main # "start" /\ fate[k] = "written" /\ To[k] = client[d].user
  BY <1>1 DEF FlowInv, ViewsOK
<1>12. \A d \in Clients : \A i \in DOMAIN shown'[d] :
         shown'[d][i].text = typed[shown'[d][i].msg[1]][shown'[d][i].msg[3]]
  <2>. DEFINE Faithful(r) == r.text = typed[r.msg[1]][r.msg[3]]
  <2>1. \A d \in Clients : \A i \in DOMAIN shown[d] : Faithful(shown[d][i])
    BY DEF FlowInv, ViewsOK
  <2>2. Faithful(line)
    BY <1>1
  <2>. HIDE DEF Faithful
  <2>3. ASSUME NEW i \in DOMAIN shown'[c] PROVE Faithful(shown'[c][i])
    <3>1. shown'[c][i] = line \/ (i \in DOMAIN shown[c] /\ shown'[c][i] = shown[c][i])
      BY <1>2, <1>1, <2>3
    <3>2. QED  BY <2>1, <2>2, <3>1
  <2>4. \A d \in Clients : \A i \in DOMAIN shown'[d] : Faithful(shown'[d][i])
    BY <1>1, <2>1, <2>3
  <2>5. QED  BY <2>4 DEF Faithful
<1>13. ViewsOK'
  <2>1. \A d \in Clients, k \in Msgs : \A i :
          OnWireAt(k, d, i)' \/ ShownAt(k, d, i)' =>
            client'[d].main # "start" /\ fate'[k] = "written" /\ To[k] = client'[d].user
    BY <1>1, <1>11
  <2>2. \A d \in Clients : \A i \in DOMAIN shown'[d] :
          shown'[d][i].text = typed'[shown'[d][i].msg[1]][shown'[d][i].msg[3]]
    BY <1>1, <1>12
  <2>3. QED  BY <1>1, <2>1, <2>2 DEF ViewsOK
<1>14. ASSUME NEW k \in Msgs PROVE SeenOnce(k)'
  <2>1. SeenOnce(k) /\ SeenOnce(m)
    BY <1>1 DEF FlowInv
  <2>2. \A d, e \in Clients : \A i, j : OnWireAt(k, d, i)' /\ OnWireAt(k, e, j)' => d = e /\ i = j
    <3>1. ASSUME NEW d \in Clients, NEW e \in Clients, NEW i, NEW j,
                 OnWireAt(k, d, i)', OnWireAt(k, e, j)'
          PROVE  d = e /\ i = j
      <4>. DEFINE a == IF d = c THEN i + 1 ELSE i
                  b == IF e = c THEN j + 1 ELSE j
      <4>1. OnWireAt(k, d, a) /\ OnWireAt(k, e, b)
        BY <1>1, <3>1
      <4>2. d = e /\ a = b
        <5>. HIDE DEF a, b
        <5>1. QED  BY <2>1, <4>1 DEF SeenOnce
      <4>3. d = c => i \in Nat /\ j \in Nat
        BY <1>1, <3>1, <4>2
      <4>4. QED  BY <4>2, <4>3
    <3>2. QED  BY <3>1
  <2>3. CASE k = m
    <3>1. \A d \in Clients : \A i : ~OnWireAt(k, d, i)'
      <4>1. \A d \in Clients : \A i : OnWireAt(m, d, i) => d = c /\ i = 1
        BY <1>1, <2>1 DEF SeenOnce
      <4>2. QED  BY <1>1, <2>3, <4>1
    <3>2. \A d \in Clients : \A i : ~ShownAt(m, d, i)
      BY <1>1, <2>1 DEF SeenOnce
    <3>3. QED  BY <1>1, <2>3, <3>1, <3>2 DEF SeenOnce
  <2>4. CASE k # m
    <3>1. \A d \in Clients : \A i : ShownAt(k, d, i)' <=> ShownAt(k, d, i)
      BY <1>1, <2>4
    <3>2. \A d \in Clients : \A i : OnWireAt(k, d, i)' => \E j : OnWireAt(k, d, j)
      BY <1>1
    <3>3. QED  BY <2>1, <2>2, <3>1, <3>2 DEF SeenOnce
  <2>5. QED  BY <2>3, <2>4
<1>15. ASSUME NEW k \in Msgs, Visible(k) PROVE Visible(k)'
  <2>0. PICK d \in Clients : \E i : OnWireAt(k, d, i) \/ ShownAt(k, d, i)
    BY <1>15 DEF Visible
  <2>1. PICK i : OnWireAt(k, d, i) \/ ShownAt(k, d, i)
    BY <2>0
  <2>2. CASE ShownAt(k, d, i) \/ d # c
    BY <1>1, <2>1, <2>2 DEF Visible
  <2>3. CASE OnWireAt(k, c, i) /\ d = c
    <3>1. i \in Nat \ {0} /\ (i = 1 => k = m)
      BY <1>0, <1>2, <2>3 DEF OnWireAt
    <3>2. CASE i = 1
      <4>1. \E i0 : ShownAt(k, c, i0)'
        BY <1>1, <3>1, <3>2
      <4>2. QED  BY <4>1 DEF Visible
    <3>3. CASE i # 1
      <4>1. i - 1 \in Nat \ {0} /\ (i - 1) + 1 = i
        BY <3>1, <3>3
      <4>2. OnWireAt(k, c, i - 1)'
        BY <1>1, <2>3, <4>1
      <4>3. QED  BY <4>2 DEF Visible
    <3>4. QED  BY <3>2, <3>3
  <2>4. QED  BY <2>1, <2>2, <2>3
<1>16. QED  BY <1>1, <1>13, <1>14, <1>15 DEF FlowInv, Orphaned

LEMMA KillFlow ==
  ASSUME ClientsOK, Numbered', FlowInv, [MNext]_all, NEW c \in Clients, Kill(c)
  PROVE  FlowInv'
<1>1. /\ wire' = [wire EXCEPT ![c] = <<>>] /\ shown' = shown /\ typed' = typed /\ fate' = fate
      /\ client[c].main # "start" /\ client'[c].main = "killed"
  BY DEF Kill, vars, ClientsOK, ClientTypes, ClientStates
<1>2. /\ wire \in [Clients -> Seq(Msgs)]
      /\ shown \in [Clients -> Seq([msg : Msgs, text : Texts])]
  BY DEF FlowInv, ViewsOK
<1>3. wire' \in [Clients -> Seq(Msgs)] /\ wire'[c] = <<>> /\ \A d \in Clients \ {c} : wire'[d] = wire[d]
  BY <1>1, <1>2
<1>4. /\ \A m, d, i : ShownAt(m, d, i)' <=> ShownAt(m, d, i)
      /\ \A d \in Clients : \A m, i : OnWireAt(m, d, i)' <=> OnWireAt(m, d, i) /\ d # c
  BY <1>1, <1>3 DEF OnWireAt, ShownAt
<1>5. \A d \in Clients : client[d].main # "start" =>
        client'[d].main # "start" /\ client'[d].user = client[d].user
  BY ClientMoves
<1>6. \A d \in Clients, m \in Msgs : \A i :
        OnWireAt(m, d, i)' \/ ShownAt(m, d, i)' =>
          client'[d].main # "start" /\ fate'[m] = "written" /\ To[m] = client'[d].user
  BY <1>1, <1>4, <1>5 DEF FlowInv, ViewsOK
<1>7. ViewsOK'
  BY <1>1, <1>2, <1>3, <1>6 DEF FlowInv, ViewsOK
<1>8. \A m \in Msgs : SeenOnce(m)'
  BY <1>4 DEF FlowInv, SeenOnce
<1>9. ASSUME NEW m \in Msgs, fate'[m] = "written" PROVE Visible(m)' \/ Orphaned(To[m])'
  <2>1. CASE \E i : OnWireAt(m, c, i)
    <3>1. client[c].user = To[m]
      BY <2>1 DEF FlowInv, ViewsOK
    <3>2. QED  BY <1>1, <1>5, <3>1 DEF Orphaned
  <2>2. CASE Visible(m) /\ ~(\E i : OnWireAt(m, c, i))
    BY <1>4, <2>2 DEF Visible
  <2>3. CASE Orphaned(To[m])
    <3>1. PICK d \in Clients : client[d].user = To[m] /\ client[d].main = "killed"
      BY <2>3 DEF Orphaned
    <3>2. client'[d].user = To[m] /\ client'[d].main = "killed"
      BY <3>1, ClientMoves
    <3>3. QED  BY <3>2 DEF Orphaned
  <2>4. QED  BY <1>1, <1>9, <2>1, <2>2, <2>3 DEF FlowInv
<1>10. QED  BY <1>7, <1>8, <1>9 DEF FlowInv

LEMMA StepFlow ==
  ASSUME ClientsOK, Types, Apart, MailInv, ThreadsOK, FlowInv, [MNext]_all
  PROVE  FlowInv'
<1>1. Numbered'
  BY StepNumbered DEF FlowInv
<1>2. ASSUME NEW h \in Handlers, HandlerStep(h), rpc[h].pc # "write", wire' = wire, shown' = shown
      PROVE  FlowInv'
  <2>1. \A m \in Msgs : fate'[m] = "written" <=> fate[m] = "written"
    BY <1>2, FateMoves DEF InHand
  <2>2. QED  BY <1>1, <1>2, <2>1, ViewsStay
<1>3. ASSUME NEW c \in Clients, Answer(c) PROVE FlowInv'
  <2>1. rpc[Unary(c)].pc # "write"
    BY DEF ThreadsOK, Streaming
  <2>2. QED  BY <1>2, <1>3, <2>1, HandlersOfClients DEF Answer
<1>4. ASSUME NEW c \in Clients, Watch(c) PROVE FlowInv'
  <2>1. rpc[Stream(c)].pc # "write" /\ HandlerStep(Stream(c))
    BY <1>4 DEF Watch, Poll, IndexToPop, Index, PopEnvelope, At, HandlerStep
  <2>2. QED  BY <1>2, <1>4, <2>1, HandlersOfClients DEF Watch, app
<1>5. ASSUME NEW c \in Clients, NEW word \in Words, SendEnvelope(c, word) PROVE FlowInv'
  <2>1. PICK u, m : \/ Calling(ReceiveExit(Unary(c), u))
                   \/ Calling(ReceiveMessage(Unary(c), m))
    BY <1>5 DEF SendEnvelope
  <2>2. fate' = fate \/ (fate[m] = "new" /\ fate' = [fate EXCEPT ![m] = "sent"])
    BY <2>1 DEF Calling, ReceiveExit, ReceiveMessage, vars, history
  <2>3. \A k \in Msgs : fate'[k] = "written" <=> fate[k] = "written"
    BY <2>2 DEF Types, TypeOK
  <2>4. QED  BY <1>1, <1>5, <2>3, ViewsStay DEF SendEnvelope
<1>6. ASSUME fate' = fate, wire' = wire, shown' = shown PROVE FlowInv'
  BY <1>1, <1>6, ViewsStay
<1>7. ASSUME NEW c \in Clients, Connect(c) \/ ListenOthers(c) PROVE FlowInv'
  BY <1>6, <1>7
  DEF Connect, ListenOthers, Calling, AcceptConnection, StreamIncomingMessages, vars, history
<1>8. ASSUME NEW c \in Clients,
             Refuse(c) \/ AskRecipient(c) \/ Unavailable(c) \/ StopListening(c) \/ Join(c)
      PROVE  FlowInv'
  BY <1>6, <1>8 DEF Refuse, AskRecipient, Unavailable, StopListening, Join, vars
<1>9. CASE Crash \/ UNCHANGED all
  BY <1>6, <1>9 DEF Crash, Abort, history, vars, app, all
<1>10. QED
  BY <1>1, <1>3, <1>4, <1>5, <1>7, <1>8, <1>9, ForwardFlow, ReadFlow, KillFlow
  DEF MNext, User, Returning, Streams, Threads

--------------------------------------------------------------------------------
(* Order.  Message m may come before n. *)
Before(m, n) == m[1] = n[1] => m[3] < n[3]

(* The nodes client c's stream pops from, or will find. *)
Reads(c, n) ==
  \/ client[c].user \in Users /\ post_box[client[c].user] = n
  \/ rpc[Stream(c)].node = n

(* m has been popped for client c. *)
Taken(m, c) == (\E i : OnWireAt(m, c, i) \/ ShownAt(m, c, i)) \/ InHand(m, Stream(c))

(* What a client is shown, has been written and is about to be written comes in order,
   and before what waits where its stream reads. *)
TakenInOrder(c) ==
  /\ \A i, j \in DOMAIN shown[c] : i < j => Before(shown[c][i].msg, shown[c][j].msg)
  /\ \A i, j \in DOMAIN wire[c] : i < j => Before(wire[c][i], wire[c][j])
  /\ \A i \in DOMAIN shown[c], j \in DOMAIN wire[c] : Before(shown[c][i].msg, wire[c][j])
  /\ \A m, n \in Msgs : \A i :
       (OnWireAt(m, c, i) \/ ShownAt(m, c, i)) /\ InHand(n, Stream(c)) => Before(m, n)
  /\ \A k \in Nodes, m \in Msgs : Reads(c, k) /\ Taken(m, c) =>
       \A j \in DOMAIN cell[k] : Before(m, cell[k][j])

(* Cells are in order; what a stream may still pop from an erased entry comes before what
   waits in the user's new one; and a sender that is about to push to an erased entry has
   nothing in the new one. *)
CellsInOrder ==
  /\ \A k \in Nodes : \A i, j \in DOMAIN cell[k] : i < j => Before(cell[k][i], cell[k][j])
  /\ \A c \in Clients, k, l \in Nodes :
       rpc[Stream(c)].node = k /\ post_box[rpc[Stream(c)].user] = l /\ k # l =>
         \A i \in DOMAIN cell[k], j \in DOMAIN cell[l] : Before(cell[k][i], cell[l][j])
  /\ \A h \in Handlers, l \in Nodes :
       rpc[h].pc = "push" /\ post_box[rpc[h].user] = l /\ rpc[h].node # l =>
         \A j \in DOMAIN cell[l] : cell[l][j][1] # rpc[h].env[1]

InSequence == CellsInOrder /\ \A c \in Clients : TakenInOrder(c)

LEMMA InitSequence == ASSUME MInit PROVE InSequence
BY ValuesAssumption
DEF MInit, Init, InSequence, CellsInOrder, TakenInOrder, Reads, Taken, InHand, OnWireAt, ShownAt, Idle

(* A step in which no cell is pushed to or popped, no entry is found but the one there
   is, and a new one is empty. *)
LEMMA CellsStay ==
  ASSUME Types', CellsInOrder,
         \A k \in Nodes : cell'[k] = cell[k] \/ cell'[k] = <<>>,
         \A u \in Users :
           post_box'[u] \in Nodes => post_box'[u] = post_box[u] \/ cell'[post_box'[u]] = <<>>,
         \A h \in Handlers :
           rpc'[h].node \in Nodes => rpc'[h] = rpc[h] \/ rpc'[h].node = post_box'[rpc'[h].user]
  PROVE  CellsInOrder'
<1>1. \A k \in Nodes : \A i \in DOMAIN cell'[k] : cell'[k] = cell[k]
  OBVIOUS
<1>2. \A h \in Handlers :
        /\ rpc'[h].node \in Nodes => rpc'[h].user \in Users
        /\ rpc'[h].pc = "push" => rpc'[h].node \in Nodes
  BY ValuesAssumption DEF Types, TypeOK, Calls, LocalsOK
<1>3. \A k \in Nodes : \A i, j \in DOMAIN cell'[k] : i < j => Before(cell'[k][i], cell'[k][j])
  BY <1>1 DEF CellsInOrder
<1>4. ASSUME NEW c \in Clients, NEW k \in Nodes, NEW l \in Nodes,
             rpc'[Stream(c)].node = k, post_box'[rpc'[Stream(c)].user] = l, k # l,
             NEW i \in DOMAIN cell'[k], NEW j \in DOMAIN cell'[l]
      PROVE  Before(cell'[k][i], cell'[l][j])
  <2>1. cell'[k] = cell[k] /\ cell'[l] = cell[l] /\ cell'[l] # <<>>
    BY <1>1, <1>4
  <2>2. rpc'[Stream(c)] = rpc[Stream(c)]
    BY <1>4, HandlersOfClients
  <2>3. post_box[rpc[Stream(c)].user] = l
    BY <1>2, <1>4, <2>1, <2>2, HandlersOfClients
  <2>4. QED  BY <1>4, <2>1, <2>2, <2>3 DEF CellsInOrder
<1>5. ASSUME NEW h \in Handlers, NEW l \in Nodes, rpc'[h].pc = "push",
             post_box'[rpc'[h].user] = l, rpc'[h].node # l, NEW j \in DOMAIN cell'[l]
      PROVE  cell'[l][j][1] # rpc'[h].env[1]
  <2>1. cell'[l] = cell[l] /\ cell'[l] # <<>>
    BY <1>1, <1>5
  <2>2. rpc'[h] = rpc[h]
    BY <1>2, <1>5
  <2>3. post_box[rpc[h].user] = l
    BY <1>2, <1>5, <2>1, <2>2
  <2>4. rpc[h].pc = "push" /\ rpc[h].node # l /\ j \in DOMAIN cell[l]
    BY <1>5, <2>1, <2>2
  <2>5. cell[l][j][1] # rpc[h].env[1]
    BY <2>3, <2>4 DEF CellsInOrder
  <2>6. QED  BY <2>1, <2>2, <2>5
<1>6. QED  BY <1>3, <1>4, <1>5 DEF CellsInOrder, Before

LEMMA TakenStays ==
  ASSUME NEW c \in Clients, TakenInOrder(c), shown'[c] = shown[c], wire'[c] = wire[c],
         \A m \in Msgs : InHand(m, Stream(c))' => InHand(m, Stream(c)),
         \A k \in Nodes :
           Reads(c, k)' => Reads(c, k) \/ cell'[k] = <<>> \/ \A m \in Msgs : ~Taken(m, c),
         \A k \in Nodes : cell'[k] = cell[k] \/ cell'[k] = <<>>
  PROVE  TakenInOrder(c)'
<1>1. \A m, i : (OnWireAt(m, c, i)' <=> OnWireAt(m, c, i)) /\ (ShownAt(m, c, i)' <=> ShownAt(m, c, i))
  BY DEF OnWireAt, ShownAt
<1>2. \A m \in Msgs : Taken(m, c)' => Taken(m, c)
  BY <1>1 DEF Taken
<1>3. ASSUME NEW k \in Nodes, NEW m \in Msgs, Reads(c, k)', Taken(m, c)', NEW j \in DOMAIN cell'[k]
      PROVE  Before(m, cell'[k][j])
  <2>1. cell'[k] = cell[k] /\ cell'[k] # <<>>
    OBVIOUS
  <2>2. Reads(c, k) /\ Taken(m, c)
    BY <1>2, <1>3, <2>1
  <2>3. QED  BY <2>1, <2>2 DEF TakenInOrder
<1>4. \A m, n \in Msgs : \A i :
        (OnWireAt(m, c, i)' \/ ShownAt(m, c, i)') /\ InHand(n, Stream(c))' => Before(m, n)
  BY <1>1 DEF TakenInOrder
<1>5. /\ \A i, j \in DOMAIN shown'[c] : i < j => Before(shown'[c][i].msg, shown'[c][j].msg)
      /\ \A i, j \in DOMAIN wire'[c] : i < j => Before(wire'[c][i], wire'[c][j])
      /\ \A i \in DOMAIN shown'[c], j \in DOMAIN wire'[c] : Before(shown'[c][i].msg, wire'[c][j])
  BY DEF TakenInOrder
<1>6. QED  BY <1>3, <1>4, <1>5 DEF TakenInOrder, Before

(* The steps of a handler that leave the mail where it is. *)
LEMMA LookupMoves ==
  ASSUME Types, ~Recycle, NEW h \in Handlers,
         AddUserToConnected(h) \/ DisconnectUser(h) \/ IsRecipientOnline(h)
         \/ IndexToPush(h) \/ Poll(h) \/ IndexToPop(h)
  PROVE  /\ \A k \in Nodes : cell'[k] = cell[k] \/ cell'[k] = <<>>
         /\ \A u \in Users :
              post_box'[u] \in Nodes => post_box'[u] = post_box[u] \/ cell'[post_box'[u]] = <<>>
         /\ \A g \in Handlers \ {h} : rpc'[g] = rpc[g]
         /\ rpc'[h].node \in Nodes =>
              rpc'[h].user = rpc[h].user /\ rpc'[h].node = post_box'[rpc[h].user]
         /\ rpc'[h].pc # "write"
<1>. USE ValuesAssumption
<1>1. ASSUME NEW u \in Users, NEW n \in Allocated, Insert(u, n, <<>>)
      PROVE  /\ \A k \in Nodes : cell'[k] = cell[k] \/ cell'[k] = <<>>
             /\ \A v \in Users : post_box'[v] = post_box[v] \/ cell'[post_box'[v]] = <<>>
  <2>1. n \in Nodes
    BY DEF Allocated, Untouched
  <2>2. QED  BY <1>1, <2>1 DEF Insert, Types, TypeOK
<1>2. rpc[h].pc # "idle" => rpc[h].user \in Users
  BY DEF Types, LocalsOK
<1>3. CASE AddUserToConnected(h)
  <2>1. \A n \in Allocated : Moved(n) = <<>>
    BY DEF Moved
  <2>2. rpc' = [rpc EXCEPT ![h] = Idle] /\ rpc[h].user \in Users
    BY <1>2, <1>3 DEF AddUserToConnected, Finish, At
  <2>3. (post_box' = post_box /\ cell' = cell) \/ \E n \in Allocated : Insert(rpc[h].user, n, <<>>)
    BY <1>3, <2>1 DEF AddUserToConnected
  <2>4. QED  BY <1>1, <2>2, <2>3 DEF Idle, Types, TypeOK
<1>4. CASE IndexToPush(h) \/ IndexToPop(h)
  <2>1. PICK to \in {"push", "pop"} : Goto(h, to, post_box'[rpc[h].user], rpc[h].env)
    BY <1>4 DEF IndexToPush, IndexToPop, Index
  <2>2. rpc'[h].node = post_box'[rpc[h].user] /\ rpc'[h].user = rpc[h].user /\ rpc'[h].pc # "write"
        /\ \A g \in Handlers \ {h} : rpc'[g] = rpc[g]
    BY <2>1 DEF Goto, Types, TypeOK
  <2>3. rpc[h].user \in Users
    BY <1>2, <1>4 DEF IndexToPush, IndexToPop, Index, At
  <2>4. (post_box' = post_box /\ cell' = cell) \/ \E n \in Allocated : Insert(rpc[h].user, n, <<>>)
    BY <1>4 DEF IndexToPush, IndexToPop, Index
  <2>5. QED  BY <1>1, <2>2, <2>3, <2>4
<1>5. CASE DisconnectUser(h)
  <2>1. rpc' = [rpc EXCEPT ![h] = Idle] /\ cell' = cell
        /\ post_box' = [post_box EXCEPT ![rpc[h].user] = NoNode]
    BY <1>5 DEF DisconnectUser, Finish
  <2>2. QED  BY <2>1 DEF Idle, Types, TypeOK
<1>6. CASE IsRecipientOnline(h) \/ Poll(h)
  <2>1. PICK l : rpc' = [rpc EXCEPT ![h] = l] /\ l.node = NoNode /\ l.pc # "write"
    <3>. DEFINE Leads(l) == rpc' = [rpc EXCEPT ![h] = l] /\ l.node = NoNode /\ l.pc # "write"
    <3>1. ASSUME Finish(h) PROVE \E l : Leads(l)
      <4>1. Leads(Idle)
        BY <3>1 DEF Finish, Idle
      <4>2. QED  BY <4>1
    <3>2. ASSUME NEW e, NEW pc \in {"[]", "stream[]"}, Goto(h, pc, NoNode, e)
          PROVE  \E l : Leads(l)
      <4>1. Leads([pc |-> pc, user |-> rpc[h].user, node |-> NoNode, env |-> e])
        BY <3>2 DEF Goto
      <4>2. QED  BY <4>1
    <3>. HIDE DEF Leads
    <3>3. \E l : Leads(l)
      BY <1>6, <3>1, <3>2 DEF IsRecipientOnline, Poll
    <3>4. QED  BY <3>3 DEF Leads
  <2>2. post_box' = post_box /\ cell' = cell
    BY <1>6 DEF IsRecipientOnline, Poll
  <2>3. QED  BY <2>1, <2>2 DEF Types, TypeOK
<1>7. QED  BY <1>3, <1>4, <1>5, <1>6

(* Nothing has been popped for a client that has not called the server. *)
LEMMA NothingTaken ==
  ASSUME ClientsOK, ThreadsOK, FlowInv, [MNext]_all, NEW c \in Clients
  PROVE  client'[c].user = client[c].user \/ \A m \in Msgs : ~Taken(m, c)
<1>1. CASE client[c].main = "start"
  BY <1>1 DEF ThreadsOK, FlowInv, ViewsOK, Taken, InHand
<1>2. CASE client[c].main # "start"
  BY <1>2, ClientMoves
<1>3. QED  BY <1>1, <1>2

(* A step that takes nothing from a cell and puts nothing into one. *)
LEMMA QuietSequence ==
  ASSUME ClientsOK, ThreadsOK, FlowInv, InSequence, Types, Types', [MNext]_all,
         shown' = shown, wire' = wire,
         \A k \in Nodes : cell'[k] = cell[k] \/ cell'[k] = <<>>,
         \A u \in Users :
           post_box'[u] \in Nodes => post_box'[u] = post_box[u] \/ cell'[post_box'[u]] = <<>>,
         \A h \in Handlers :
           /\ rpc'[h].pc = "write" => rpc'[h] = rpc[h]
           /\ rpc'[h].node \in Nodes =>
                \/ rpc'[h] = rpc[h]
                \/ /\ rpc[h].pc # "idle" /\ rpc'[h].user = rpc[h].user
                   /\ rpc'[h].node = post_box'[rpc[h].user]
  PROVE  InSequence'
<1>1. CellsInOrder'
  BY CellsStay DEF InSequence
<1>2. ASSUME NEW c \in Clients PROVE TakenInOrder(c)'
  <2>1. \A m \in Msgs : InHand(m, Stream(c))' => InHand(m, Stream(c))
    BY HandlersOfClients DEF InHand
  <2>2. ASSUME NEW k \in Nodes, Reads(c, k)'
        PROVE  Reads(c, k) \/ cell'[k] = <<>> \/ \A m \in Msgs : ~Taken(m, c)
    <3>1. client'[c].user = client[c].user \/ \A m \in Msgs : ~Taken(m, c)
      BY NothingTaken
    <3>2. CASE client'[c].user \in Users /\ post_box'[client'[c].user] = k
      BY <3>1, <3>2 DEF Reads
    <3>3. CASE rpc'[Stream(c)].node = k
      <4>1. CASE rpc'[Stream(c)] = rpc[Stream(c)]
        BY <3>3, <4>1 DEF Reads
      <4>2. CASE rpc[Stream(c)].pc # "idle" /\ k = post_box'[rpc[Stream(c)].user]
        <5>1. rpc[Stream(c)].user = client[c].user /\ client[c].user \in Users
          BY <4>2, HandlersOfClients DEF ThreadsOK, Types, LocalsOK
        <5>2. QED  BY <4>2, <5>1 DEF Reads
      <4>3. QED  BY <3>3, <4>1, <4>2, HandlersOfClients
    <3>4. QED  BY <2>2, <3>2, <3>3 DEF Reads
  <2>3. QED  BY <2>1, <2>2, TakenStays DEF InSequence
<1>3. QED  BY <1>1, <1>2 DEF InSequence

(* Whatever waits in a cell, or has been popped, is older than the message its sender is
   having delivered. *)
LEMMA DeliveringLatest ==
  ASSUME Types, MailInv, FlowInv, cell \in [Nodes -> Seq(Msgs)],
         NEW h \in Handlers, Delivering(h)
  PROVE  /\ \A k \in Nodes : \A j \in DOMAIN cell[k] : Before(cell[k][j], rpc[h].env)
         /\ \A c \in Clients, m \in Msgs : Taken(m, c) => Before(m, rpc[h].env)
<1>1. fate[rpc[h].env] = "sent"
  BY DEF MailInv, SentOnce
<1>2. ASSUME NEW m \in Msgs, fate[m] \in {"queued", "written"} PROVE Before(m, rpc[h].env)
  BY <1>1, <1>2 DEF FlowInv, Numbered, Before
<1>3. ASSUME NEW k \in Nodes, NEW j \in DOMAIN cell[k] PROVE Before(cell[k][j], rpc[h].env)
  <2>1. j \in 1 .. Length /\ j \in 1 .. Len(cell[k]) /\ cell[k][j] \in Msgs
    BY LengthAssumption DEF Types, TypeOK
  <2>2. fate[cell[k][j]] = "queued"
    BY <2>1 DEF MailInv, Tracked, InSomeCell, InCell
  <2>3. QED  BY <1>2, <2>1, <2>2
<1>4. ASSUME NEW c \in Clients, NEW m \in Msgs, Taken(m, c) PROVE fate[m] \in {"queued", "written"}
  <2>1. CASE InHand(m, Stream(c))
    BY <2>1, HandlersOfClients DEF MailInv, Tracked, InSomeHand
  <2>2. CASE ~InHand(m, Stream(c))
    BY <1>4, <2>2 DEF FlowInv, ViewsOK, Taken
  <2>3. QED  BY <2>1, <2>2
<1>5. QED  BY <1>2, <1>3, <1>4

LEMMA PushSequence ==
  ASSUME ClientsOK, ServerInv, ThreadsOK, FlowInv, InSequence, Types', [MNext]_all,
         shown' = shown, wire' = wire, NEW h \in Handlers, PushEnvelope(h)
  PROVE  InSequence'
<1>. DEFINE n == rpc[h].node
            m == rpc[h].env
<1>1. /\ Delivering(h) /\ rpc[h].pc = "push" /\ n \in Nodes /\ m \in Msgs /\ rpc[h].user \in Users
      /\ post_box' = post_box /\ rpc' = [rpc EXCEPT ![h] = Idle]
  BY DEF PushEnvelope, At, Delivering, Receiving, ServerInv, Types, TypeOK, Calls, LocalsOK,
         IsMailFor, Finish
<1>2. rpc'[h] = Idle /\ \A g \in Handlers \ {h} : rpc'[g] = rpc[g]
  BY <1>1 DEF ServerInv, Types, TypeOK
<1>3. CASE cell' = cell
  <2>1. \A g \in Handlers :
           /\ rpc'[g].pc = "write" => rpc'[g] = rpc[g]
           /\ rpc'[g].node \in Nodes => rpc'[g] = rpc[g]
    BY <1>2, ValuesAssumption DEF Idle
  <2>2. QED  BY <1>1, <1>3, <2>1, QuietSequence DEF ServerInv
<1>4. CASE cell' = [cell EXCEPT ![n] = Append(@, m)]
  <2>1. /\ \A k \in Nodes : \A j \in DOMAIN cell[k] : Before(cell[k][j], m)
        /\ \A c \in Clients, x \in Msgs : Taken(x, c) => Before(x, m)
    BY <1>1, DeliveringLatest DEF ServerInv
  <2>2. \A c \in Clients : rpc'[Stream(c)] = rpc[Stream(c)]
    BY <1>1, <1>2, HandlersOfClients DEF ThreadsOK
  <2>3. \A c \in Clients : rpc[Stream(c)].node = n => rpc[Stream(c)].user = rpc[h].user
    <3>1. ASSUME NEW c \in Clients, rpc[Stream(c)].node = n PROVE rpc[Stream(c)].user \in Users
      BY <1>1, <3>1, HandlersOfClients, ValuesAssumption DEF ServerInv, Types, LocalsOK
    <3>2. QED  BY <1>1, <3>1, HandlersOfClients DEF ServerInv, Apart, Reaches
  <2>4. \A g \in Handlers : rpc'[g].pc = "push" => rpc'[g] = rpc[g] /\ rpc[g].env[1] # m[1]
    <3>1. ASSUME NEW g \in Handlers \ {h}, rpc[g].pc = "push" PROVE rpc[g].env[1] # m[1]
      BY <1>1, <3>1 DEF ThreadsOK, Delivering, Receiving
    <3>2. QED  BY <1>2, <3>1 DEF Idle
  <2>. HIDE DEF n, m
  <2>5. /\ \A k \in Nodes : DOMAIN cell[k] = 1 .. Len(cell[k]) /\ Len(cell[k]) \in Nat
        /\ \A k \in Nodes \ {n} : cell'[k] = cell[k]
        /\ DOMAIN cell'[n] = 1 .. Len(cell[n]) + 1
        /\ \A j \in 1 .. Len(cell[n]) : cell'[n][j] = cell[n][j]
        /\ cell'[n][Len(cell[n]) + 1] = m
    <3>1. cell \in [Nodes -> Seq(Msgs)]
      BY DEF ServerInv
    <3>. DEFINE s == cell[n]
    <3>2. cell'[n] = Append(s, m) /\ \A k \in Nodes \ {n} : cell'[k] = cell[k]
      BY <1>1, <1>4, <3>1
    <3>3. s \in Seq(Msgs) /\ \A k \in Nodes : cell[k] \in Seq(Msgs)
      BY <1>1, <3>1
    <3>4. DOMAIN Append(s, m) = 1 .. Len(s) + 1 /\ Append(s, m)[Len(s) + 1] = m
          /\ \A j \in 1 .. Len(s) : Append(s, m)[j] = s[j]
      <4>. HIDE DEF s
      <4>1. QED  BY <1>1, <3>3
    <3>5. \A k \in Nodes : DOMAIN cell[k] = 1 .. Len(cell[k]) /\ Len(cell[k]) \in Nat
      BY <3>3
    <3>6. QED  BY <3>2, <3>4, <3>5
  <2>6. \A k \in Nodes : \A j \in DOMAIN cell'[k] :
          \/ j \in DOMAIN cell[k] /\ cell'[k][j] = cell[k][j]
          \/ k = n /\ j = Len(cell[n]) + 1 /\ cell'[k][j] = m
    BY <1>1, <2>5
  <2>7. ASSUME NEW k \in Nodes, NEW i \in DOMAIN cell'[k], NEW j \in DOMAIN cell'[k], i < j
        PROVE  Before(cell'[k][i], cell'[k][j])
    <3>1. i \in DOMAIN cell[k] /\ cell'[k][i] = cell[k][i]
      BY <1>1, <2>5, <2>7
    <3>2. CASE j \in DOMAIN cell[k] /\ cell'[k][j] = cell[k][j]
      BY <2>7, <3>1, <3>2 DEF InSequence, CellsInOrder
    <3>3. CASE cell'[k][j] = m
      BY <2>1, <3>1, <3>3
    <3>4. QED  BY <2>6, <3>2, <3>3
  <2>8. ASSUME NEW c \in Clients, NEW k \in Nodes, NEW l \in Nodes,
               rpc'[Stream(c)].node = k, post_box'[rpc'[Stream(c)].user] = l, k # l,
               NEW i \in DOMAIN cell'[k], NEW j \in DOMAIN cell'[l]
        PROVE  Before(cell'[k][i], cell'[l][j])
    <3>1. rpc[Stream(c)].node = k /\ post_box[rpc[Stream(c)].user] = l
      BY <1>1, <2>2, <2>8
    <3>2. CASE cell'[l][j] = m /\ l = n
      BY <2>1, <2>5, <2>8, <3>2
    <3>3. CASE /\ j \in DOMAIN cell[l] /\ cell'[l][j] = cell[l][j]
               /\ i \in DOMAIN cell[k] /\ cell'[k][i] = cell[k][i]
      BY <2>8, <3>1, <3>3 DEF InSequence, CellsInOrder
    <3>4. CASE j \in DOMAIN cell[l] /\ cell'[l][j] = cell[l][j] /\ cell'[k][i] = m /\ k = n
      <4>1. post_box[rpc[h].user] = l /\ rpc[h].node # l
        BY <2>3, <2>8, <3>1, <3>4 DEF n
      <4>2. cell[l][j][1] # m[1]
        BY <1>1, <3>4, <4>1 DEF InSequence, CellsInOrder, m
      <4>3. QED  BY <3>4, <4>2 DEF Before
    <3>5. QED  BY <2>6, <3>2, <3>3, <3>4
  <2>9. ASSUME NEW g \in Handlers, NEW l \in Nodes, rpc'[g].pc = "push",
               post_box'[rpc'[g].user] = l, rpc'[g].node # l, NEW j \in DOMAIN cell'[l]
        PROVE  cell'[l][j][1] # rpc'[g].env[1]
    <3>1. rpc'[g] = rpc[g] /\ rpc[g].env[1] # m[1]
      BY <2>4, <2>9
    <3>2. CASE j \in DOMAIN cell[l] /\ cell'[l][j] = cell[l][j]
      <4>1. rpc[g].pc = "push" /\ post_box[rpc[g].user] = l /\ rpc[g].node # l
        BY <1>1, <2>9, <3>1
      <4>2. cell[l][j][1] # rpc[g].env[1]
        BY <3>2, <4>1 DEF InSequence, CellsInOrder
      <4>3. QED  BY <3>1, <3>2, <4>2
    <3>3. CASE cell'[l][j] = m
      BY <3>1, <3>3
    <3>4. QED  BY <2>6, <3>2, <3>3
  <2>10. CellsInOrder'
    BY <2>7, <2>8, <2>9 DEF CellsInOrder, Before
  <2>11. ASSUME NEW c \in Clients PROVE TakenInOrder(c)'
    <3>1. /\ \A x, i : (OnWireAt(x, c, i)' <=> OnWireAt(x, c, i))
                       /\ (ShownAt(x, c, i)' <=> ShownAt(x, c, i))
          /\ \A x : InHand(x, Stream(c))' <=> InHand(x, Stream(c))
      BY <2>2 DEF OnWireAt, ShownAt, InHand
    <3>2. \A x \in Msgs : Taken(x, c)' <=> Taken(x, c)
      BY <3>1 DEF Taken
    <3>3. TakenInOrder(c)
      BY DEF InSequence
    <3>4. ASSUME NEW k \in Nodes, NEW x \in Msgs, Reads(c, k)', Taken(x, c)', NEW j \in DOMAIN cell'[k]
          PROVE  Before(x, cell'[k][j])
      <4>1. Taken(x, c)
        BY <3>2, <3>4
      <4>2. client'[c].user = client[c].user
        BY <4>1, NothingTaken
      <4>3. Reads(c, k)
        BY <1>1, <2>2, <3>4, <4>2 DEF Reads
      <4>4. CASE j \in DOMAIN cell[k] /\ cell'[k][j] = cell[k][j]
        BY <3>3, <4>1, <4>3, <4>4 DEF TakenInOrder
      <4>5. CASE cell'[k][j] = m
        BY <2>1, <4>1, <4>5
      <4>6. QED  BY <2>6, <4>4, <4>5
    <3>5. \A x, y \in Msgs : \A i :
            (OnWireAt(x, c, i)' \/ ShownAt(x, c, i)') /\ InHand(y, Stream(c))' => Before(x, y)
      BY <3>1, <3>3 DEF TakenInOrder
    <3>6. /\ \A i, j \in DOMAIN shown'[c] : i < j => Before(shown'[c][i].msg, shown'[c][j].msg)
          /\ \A i, j \in DOMAIN wire'[c] : i < j => Before(wire'[c][i], wire'[c][j])
          /\ \A i \in DOMAIN shown'[c], j \in DOMAIN wire'[c] : Before(shown'[c][i].msg, wire'[c][j])
      BY <3>3 DEF TakenInOrder
    <3>7. QED  BY <3>4, <3>5, <3>6 DEF TakenInOrder, Before
  <2>12. QED  BY <2>10, <2>11 DEF InSequence
<1>5. QED  BY <1>3, <1>4 DEF PushEnvelope

LEMMA PopSequence ==
  ASSUME ClientsOK, ServerInv, ThreadsOK, FlowInv, InSequence, Types', [MNext]_all,
         NEW c \in Clients, PopEnvelope(Stream(c)), UNCHANGED app
  PROVE  InSequence'
<1>. DEFINE h == Stream(c)
            n == rpc[h].node
<1>1. /\ h \in Handlers /\ rpc[h].pc = "pop" /\ n \in Nodes
      /\ rpc[h].user \in Users /\ rpc[h].user = client[c].user
      /\ post_box' = post_box /\ client' = client /\ wire' = wire /\ shown' = shown
  BY HandlersOfClients, ValuesAssumption
  DEF PopEnvelope, At, ServerInv, Types, TypeOK, Calls, LocalsOK, ThreadsOK, app
<1>2. \A l : rpc' = [rpc EXCEPT ![h] = l] => rpc'[h] = l /\ \A g \in Handlers \ {h} : rpc'[g] = rpc[g]
  BY <1>1 DEF ServerInv, Types, TypeOK
<1>3. CASE cell' = cell /\ Goto(h, "poll", NoNode, Junk)
  <2>1. rpc'[h].node = NoNode /\ rpc'[h].pc = "poll" /\ \A g \in Handlers \ {h} : rpc'[g] = rpc[g]
    BY <1>2, <1>3 DEF Goto
  <2>2. \A g \in Handlers :
           /\ rpc'[g].pc = "write" => rpc'[g] = rpc[g]
           /\ rpc'[g].node \in Nodes => rpc'[g] = rpc[g]
    BY <2>1, ValuesAssumption
  <2>3. QED  BY <1>1, <1>3, <2>2, QuietSequence DEF ServerInv
<1>4. CASE cell[n] # <<>> /\ cell' = [cell EXCEPT ![n] = Rest(n)] /\ Goto(h, "write", NoNode, Oldest(n))
  <2>1. /\ rpc'[h].node = NoNode /\ rpc'[h].pc = "write" /\ rpc'[h].env = Head(cell[n])
        /\ \A g \in Handlers \ {h} : rpc'[g] = rpc[g]
    BY <1>2, <1>4 DEF Goto, Oldest
  <2>2. cell \in [Nodes -> Seq(Msgs)]
    BY DEF ServerInv
  <2>. HIDE DEF n, h
  <2>3. /\ DOMAIN cell[n] = 1 .. Len(cell[n]) /\ Len(cell[n]) \in Nat /\ 1 \in DOMAIN cell[n]
        /\ rpc'[h].env = cell[n][1]
        /\ DOMAIN Tail(cell[n]) = 1 .. Len(cell[n]) - 1
        /\ \A j \in 1 .. Len(cell[n]) - 1 : Tail(cell[n])[j] = cell[n][j + 1]
    <3>. DEFINE s == cell[n]
    <3>1. s \in Seq(Msgs) /\ s # <<>> /\ rpc'[h].env = Head(s)
      BY <1>1, <1>4, <2>1, <2>2
    <3>. HIDE DEF s
    <3>2. /\ DOMAIN s = 1 .. Len(s) /\ Len(s) \in Nat /\ 1 \in DOMAIN s /\ Head(s) = s[1]
          /\ DOMAIN Tail(s) = 1 .. Len(s) - 1 /\ \A j \in 1 .. Len(s) - 1 : Tail(s)[j] = s[j + 1]
      BY <3>1
    <3>3. QED  BY <3>1, <3>2 DEF s
  <2>4. cell'[n] = Tail(cell[n]) /\ \A k \in Nodes \ {n} : cell'[k] = cell[k]
    BY <1>1, <1>4, <2>2 DEF Rest
  <2>. DEFINE old(k, j) == IF k = n THEN j + 1 ELSE j
  <2>5. \A k \in Nodes : \A j \in DOMAIN cell'[k] :
          old(k, j) \in DOMAIN cell[k] /\ cell'[k][j] = cell[k][old(k, j)]
    <3>1. \A j \in DOMAIN cell'[n] : j + 1 \in DOMAIN cell[n] /\ cell'[n][j] = cell[n][j + 1]
      BY <2>3, <2>4
    <3>2. \A k \in Nodes \ {n} : \A j \in DOMAIN cell'[k] : j \in DOMAIN cell[k] /\ cell'[k][j] = cell[k][j]
      BY <2>4
    <3>3. QED  BY <3>1, <3>2
  <2>6. \A k \in Nodes : \A i, j \in DOMAIN cell'[k] : i < j => old(k, i) < old(k, j)
    BY <1>1, <2>2, <2>3, <2>4
  <2>7. \A j \in DOMAIN cell'[n] : 1 < old(n, j)
    BY <2>3, <2>4
  <2>. HIDE DEF old
  <2>8. \A k \in Nodes : \A i, j \in DOMAIN cell'[k] : i < j => Before(cell'[k][i], cell'[k][j])
    BY <2>5, <2>6 DEF InSequence, CellsInOrder
  <2>9. ASSUME NEW d \in Clients, NEW k \in Nodes, NEW l \in Nodes,
               rpc'[Stream(d)].node = k, post_box'[rpc'[Stream(d)].user] = l, k # l,
               NEW i \in DOMAIN cell'[k], NEW j \in DOMAIN cell'[l]
        PROVE  Before(cell'[k][i], cell'[l][j])
    <3>1. rpc'[Stream(d)] = rpc[Stream(d)]
      BY <2>1, <2>9, HandlersOfClients, ValuesAssumption
    <3>2. rpc[Stream(d)].node = k /\ post_box[rpc[Stream(d)].user] = l
      BY <1>1, <2>9, <3>1
    <3>3. Before(cell[k][old(k, i)], cell[l][old(l, j)])
      BY <2>5, <2>9, <3>2 DEF InSequence, CellsInOrder
    <3>4. QED  BY <2>5, <3>3
  <2>10. ASSUME NEW g \in Handlers, NEW l \in Nodes, rpc'[g].pc = "push",
                post_box'[rpc'[g].user] = l, rpc'[g].node # l, NEW j \in DOMAIN cell'[l]
         PROVE  cell'[l][j][1] # rpc'[g].env[1]
    <3>1. rpc'[g] = rpc[g]
      BY <2>1, <2>10
    <3>2. rpc[g].pc = "push" /\ post_box[rpc[g].user] = l /\ rpc[g].node # l
      BY <1>1, <2>10, <3>1
    <3>3. cell[l][old(l, j)][1] # rpc[g].env[1]
      BY <2>5, <2>10, <3>2 DEF InSequence, CellsInOrder
    <3>4. QED  BY <2>5, <3>1, <3>3
  <2>11. CellsInOrder'
    BY <2>8, <2>9, <2>10 DEF CellsInOrder, Before
  <2>12. ASSUME NEW d \in Clients PROVE TakenInOrder(d)'
    <3>1. /\ \A x, i : (OnWireAt(x, d, i)' <=> OnWireAt(x, d, i))
                       /\ (ShownAt(x, d, i)' <=> ShownAt(x, d, i))
          /\ \A x : InHand(x, Stream(d))' =>
                      InHand(x, Stream(d)) \/ (d = c /\ x = cell[n][1])
      <4>1. d # c => Stream(d) # h
        BY HandlersOfClients DEF h
      <4>2. \A x : InHand(x, Stream(d))' => InHand(x, Stream(d)) \/ (d = c /\ x = cell[n][1])
        BY <2>1, <2>3, <4>1, HandlersOfClients DEF InHand, h
      <4>3. QED  BY <1>1, <4>2 DEF OnWireAt, ShownAt
    <3>2. TakenInOrder(d)
      BY DEF InSequence
    <3>3. \A k \in Nodes : Reads(d, k)' => Reads(d, k)
      <4>1. d # c => Stream(d) # h
        BY HandlersOfClients DEF h
      <4>2. \A k \in Nodes : rpc'[Stream(d)].node = k => rpc[Stream(d)].node = k
        BY <2>1, <4>1, HandlersOfClients, ValuesAssumption DEF h
      <4>3. QED  BY <1>1, <4>2 DEF Reads
    <3>4. ASSUME NEW k \in Nodes, NEW x \in Msgs, Reads(d, k)', Taken(x, d)', NEW j \in DOMAIN cell'[k]
          PROVE  Before(x, cell'[k][j])
      <4>1. Taken(x, d) \/ (d = c /\ x = cell[n][1])
        BY <3>1, <3>4 DEF Taken
      <4>2. CASE Taken(x, d)
        <5>1. Before(x, cell[k][old(k, j)])
          BY <2>5, <3>2, <3>3, <3>4, <4>2 DEF TakenInOrder
        <5>2. QED  BY <2>5, <5>1
      <4>3. CASE d = c /\ x = cell[n][1] /\ k = n
        <5>1. Before(cell[n][1], cell[n][old(n, j)])
          BY <1>1, <2>3, <2>5, <2>7, <3>4, <4>3 DEF InSequence, CellsInOrder
        <5>2. QED  BY <2>5, <4>3, <5>1
      <4>4. CASE d = c /\ x = cell[n][1] /\ k # n
        <5>1. post_box[rpc[Stream(c)].user] = k /\ rpc[Stream(c)].node = n
          BY <1>1, <2>1, <3>4, <4>4, ValuesAssumption DEF Reads, h, n
        <5>2. Before(cell[n][1], cell[k][old(k, j)])
          BY <1>1, <2>3, <2>5, <3>4, <4>4, <5>1 DEF InSequence, CellsInOrder
        <5>3. QED  BY <2>5, <4>4, <5>2
      <4>5. QED  BY <4>1, <4>2, <4>3, <4>4
    <3>5. ASSUME NEW x \in Msgs, NEW y \in Msgs, NEW i,
                 OnWireAt(x, d, i)' \/ ShownAt(x, d, i)', InHand(y, Stream(d))'
          PROVE  Before(x, y)
      <4>1. CASE InHand(y, Stream(d))
        BY <3>1, <3>2, <3>5, <4>1 DEF TakenInOrder
      <4>2. CASE d = c /\ y = cell[n][1]
        <5>1. Reads(c, n) /\ Taken(x, c)
          BY <3>1, <3>5, <4>2 DEF Reads, Taken, n, h
        <5>2. QED  BY <1>1, <2>3, <3>2, <4>2, <5>1 DEF TakenInOrder
      <4>3. QED  BY <3>1, <3>5, <4>1, <4>2
    <3>6. /\ \A i, j \in DOMAIN shown'[d] : i < j => Before(shown'[d][i].msg, shown'[d][j].msg)
          /\ \A i, j \in DOMAIN wire'[d] : i < j => Before(wire'[d][i], wire'[d][j])
          /\ \A i \in DOMAIN shown'[d], j \in DOMAIN wire'[d] : Before(shown'[d][i].msg, wire'[d][j])
      BY <1>1, <3>2 DEF TakenInOrder
    <3>7. QED  BY <3>4, <3>5, <3>6 DEF TakenInOrder, Before
  <2>13. QED  BY <2>11, <2>12 DEF InSequence
<1>5. QED  BY <1>3, <1>4 DEF PopEnvelope

LEMMA ForwardSequence ==
  ASSUME ClientsOK, ServerInv, ThreadsOK, FlowInv, FlowInv', InSequence, Types', [MNext]_all,
         NEW c \in Clients, Forward(c)
  PROVE  InSequence'
<1>. DEFINE h == Stream(c)
            e == rpc[h].env
<1>1. /\ h \in Handlers /\ InHand(e, h) /\ e \in Msgs
      /\ post_box' = post_box /\ cell' = cell /\ client' = client /\ shown' = shown
      /\ wire' = [wire EXCEPT ![c] = IF Running(c) THEN Append(@, e) ELSE @]
      /\ rpc' = [rpc EXCEPT ![h] = [pc |-> "poll", user |-> rpc[h].user, node |-> NoNode, env |-> Junk]]
  BY HandlersOfClients
  DEF Forward, WriteEnvelope, At, ServerInv, Apart, IsMailFor, Goto, InHand
<1>2. /\ rpc'[h].node = NoNode /\ rpc'[h].pc = "poll"
      /\ \A g \in Handlers \ {h} : rpc'[g] = rpc[g]
  BY <1>1 DEF ServerInv, Types, TypeOK
<1>3. \A g \in Handlers : (rpc'[g].pc = "write" => rpc'[g] = rpc[g]) /\ (rpc'[g].node \in Nodes => rpc'[g] = rpc[g])
  BY <1>2, ValuesAssumption
<1>4. CellsInOrder'
  BY <1>1, <1>3, CellsStay DEF InSequence
<1>5. wire \in [Clients -> Seq(Msgs)]
  BY DEF FlowInv, ViewsOK
<1>6. \A d \in Clients : /\ \A m \in Msgs : InHand(m, Stream(d))' => InHand(m, Stream(d))
                         /\ \A k \in Nodes : Reads(d, k)' => Reads(d, k)
  BY <1>1, <1>3, HandlersOfClients DEF InHand, Reads
<1>. HIDE DEF e
<1>7. ASSUME NEW d \in Clients, wire'[d] = wire[d] PROVE TakenInOrder(d)'
  BY <1>1, <1>6, <1>7, TakenStays DEF InSequence
<1>8. CASE Running(c)
  <2>. DEFINE s == wire[c]
  <2>1. wire'[c] = Append(s, e)
    BY <1>1, <1>5, <1>8
  <2>2. s \in Seq(Msgs)
    BY <1>5
  <2>3. /\ DOMAIN s = 1 .. Len(s) /\ Len(s) \in Nat
        /\ DOMAIN wire'[c] = 1 .. Len(s) + 1
        /\ \A j \in 1 .. Len(s) : wire'[c][j] = s[j]
        /\ wire'[c][Len(s) + 1] = e
    <3>. HIDE DEF s
    <3>1. QED  BY <1>1, <2>1, <2>2
  <2>4. \A j \in DOMAIN wire'[c] :
          (j \in DOMAIN wire[c] /\ wire'[c][j] = wire[c][j]) \/ (j = Len(s) + 1 /\ wire'[c][j] = e)
    BY <2>3
  <2>5. TakenInOrder(c) /\ \A j \in DOMAIN wire[c] : wire[c][j] \in Msgs
    BY <1>5 DEF InSequence
  <2>6. \A j \in DOMAIN wire[c] : Before(wire[c][j], e)
    BY <1>1, <2>5 DEF TakenInOrder, OnWireAt
  <2>7. \A i \in DOMAIN shown[c] : Before(shown[c][i].msg, e)
    <3>1. \A i \in DOMAIN shown[c] : shown[c][i].msg \in Msgs
      <4>. DEFINE S == [msg : Msgs, text : Texts]
      <4>1. shown[c] \in Seq(S) /\ \A r \in S : r.msg \in Msgs
        BY DEF FlowInv, ViewsOK
      <4>. HIDE DEF S
      <4>2. QED  BY <4>1
    <3>2. QED  BY <1>1, <2>5, <3>1 DEF TakenInOrder, ShownAt
  <2>8. ASSUME NEW i \in DOMAIN wire'[c], NEW j \in DOMAIN wire'[c], i < j
        PROVE  Before(wire'[c][i], wire'[c][j])
    <3>1. i \in DOMAIN wire[c] /\ wire'[c][i] = wire[c][i]
      BY <2>3, <2>8
    <3>2. CASE j \in DOMAIN wire[c] /\ wire'[c][j] = wire[c][j]
      BY <2>5, <2>8, <3>1, <3>2 DEF TakenInOrder
    <3>3. CASE wire'[c][j] = e
      BY <2>6, <3>1, <3>3
    <3>4. QED  BY <2>4, <3>2, <3>3
  <2>9. ASSUME NEW i \in DOMAIN shown'[c], NEW j \in DOMAIN wire'[c]
        PROVE  Before(shown'[c][i].msg, wire'[c][j])
    <3>1. CASE j \in DOMAIN wire[c] /\ wire'[c][j] = wire[c][j]
      BY <1>1, <2>5, <2>9, <3>1 DEF TakenInOrder
    <3>2. CASE wire'[c][j] = e
      BY <1>1, <2>7, <2>9, <3>2
    <3>3. QED  BY <2>4, <3>1, <3>2
  <2>10. \A i, j \in DOMAIN shown'[c] : i < j => Before(shown'[c][i].msg, shown'[c][j].msg)
    BY <1>1, <2>5 DEF TakenInOrder
  <2>11. \A m : ~InHand(m, Stream(c))'
    BY <1>2 DEF InHand
  <2>12. \A x \in Msgs : Taken(x, c)' => Taken(x, c)
    <3>1. ASSUME NEW x \in Msgs, NEW i, OnWireAt(x, c, i)' PROVE Taken(x, c)
      <4>1. i \in DOMAIN wire'[c] /\ wire'[c][i] = x
        BY <3>1 DEF OnWireAt
      <4>2. CASE i \in DOMAIN wire[c] /\ wire[c][i] = x
        BY <4>2 DEF Taken, OnWireAt
      <4>3. CASE x = e
        BY <1>1, <4>3 DEF Taken
      <4>4. QED  BY <2>4, <4>1, <4>2, <4>3
    <3>2. ASSUME NEW x \in Msgs, NEW i, ShownAt(x, c, i)' PROVE Taken(x, c)
      BY <1>1, <3>2 DEF Taken, ShownAt
    <3>3. QED  BY <2>11, <3>1, <3>2 DEF Taken
  <2>13. \A k \in Nodes, x \in Msgs : Reads(c, k)' /\ Taken(x, c)' =>
           \A j \in DOMAIN cell'[k] : Before(x, cell'[k][j])
    BY <1>1, <1>6, <2>5, <2>12 DEF TakenInOrder
  <2>14. TakenInOrder(c)'
    BY <2>8, <2>9, <2>10, <2>11, <2>13 DEF TakenInOrder, Before
  <2>15. \A d \in Clients \ {c} : wire'[d] = wire[d]
    BY <1>1, <1>5
  <2>16. QED  BY <1>4, <1>7, <2>14, <2>15 DEF InSequence
<1>9. CASE ~Running(c)
  <2>1. wire' = wire
    BY <1>1, <1>5, <1>9
  <2>2. QED  BY <1>4, <1>7, <2>1 DEF InSequence
<1>10. QED  BY <1>8, <1>9

LEMMA LineIsTyped ==
  ASSUME ClientsOK, FlowInv, [MNext]_all, NEW c \in Clients, wire[c] # <<>>
  PROVE  [msg |-> Head(wire[c]), text |-> CString(Read(Head(wire[c])).payload)]
           \in [msg : Msgs, text : Texts]
<1>. DEFINE m == Head(wire[c])
<1>1. m \in Msgs /\ OnWireAt(m, c, 1)
  BY DEF FlowInv, ViewsOK, OnWireAt
<1>2. fate[m] = "written"
  BY <1>1 DEF FlowInv, ViewsOK
<1>3. typed[m[1]][m[3]] \in Texts
  BY <1>1, <1>2, TextStays DEF FlowInv
<1>. HIDE DEF m
<1>4. CString(Read(m).payload) \in Texts
  BY <1>3, ReadIsTyped
<1>5. QED  BY <1>1, <1>4 DEF m

LEMMA ReadSequence ==
  ASSUME ClientsOK, FlowInv, InSequence, [MNext]_all, NEW c \in Clients, ReadMessage(c)
  PROVE  InSequence'
<1>. DEFINE w == wire[c]
            s == shown[c]
            line == [msg |-> Head(w), text |-> CString(Read(Head(w)).payload)]
<1>1. /\ w # <<>> /\ wire' = [wire EXCEPT ![c] = Tail(w)] /\ shown' = [shown EXCEPT ![c] = Append(s, line)]
      /\ client' = client /\ cell' = cell /\ post_box' = post_box /\ rpc' = rpc
  BY DEF ReadMessage, vars
<1>2. /\ wire \in [Clients -> Seq(Msgs)] /\ w \in Seq(Msgs)
      /\ shown \in [Clients -> Seq([msg : Msgs, text : Texts])]
      /\ s \in Seq([msg : Msgs, text : Texts])
  BY DEF FlowInv, ViewsOK
<1>3. line.msg = Head(w) /\ line \in [msg : Msgs, text : Texts]
  BY <1>1, LineIsTyped
<1>4. /\ wire'[c] = Tail(w) /\ \A d \in Clients \ {c} : wire'[d] = wire[d]
      /\ shown'[c] = Append(s, line) /\ \A d \in Clients \ {c} : shown'[d] = shown[d]
  BY <1>1, <1>2
<1>. HIDE DEF line
<1>5. /\ DOMAIN w = 1 .. Len(w) /\ Len(w) \in Nat /\ 1 \in DOMAIN w /\ line.msg = w[1] /\ w[1] \in Msgs
      /\ DOMAIN wire'[c] = 1 .. Len(w) - 1 /\ \A j \in 1 .. Len(w) - 1 : wire'[c][j] = w[j + 1]
  <2>. HIDE DEF w
  <2>1. QED  BY <1>1, <1>2, <1>3, <1>4
<1>6. /\ DOMAIN s = 1 .. Len(s) /\ Len(s) \in Nat
      /\ DOMAIN shown'[c] = 1 .. Len(s) + 1 /\ shown'[c][Len(s) + 1] = line
      /\ \A j \in 1 .. Len(s) : shown'[c][j] = s[j]
  <2>. HIDE DEF s
  <2>1. DOMAIN s = 1 .. Len(s) /\ Len(s) \in Nat
    BY <1>2
  <2>2. /\ DOMAIN Append(s, line) = 1 .. Len(s) + 1 /\ Append(s, line)[Len(s) + 1] = line
        /\ \A j \in 1 .. Len(s) : Append(s, line)[j] = s[j]
    <3>. DEFINE S == [msg : Msgs, text : Texts]
    <3>1. s \in Seq(S) /\ line \in S
      BY <1>2, <1>3
    <3>. HIDE DEF S
    <3>2. QED  BY <3>1
  <2>3. QED  BY <1>4, <2>1, <2>2
<1>. HIDE DEF w, s
<1>7. CellsInOrder'
  <2>1. cell' = cell /\ post_box' = post_box /\ rpc' = rpc /\ CellsInOrder
    BY <1>1 DEF InSequence
  <2>2. QED  BY <2>1 DEF CellsInOrder, Before
<1>8. ASSUME NEW d \in Clients \ {c} PROVE TakenInOrder(d)'
  BY <1>1, <1>4, TakenStays DEF InSequence, InHand, Reads
<1>9. TakenInOrder(c)
  BY DEF InSequence
<1>10. /\ \A i \in 1 .. Len(s) : \A j \in 1 .. Len(w) : Before(s[i].msg, w[j])
       /\ \A i, j \in 1 .. Len(w) : i < j => Before(w[i], w[j])
       /\ \A i, j \in 1 .. Len(s) : i < j => Before(s[i].msg, s[j].msg)
  BY <1>5, <1>6, <1>9 DEF TakenInOrder, w, s
<1>11. \A i, j \in DOMAIN shown'[c] : i < j => Before(shown'[c][i].msg, shown'[c][j].msg)
  <2>1. ASSUME NEW i \in 1 .. Len(s) + 1, NEW j \in 1 .. Len(s) + 1, i < j
        PROVE  Before(shown'[c][i].msg, shown'[c][j].msg)
    <3>1. i \in 1 .. Len(s) /\ shown'[c][i] = s[i]
      BY <1>6, <2>1
    <3>2. CASE j \in 1 .. Len(s)
      BY <1>6, <1>10, <2>1, <3>1, <3>2
    <3>3. CASE j = Len(s) + 1
      BY <1>5, <1>6, <1>10, <3>1, <3>3
    <3>4. QED  BY <1>6, <2>1, <3>2, <3>3
  <2>2. QED  BY <1>6, <2>1
<1>12. \A i, j \in DOMAIN wire'[c] : i < j => Before(wire'[c][i], wire'[c][j])
  <2>1. ASSUME NEW i \in 1 .. Len(w) - 1, NEW j \in 1 .. Len(w) - 1, i < j
        PROVE  Before(wire'[c][i], wire'[c][j])
    <3>1. /\ wire'[c][i] = w[i + 1] /\ wire'[c][j] = w[j + 1]
          /\ i + 1 \in 1 .. Len(w) /\ j + 1 \in 1 .. Len(w) /\ i + 1 < j + 1
      BY <1>5, <2>1
    <3>2. QED  BY <1>10, <3>1
  <2>2. QED  BY <1>5, <2>1
<1>13. \A i \in DOMAIN shown'[c], j \in DOMAIN wire'[c] : Before(shown'[c][i].msg, wire'[c][j])
  <2>1. ASSUME NEW i \in 1 .. Len(s) + 1, NEW j \in 1 .. Len(w) - 1
        PROVE  Before(shown'[c][i].msg, wire'[c][j])
    <3>1. wire'[c][j] = w[j + 1] /\ j + 1 \in 1 .. Len(w) /\ 1 < j + 1
      BY <1>5
    <3>2. CASE i \in 1 .. Len(s)
      BY <1>6, <1>10, <3>1, <3>2
    <3>3. CASE i = Len(s) + 1
      BY <1>5, <1>6, <1>10, <3>1, <3>3
    <3>4. QED  BY <1>6, <3>2, <3>3
  <2>2. QED  BY <1>5, <1>6, <2>1
<1>14. ASSUME NEW m \in Msgs, NEW i, OnWireAt(m, c, i)' \/ ShownAt(m, c, i)'
       PROVE  \E j : OnWireAt(m, c, j) \/ ShownAt(m, c, j)
  <2>1. CASE OnWireAt(m, c, i)'
    <3>1. i \in 1 .. Len(w) - 1 /\ w[i + 1] = m
      BY <1>5, <2>1 DEF OnWireAt
    <3>2. OnWireAt(m, c, i + 1)
      BY <1>5, <3>1 DEF OnWireAt, w
    <3>3. QED  BY <3>2
  <2>2. CASE ShownAt(m, c, i)'
    <3>1. i \in 1 .. Len(s) + 1 /\ shown'[c][i].msg = m
      BY <1>6, <2>2 DEF ShownAt
    <3>2. CASE i \in 1 .. Len(s)
      <4>1. ShownAt(m, c, i)
        BY <1>6, <3>1, <3>2 DEF ShownAt, s
      <4>2. QED  BY <4>1
    <3>3. CASE i = Len(s) + 1
      <4>1. OnWireAt(m, c, 1)
        BY <1>5, <1>6, <3>1, <3>3 DEF OnWireAt, w
      <4>2. QED  BY <4>1
    <3>4. QED  BY <1>6, <3>1, <3>2, <3>3
  <2>3. QED  BY <1>14, <2>1, <2>2
<1>15. \A m : InHand(m, Stream(c))' <=> InHand(m, Stream(c))
  BY <1>1 DEF InHand
<1>16. \A m, n \in Msgs : \A i :
         (OnWireAt(m, c, i)' \/ ShownAt(m, c, i)') /\ InHand(n, Stream(c))' => Before(m, n)
  BY <1>9, <1>14, <1>15 DEF TakenInOrder
<1>17. \A k \in Nodes, m \in Msgs : Reads(c, k)' /\ Taken(m, c)' =>
         \A j \in DOMAIN cell'[k] : Before(m, cell'[k][j])
  <2>1. \A m \in Msgs : Taken(m, c)' => Taken(m, c)
    BY <1>14, <1>15 DEF Taken
  <2>2. \A k \in Nodes : Reads(c, k)' => Reads(c, k)
    BY <1>1 DEF Reads
  <2>3. QED  BY <1>1, <1>9, <2>1, <2>2 DEF TakenInOrder
<1>18. TakenInOrder(c)'
  BY <1>11, <1>12, <1>13, <1>16, <1>17 DEF TakenInOrder, Before
<1>19. QED  BY <1>7, <1>8, <1>18 DEF InSequence

LEMMA KillSequence ==
  ASSUME ClientsOK, FlowInv, InSequence, [MNext]_all, NEW c \in Clients, Kill(c)
  PROVE  InSequence'
<1>1. /\ cell' = cell /\ post_box' = post_box /\ rpc' = rpc /\ shown' = shown
      /\ wire' = [wire EXCEPT ![c] = <<>>] /\ client[c].main # "start"
      /\ \A d \in Clients \ {c} : client'[d] = client[d]
  BY DEF Kill, vars, ClientsOK, ClientTypes
<1>2. client'[c].user = client[c].user
  BY <1>1, ClientMoves
<1>3. wire'[c] = <<>> /\ \A d \in Clients \ {c} : wire'[d] = wire[d]
  BY <1>1 DEF FlowInv, ViewsOK
<1>4. CellsInOrder'
  BY <1>1 DEF InSequence, CellsInOrder, Before
<1>5. /\ \A d \in Clients, m \in Msgs : InHand(m, Stream(d))' <=> InHand(m, Stream(d))
      /\ \A d \in Clients, k \in Nodes : Reads(d, k)' <=> Reads(d, k)
  BY <1>1, <1>2 DEF InHand, Reads
<1>6. ASSUME NEW d \in Clients \ {c} PROVE TakenInOrder(d)'
  BY <1>1, <1>3, <1>5, TakenStays DEF InSequence
<1>7. TakenInOrder(c)
  BY DEF InSequence
<1>8. \A m, i : ~OnWireAt(m, c, i)' /\ (ShownAt(m, c, i)' <=> ShownAt(m, c, i))
  BY <1>1, <1>3 DEF OnWireAt, ShownAt
<1>9. \A m \in Msgs : Taken(m, c)' => Taken(m, c)
  BY <1>5, <1>8 DEF Taken
<1>10. \A m, n \in Msgs : \A i :
         (OnWireAt(m, c, i)' \/ ShownAt(m, c, i)') /\ InHand(n, Stream(c))' => Before(m, n)
  BY <1>5, <1>7, <1>8 DEF TakenInOrder
<1>11. \A k \in Nodes, m \in Msgs : Reads(c, k)' /\ Taken(m, c)' =>
         \A j \in DOMAIN cell'[k] : Before(m, cell'[k][j])
  BY <1>1, <1>5, <1>7, <1>9 DEF TakenInOrder
<1>12. /\ \A i, j \in DOMAIN shown'[c] : i < j => Before(shown'[c][i].msg, shown'[c][j].msg)
       /\ DOMAIN wire'[c] = {}
  BY <1>1, <1>3, <1>7 DEF TakenInOrder
<1>13. TakenInOrder(c)'
  BY <1>10, <1>11, <1>12 DEF TakenInOrder, Before
<1>14. QED  BY <1>4, <1>6, <1>13 DEF InSequence

LEMMA StepSequence ==
  ASSUME ~Recycle, ClientsOK, ServerInv, Types', ThreadsOK, FlowInv, FlowInv', InSequence, [MNext]_all
  PROVE  InSequence'
<1>. USE HandlersOfClients
<1>. DEFINE Same == shown' = shown /\ wire' = wire
<1>1. ASSUME NEW h \in Handlers, Same,
             AddUserToConnected(h) \/ DisconnectUser(h) \/ IsRecipientOnline(h)
             \/ IndexToPush(h) \/ Poll(h) \/ IndexToPop(h)
      PROVE  InSequence'
  <2>1. rpc[h].pc # "idle"
    BY <1>1, HandlerMoves DEF HandlerStep, ServerInv
  <2>2. /\ \A k \in Nodes : cell'[k] = cell[k] \/ cell'[k] = <<>>
        /\ \A u \in Users :
             post_box'[u] \in Nodes => post_box'[u] = post_box[u] \/ cell'[post_box'[u]] = <<>>
        /\ \A g \in Handlers \ {h} : rpc'[g] = rpc[g]
        /\ rpc'[h].node \in Nodes =>
             rpc'[h].user = rpc[h].user /\ rpc'[h].node = post_box'[rpc[h].user]
        /\ rpc'[h].pc # "write"
    BY <1>1, LookupMoves DEF ServerInv
  <2>3. \A g \in Handlers :
          /\ rpc'[g].pc = "write" => rpc'[g] = rpc[g]
          /\ rpc'[g].node \in Nodes =>
               \/ rpc'[g] = rpc[g]
               \/ /\ rpc[g].pc # "idle" /\ rpc'[g].user = rpc[g].user
                  /\ rpc'[g].node = post_box'[rpc[g].user]
    BY <2>1, <2>2
  <2>4. QED  BY <1>1, <2>2, <2>3, QuietSequence DEF ServerInv
<1>2. ASSUME NEW h \in Handlers, NEW pc \in {"add", "erase", "poll", "online?"}, NEW u, NEW e,
             Call(h, pc, u, e), post_box' = post_box, cell' = cell, Same
      PROVE  InSequence'
  <2>1. rpc'[h].node = NoNode /\ rpc'[h].pc = pc /\ \A g \in Handlers \ {h} : rpc'[g] = rpc[g]
    BY <1>2 DEF Call, ServerInv, Types, TypeOK
  <2>2. \A g \in Handlers :
           /\ rpc'[g].pc = "write" => rpc'[g] = rpc[g]
           /\ rpc'[g].node \in Nodes => rpc'[g] = rpc[g]
    BY <2>1, ValuesAssumption
  <2>3. QED  BY <1>2, <2>2, QuietSequence DEF ServerInv
<1>3. ASSUME post_box' = post_box, cell' = cell, rpc' = rpc, Same PROVE InSequence'
  BY <1>3, QuietSequence DEF ServerInv
<1>4. ASSUME NEW c \in Clients, Answer(c) PROVE InSequence'
  <2>1. Same /\ HandlerStep(Unary(c)) /\ rpc[Unary(c)].pc \notin Streaming
    BY <1>4 DEF Answer, ThreadsOK
  <2>2. ~PopEnvelope(Unary(c)) /\ ~WriteEnvelope(Unary(c))
    BY <2>1 DEF PopEnvelope, WriteEnvelope, At, Streaming
  <2>3. QED  BY <1>1, <2>1, <2>2, PushSequence DEF HandlerStep
<1>5. ASSUME NEW c \in Clients, Watch(c) PROVE InSequence'
  BY <1>1, <1>5, PopSequence DEF Watch, app
<1>6. ASSUME NEW c \in Clients, Connect(c) PROVE InSequence'
  BY <1>2, <1>3, <1>6 DEF Connect, Calling, AcceptConnection, vars
<1>7. ASSUME NEW c \in Clients, ListenOthers(c) PROVE InSequence'
  BY <1>2, <1>3, <1>7 DEF ListenOthers, Calling, StreamIncomingMessages, vars
<1>8. ASSUME NEW c \in Clients, NEW word \in Words, SendEnvelope(c, word) PROVE InSequence'
  <2>1. PICK u, m : \/ Calling(ReceiveExit(Unary(c), u))
                   \/ Calling(ReceiveMessage(Unary(c), m))
    BY <1>8 DEF SendEnvelope
  <2>2. Same
    BY <1>8 DEF SendEnvelope
  <2>3. QED  BY <1>2, <1>3, <2>1, <2>2 DEF Calling, ReceiveExit, ReceiveMessage, vars
<1>9. ASSUME NEW c \in Clients,
             Refuse(c) \/ AskRecipient(c) \/ Unavailable(c) \/ StopListening(c) \/ Join(c)
      PROVE  InSequence'
  BY <1>3, <1>9 DEF Refuse, AskRecipient, Unavailable, StopListening, Join, vars
<1>10. CASE Crash \/ UNCHANGED all
  BY <1>3, <1>10 DEF Crash, Abort, vars, app, all
<1>11. QED
  BY <1>4, <1>5, <1>6, <1>7, <1>8, <1>9, <1>10, ForwardSequence, ReadSequence, KillSequence
  DEF MNext, User, Returning, Streams, Threads

--------------------------------------------------------------------------------
(* The whole invariant. *)
MessengerInv == ClientsOK /\ ServerInv /\ Boxed /\ ThreadsOK /\ FlowInv /\ InSequence

LEMMA InitMessenger == ASSUME MInit PROVE MessengerInv
<1>1. Boxed
  BY DEF MInit, Init, Boxed
<1>2. QED
  BY <1>1, InitClients, InitServer, InitThreads, InitFlow, InitSequence DEF MInit, MessengerInv

LEMMA StepMessenger ==
  ASSUME ~Recycle, MessengerInv, [MNext]_all
  PROVE  MessengerInv'
<1>1. ClientsOK /\ ServerInv /\ Boxed /\ ThreadsOK /\ FlowInv /\ InSequence
  BY DEF MessengerInv
<1>2. Types /\ Apart /\ MailInv
  BY <1>1 DEF ServerInv
<1>3. ClientsOK' /\ [Next]_vars
  BY <1>1, StepClients, IsServerStep
<1>4. ServerInv' /\ Boxed'
  BY <1>1, <1>3, StepServer, StepBoxed
<1>5. ThreadsOK'
  BY <1>1, <1>2, StepThreads
<1>6. FlowInv'
  BY <1>1, <1>2, StepFlow
<1>7. Types'
  BY <1>4 DEF ServerInv
<1>8. InSequence'
  BY <1>1, <1>6, <1>7, StepSequence
<1>9. QED  BY <1>3, <1>4, <1>5, <1>6, <1>8 DEF MessengerInv

LEMMA InvImpliesClientTypes == ASSUME MessengerInv PROVE ClientTypeOK
BY DEF MessengerInv, ClientsOK, ClientTypes, ClientStates, ServerInv, Types, FlowInv, ViewsOK,
       ClientTypeOK

LEMMA InvImpliesShown == ASSUME MessengerInv PROVE ShowsWhatWasTyped /\ ShownInOrder
<1>1. shown \in [Clients -> Seq([msg : Msgs, text : Texts])]
  BY DEF MessengerInv, FlowInv, ViewsOK
<1>2. ASSUME NEW c \in Clients, NEW i \in DOMAIN shown[c]
      PROVE  /\ To[shown[c][i].msg] = client[c].user
             /\ shown[c][i].text = typed[shown[c][i].msg[1]][shown[c][i].msg[3]]
  <2>. DEFINE S == [msg : Msgs, text : Texts]
  <2>1. shown[c] \in Seq(S) /\ \A r \in S : r.msg \in Msgs
    BY <1>1
  <2>. HIDE DEF S
  <2>2. shown[c][i].msg \in Msgs
    BY <1>2, <2>1
  <2>3. ShownAt(shown[c][i].msg, c, i)
    BY <1>2 DEF ShownAt
  <2>4. QED  BY <1>2, <2>2, <2>3 DEF MessengerInv, FlowInv, ViewsOK
<1>3. ShowsWhatWasTyped
  BY <1>2 DEF ShowsWhatWasTyped
<1>4. ShownInOrder
  BY DEF MessengerInv, InSequence, TakenInOrder, Before, ShownInOrder
<1>5. QED  BY <1>3, <1>4

LEMMA SeenWhere ==
  ASSUME NEW m
  PROVE  /\ \A p : p \in OnWire(m) <=> \E c \in Clients : \E i : p = <<c, i>> /\ OnWireAt(m, c, i)
         /\ \A p : p \in Showings(m) <=> \E c \in Clients : \E i : p = <<c, i>> /\ ShownAt(m, c, i)
BY DEF OnWire, OnWireAt, Showings, ShownAt

LEMMA InvImpliesOnce == ASSUME MessengerInv PROVE ShownOnceNoneLost
<1>. SUFFICES ASSUME NEW m \in Msgs
     PROVE LET n == Cardinality(Places(m)) + Cardinality(OnWire(m)) + Cardinality(Showings(m))
           IN  n <= 1 /\ (Undisturbed(To[m]) /\ fate[m] \in {"queued", "written"} => n = 1)
  BY DEF ShownOnceNoneLost
<1>1. Cardinality(Places(m)) = IF fate[m] = "queued" THEN 1 ELSE 0
  BY PlacesCounted DEF MessengerInv, ServerInv, MailInv
<1>2. \A p : p \in OnWire(m) <=> \E c \in Clients : \E i : p = <<c, i>> /\ OnWireAt(m, c, i)
  BY SeenWhere
<1>3. \A p : p \in Showings(m) <=> \E c \in Clients : \E i : p = <<c, i>> /\ ShownAt(m, c, i)
  BY SeenWhere
<1>4. SeenOnce(m)
  BY DEF MessengerInv, FlowInv
<1>5. Visible(m) => fate[m] = "written"
  BY DEF MessengerInv, FlowInv, ViewsOK, Visible
<1>6. CASE ~Visible(m)
  <2>1. OnWire(m) = {} /\ Showings(m) = {}
    BY <1>2, <1>3, <1>6 DEF Visible
  <2>2. ~(Undisturbed(To[m]) /\ fate[m] = "written")
    BY <1>6 DEF MessengerInv, FlowInv, Undisturbed, Orphaned
  <2>3. QED  BY <1>1, <2>1, <2>2, FS_EmptySet
<1>7. CASE Visible(m)
  <2>1. PICK c \in Clients : \E i : OnWireAt(m, c, i) \/ ShownAt(m, c, i)
    BY <1>7 DEF Visible
  <2>2. PICK i : OnWireAt(m, c, i) \/ ShownAt(m, c, i)
    BY <2>1
  <2>3. CASE OnWireAt(m, c, i)
    <3>1. OnWire(m) = {<<c, i>>} /\ Showings(m) = {}
      BY <1>2, <1>3, <1>4, <2>3 DEF SeenOnce
    <3>2. Cardinality(Places(m)) = 0
      BY <1>1, <1>5, <1>7
    <3>3. Cardinality(OnWire(m)) = 1 /\ Cardinality(Showings(m)) = 0
      BY <3>1, FS_EmptySet, FS_Singleton
    <3>4. QED  BY <3>2, <3>3
  <2>4. CASE ShownAt(m, c, i)
    <3>1. Showings(m) = {<<c, i>>} /\ OnWire(m) = {}
      BY <1>2, <1>3, <1>4, <2>4 DEF SeenOnce
    <3>2. Cardinality(Places(m)) = 0
      BY <1>1, <1>5, <1>7
    <3>3. Cardinality(Showings(m)) = 1 /\ Cardinality(OnWire(m)) = 0
      BY <3>1, FS_EmptySet, FS_Singleton
    <3>4. QED  BY <3>2, <3>3
  <2>5. QED  BY <2>2, <2>3, <2>4
<1>8. QED  BY <1>6, <1>7

LEMMA MessengerInvariant == ~Recycle => (MSpec => []MessengerInv)
<1>. SUFFICES ASSUME ~Recycle PROVE MSpec => []MessengerInv
  OBVIOUS
<1>1. MInit => MessengerInv
  BY InitMessenger
<1>2. MessengerInv /\ [MNext]_all => MessengerInv'
  BY StepMessenger
<1>3. QED  BY <1>1, <1>2, PTL DEF MSpec

(* The server's and the clients' variables have their types, as long as the heap does not
   hand out the memory of an erased entry, where junk may wait. *)
THEOREM MessengerTypes == ~Recycle => (MSpec => []ClientTypeOK)
<1>. SUFFICES ASSUME ~Recycle PROVE MSpec => []ClientTypeOK
  OBVIOUS
<1>1. MSpec => []MessengerInv
  BY MessengerInvariant
<1>2. MessengerInv => ClientTypeOK
  BY InvImpliesClientTypes
<1>3. QED  BY <1>1, <1>2, PTL

(* Whatever clients come, go and are killed: what one shows was typed for its user, as it
   reads (client_app_main.cpp:36, 94; GrpcServer.cpp:54, 102; GrpcClient.cpp:55). *)
THEOREM ShownIsTyped == ~Recycle => (MSpec => []ShowsWhatWasTyped)
<1>. SUFFICES ASSUME ~Recycle PROVE MSpec => []ShowsWhatWasTyped
  OBVIOUS
<1>1. MSpec => []MessengerInv
  BY MessengerInvariant
<1>2. MessengerInv => ShowsWhatWasTyped
  BY InvImpliesShown
<1>3. QED  BY <1>1, <1>2, PTL

(* One sender's messages are shown in the order they were typed, across logouts, logins
   and entries that replace each other (client_app_main.cpp:89-97, GrpcServer.cpp:93-106,
   GrpcClient.cpp:54-61). *)
THEOREM ShownAsTypedInOrder == ~Recycle => (MSpec => []ShownInOrder)
<1>. SUFFICES ASSUME ~Recycle PROVE MSpec => []ShownInOrder
  OBVIOUS
<1>1. MSpec => []MessengerInv
  BY MessengerInvariant
<1>2. MessengerInv => ShownInOrder
  BY InvImpliesShown
<1>3. QED  BY <1>1, <1>2, PTL

(* No message is shown twice, and none of an undisturbed user is lost between the server's
   accepting it and a screen (GrpcServer.cpp:67, 100-104; GrpcClient.cpp:54). *)
THEOREM OnceAndNotLost == ~Recycle => (MSpec => []ShownOnceNoneLost)
<1>. SUFFICES ASSUME ~Recycle PROVE MSpec => []ShownOnceNoneLost
  OBVIOUS
<1>1. MSpec => []MessengerInv
  BY MessengerInvariant
<1>2. MessengerInv => ShownOnceNoneLost
  BY InvImpliesOnce
<1>3. QED  BY <1>1, <1>2, PTL

--------------------------------------------------------------------------------
(* The post office.  At what stage a message is. *)
StagesOK ==
  \A m \in Msgs :
    /\ fate[m] = "new" <=> Stage(m) = "unsent"
    /\ fate[m] \in {"sent", "refused"} => Stage(m) = fate[m]
    /\ fate[m] = "queued" => Stage(m) = "waiting"
    /\ fate[m] = "lost" => Stage(m) = "lost"
    /\ fate[m] = "written" =>
         Stage(m) = IF \E c \in Clients : \E i : ShownAt(m, c, i) THEN "shown"
                    ELSE IF \E c \in Clients : \E i : OnWireAt(m, c, i) THEN "waiting"
                    ELSE "lost"

LEMMA Stages == MessengerInv => StagesOK
<1>. SUFFICES ASSUME MessengerInv, NEW m \in Msgs
     PROVE  /\ fate[m] = "new" <=> Stage(m) = "unsent"
            /\ fate[m] \in {"sent", "refused"} => Stage(m) = fate[m]
            /\ fate[m] = "queued" => Stage(m) = "waiting"
            /\ fate[m] = "lost" => Stage(m) = "lost"
            /\ fate[m] = "written" =>
                 Stage(m) = IF \E c \in Clients : \E i : ShownAt(m, c, i) THEN "shown"
                            ELSE IF \E c \in Clients : \E i : OnWireAt(m, c, i) THEN "waiting"
                            ELSE "lost"
  BY DEF StagesOK
<1>1. /\ Showings(m) # {} <=> \E c \in Clients : \E i : ShownAt(m, c, i)
      /\ OnWire(m) # {} <=> \E c \in Clients : \E i : OnWireAt(m, c, i)
  BY SeenWhere
<1>2. Places(m) # {} <=> fate[m] = "queued"
  BY PlacesFilled DEF MessengerInv, ServerInv, MailInv
<1>3. Showings(m) # {} \/ OnWire(m) # {} => fate[m] = "written"
  BY <1>1 DEF MessengerInv, FlowInv, ViewsOK
<1>4. fate[m] \in Fates
  BY DEF MessengerInv, ServerInv, Types, TypeOK
<1>. DEFINE P == Places(m)
            W == OnWire(m)
            S == Showings(m)
<1>5. Stage(m) = CASE fate[m] = "new" -> "unsent"
                   [] fate[m] \in {"sent", "refused"} -> fate[m]
                   [] S # {} -> "shown"
                   [] S = {} /\ P \cup W # {} -> "waiting"
                   [] OTHER -> "lost"
  BY DEF Stage
<1>. HIDE DEF P, W, S
<1>6. /\ fate[m] = "new" => Stage(m) = "unsent"
      /\ fate[m] \in {"sent", "refused"} => Stage(m) = fate[m]
      /\ fate[m] \in {"queued", "written", "lost"} =>
           Stage(m) = IF S # {} THEN "shown" ELSE IF P # {} \/ W # {} THEN "waiting" ELSE "lost"
  <2>0. fate[m] \notin {"queued", "written"} => S = {} /\ P \cup W = {}
    BY <1>2, <1>3 DEF P, W, S
  <2>1. CASE fate[m] = "new"
    BY <1>5, <2>0, <2>1
  <2>2. CASE fate[m] \in {"sent", "refused"}
    BY <1>5, <2>0, <2>2
  <2>3. CASE fate[m] \in {"queued", "written", "lost"}
    BY <1>5, <2>3
  <2>4. QED  BY <1>4, <2>1, <2>2, <2>3 DEF Fates
<1>7. QED  BY <1>1, <1>2, <1>3, <1>4, <1>6 DEF Fates, P, W, S

LEMMA StagesNext == MessengerInv' => StagesOK'
BY Stages, PTL

LEMMA InitOffice == ASSUME MInit PROVE Office!POInit
<1>1. \A m \in Msgs : fate[m] = "new"
  BY DEF MInit, Init
<1>2. \A m \in Msgs : Stage(m) = "unsent" /\ Content(m) = Junk
  <2>1. StagesOK
    BY InitMessenger, Stages
  <2>2. QED  BY <1>1, <2>1 DEF StagesOK, Content
<1>3. ASSUME NEW u \in Users PROVE ~Disturbed(u)
  <2>1. up /\ session[u] = "never" /\ \A c \in Clients : client[c].main = "start"
    BY DEF MInit, Init
  <2>2. QED  BY <2>1 DEF Disturbed
<1>4. [m \in Msgs |-> Stage(m)] = [m \in Msgs |-> "unsent"]
  BY <1>2
<1>5. [m \in Msgs |-> Content(m)] = [m \in Msgs |-> Junk]
  BY <1>2
<1>6. {u \in Users : Disturbed(u)} = {}
  BY <1>3
<1>7. shown = [c \in Clients |-> <<>>]
  BY DEF MInit
<1>8. QED  BY <1>4, <1>5, <1>6, <1>7 DEF Office!POInit

(* What has disturbed a user is not undone. *)
LEMMA DisturbedStays ==
  ASSUME ClientsOK, Types, [MNext]_all, NEW u \in Users, Disturbed(u)
  PROVE  Disturbed(u)'
<1>1. [Next]_vars
  BY IsServerStep
<1>2. CASE ~up
  <2>1. ~up'
    BY <1>1, <1>2
    DEF Next, Request, HandlerStep, Abort, vars, AcceptConnection, ReceiveExit, ReceiveMessage,
        StreamIncomingMessages, Call, AddUserToConnected, DisconnectUser, IsRecipientOnline,
        IndexToPush, IndexToPop, Index, PushEnvelope, PopEnvelope, Poll, WriteEnvelope, At
  <2>2. QED  BY <2>1 DEF Disturbed
<1>3. CASE session[u] \in {"out", "again"}
  <2>1. session' = session \/ \E v : LogsIn(v) \/ session' = [session EXCEPT ![v] = IF @ = "never" THEN @ ELSE "out"]
    BY <1>1
    DEF Next, Request, HandlerStep, Abort, vars, history, AcceptConnection, ReceiveExit,
        ReceiveMessage, StreamIncomingMessages, AddUserToConnected, DisconnectUser,
        IsRecipientOnline, IndexToPush, IndexToPop, Index, PushEnvelope, PopEnvelope, Poll,
        WriteEnvelope
  <2>2. session'[u] \in {"out", "again"}
    BY <1>3, <2>1 DEF LogsIn, Types, TypeOK
  <2>3. QED  BY <2>2 DEF Disturbed
<1>4. ASSUME NEW c \in Clients, client[c].user = u, client[c].main = "killed" PROVE Disturbed(u)'
  <2>1. client'[c].user = u /\ client'[c].main = "killed"
    BY <1>4, ClientMoves
  <2>2. QED  BY <2>1 DEF Disturbed
<1>5. QED  BY <1>2, <1>3, <1>4 DEF Disturbed

LEMMA ContentStays ==
  ASSUME ClientsOK, Numbered, [MNext]_all, NEW m \in Msgs, fate'[m] = "new" <=> fate[m] = "new"
  PROVE  Content(m)' = Content(m)
BY TextStays DEF Content

(* A step in which messages stay where they are, or are lost to a user who has been
   disturbed. *)
LEMMA OfficeDisturbs ==
  ASSUME MessengerInv, [MNext]_all, shown' = shown,
         \A m \in Msgs : fate'[m] = "new" <=> fate[m] = "new",
         \A m \in Msgs :
           \/ Stage(m)' = Stage(m)
           \/ Stage(m) = "waiting" /\ Stage(m)' = "lost" /\ Disturbed(To[m])'
  PROVE  Office!PONext
<1>1. \A m \in Msgs : Content(m)' = Content(m)
  BY ContentStays DEF MessengerInv, FlowInv
<1>2. \A u \in Users : Disturbed(u) => Disturbed(u)'
  BY DisturbedStays DEF MessengerInv, ServerInv
<1>. DEFINE U == {u \in Users : Disturbed(u)'}
            M == {m \in Msgs : Stage(m)' # Stage(m)}
<1>3. \A m \in M : Stage(m) = "waiting" /\ Stage(m)' = "lost" /\ To[m] \in U
  BY ToAssumption
<1>4. [m \in Msgs |-> Stage(m)'] = [m \in Msgs |-> IF m \in M THEN "lost" ELSE Stage(m)]
  BY <1>3
<1>5. [m \in Msgs |-> Content(m)'] = [m \in Msgs |-> Content(m)]
  BY <1>1
<1>6. {u \in Users : Disturbed(u)} \subseteq U /\ U \in SUBSET Users /\ M \in SUBSET Msgs
  BY <1>2
<1>7. Office!Disturb(U, M)
  <2>1. \A m \in M : [k \in Msgs |-> Stage(k)][m] = "waiting" /\ To[m] \in U
    BY <1>3
  <2>2. [m \in Msgs |-> Stage(m)'] = [m \in Msgs |-> IF m \in M THEN "lost" ELSE [k \in Msgs |-> Stage(k)][m]]
    BY <1>4
  <2>3. {u \in Users : Disturbed(u)'} = U
    OBVIOUS
  <2>. HIDE DEF U, M
  <2>4. QED  BY <1>5, <1>6, <2>1, <2>2, <2>3 DEF Office!Disturb
<1>. HIDE DEF U, M
<1>8. QED  BY <1>6, <1>7 DEF Office!PONext

(* A step that takes one message to its next stage. *)
LEMMA OfficeMoves ==
  ASSUME NEW m \in Msgs, NEW from, NEW to, Stage(m) = from, Stage(m)' = to,
         \A k \in Msgs \ {m} : Stage(k)' = Stage(k)
  PROVE  Office!Becomes(m, from, to)
<1>1. [k \in Msgs |-> Stage(k)][m] = from
  OBVIOUS
<1>2. [k \in Msgs |-> Stage(k)'] = [[k \in Msgs |-> Stage(k)] EXCEPT ![m] = to]
  OBVIOUS
<1>3. QED  BY <1>1, <1>2 DEF Office!Becomes

LEMMA OfficeAnswers ==
  ASSUME MessengerInv, [MNext]_all, shown' = shown,
         \A k \in Msgs : fate'[k] = "new" <=> fate[k] = "new",
         NEW m \in Msgs, Stage(m) = "sent", Stage(m)' \in {"waiting", "refused"},
         \A k \in Msgs \ {m} : Stage(k)' = Stage(k),
         \A u \in Users : Disturbed(u)' <=> Disturbed(u)
  PROVE  Office!PONext
<1>1. [k \in Msgs |-> Content(k)'] = [k \in Msgs |-> Content(k)]
  BY ContentStays DEF MessengerInv, FlowInv
<1>2. {u \in Users : Disturbed(u)'} = {u \in Users : Disturbed(u)}
  OBVIOUS
<1>3. Office!Becomes(m, "sent", "waiting") \/ Office!Becomes(m, "sent", "refused")
  BY OfficeMoves
<1>4. Office!Accept(m) \/ Office!Refuse(m)
  BY <1>1, <1>2, <1>3 DEF Office!Accept, Office!Refuse
<1>5. QED  BY <1>4 DEF Office!PONext

Shows(m) == \E c \in Clients : \E i : ShownAt(m, c, i)
Waits(m) == \E c \in Clients : \E i : OnWireAt(m, c, i)

(* The same stage: nothing became of m, and it is seen where it was. *)
LEMMA StageStays ==
  ASSUME MessengerInv, MessengerInv', NEW m \in Msgs, fate'[m] = fate[m],
         Shows(m)' <=> Shows(m), Waits(m)' <=> Waits(m)
  PROVE  Stage(m)' = Stage(m)
<1>1. StagesOK /\ StagesOK'
  BY Stages, StagesNext
<1>2. fate[m] \in Fates
  BY DEF MessengerInv, ServerInv, Types, TypeOK
<1>. DEFINE s == Stage(m)
            t == Stage(m)'
<1>3. /\ fate[m] = "new" => s = "unsent" /\ t = "unsent"
      /\ fate[m] \in {"sent", "refused"} => s = fate[m] /\ t = fate[m]
      /\ fate[m] = "queued" => s = "waiting" /\ t = "waiting"
      /\ fate[m] = "lost" => s = "lost" /\ t = "lost"
  BY <1>1 DEF StagesOK
<1>4. fate[m] = "written" =>
        /\ s = IF Shows(m) THEN "shown" ELSE IF Waits(m) THEN "waiting" ELSE "lost"
        /\ t = IF Shows(m)' THEN "shown" ELSE IF Waits(m)' THEN "waiting" ELSE "lost"
  BY <1>1 DEF StagesOK, Shows, Waits
<1>. HIDE DEF s, t
<1>5. s = t
  BY <1>2, <1>3, <1>4 DEF Fates
<1>6. QED  BY <1>5 DEF s, t

(* A step in which no client is written or shown anything. *)
LEMMA OfficeQuiet ==
  ASSUME MessengerInv, MessengerInv', [MNext]_all, wire' = wire, shown' = shown,
         \A m \in Msgs :
           \/ fate'[m] = fate[m]
           \/ fate[m] = "queued" /\ fate'[m] = "lost" /\ Disturbed(To[m])
  PROVE  Office!PONext
<1>1. ASSUME NEW m \in Msgs
      PROVE  \/ Stage(m)' = Stage(m)
             \/ Stage(m) = "waiting" /\ Stage(m)' = "lost" /\ Disturbed(To[m])'
  <2>1. CASE fate'[m] = fate[m]
    <3>1. (Shows(m)' <=> Shows(m)) /\ (Waits(m)' <=> Waits(m))
      BY DEF Shows, Waits, OnWireAt, ShownAt
    <3>2. QED  BY <2>1, <3>1, StageStays
  <2>2. CASE fate[m] = "queued" /\ fate'[m] = "lost" /\ Disturbed(To[m])
    <3>1. Stage(m) = "waiting" /\ Stage(m)' = "lost"
      BY <2>2, Stages, StagesNext DEF StagesOK
    <3>2. PICK u \in Users : u = To[m]
      BY ToAssumption
    <3>3. Disturbed(u)'
      BY <2>2, <3>2, DisturbedStays DEF MessengerInv, ServerInv
    <3>4. QED  BY <3>1, <3>2, <3>3
  <2>3. QED  BY <2>1, <2>2
<1>2. \A m \in Msgs : fate'[m] = "new" <=> fate[m] = "new"
  OBVIOUS
<1>3. QED  BY <1>1, <1>2, OfficeDisturbs

(* Mail lost with a cell that is built anew was for a user who has logged out. *)
LEMMA LostDisturbed ==
  ASSUME ~Recycle, MessengerInv, NEW n \in Allocated, LoseMail(n), NEW m \in Msgs
  PROVE  \/ fate'[m] = fate[m]
         \/ fate[m] = "queued" /\ fate'[m] = "lost" /\ Disturbed(To[m])
<1>1. n \in Nodes /\ Free(n)
  BY DEF Allocated, Untouched
<1>2. CASE m \notin ToSet(cell[n])
  BY <1>2 DEF LoseMail
<1>3. CASE m \in ToSet(cell[n])
  <2>1. PICK j \in DOMAIN cell[n] : cell[n][j] = m
    BY <1>3 DEF ToSet
  <2>2. post_box[To[m]] # n /\ To[m] \in Users
    BY <1>1, ToAssumption DEF Free
  <2>3. session[To[m]] \notin {"never", "first"}
    BY <1>1, <2>1, <2>2 DEF MessengerInv, Boxed
  <2>4. Disturbed(To[m])
    BY <2>2, <2>3 DEF MessengerInv, ServerInv, Types, TypeOK, Disturbed
  <2>5. InSomeCell(m)
    <3>1. j \in 1 .. Len(cell[n]) /\ j \in 1 .. Length
      BY <1>1, LengthAssumption DEF MessengerInv, ServerInv, Types, TypeOK
    <3>2. QED  BY <1>1, <2>1, <3>1 DEF InSomeCell, InCell
  <2>6. fate[m] = "queued"
    BY <2>5 DEF MessengerInv, ServerInv, MailInv, Tracked
  <2>7. fate'[m] = "lost"
    BY <1>3 DEF LoseMail
  <2>8. QED  BY <2>4, <2>6, <2>7
<1>4. QED  BY <1>2, <1>3

(* A step of a handler that leaves the wires alone. *)
LEMMA OfficeHandles ==
  ASSUME ~Recycle, MessengerInv, MessengerInv', [MNext]_all, wire' = wire, shown' = shown,
         NEW h \in Handlers, HandlerStep(h), rpc[h].pc # "write",
         \A c \in Clients :
           /\ client'[c].main = "killed" <=> client[c].main = "killed"
           /\ client[c].main = "killed" => client'[c].user = client[c].user
  PROVE  Office!PONext
<1>0. fate \in [Msgs -> Fates]
  BY DEF MessengerInv, ServerInv, Types, TypeOK
<1>1. CASE AddUserToConnected(h) \/ IndexToPush(h) \/ IndexToPop(h)
  <2>1. fate' = fate \/ \E n \in Allocated : LoseMail(n)
    BY <1>1 DEF AddUserToConnected, IndexToPush, IndexToPop, Index, Insert
  <2>2. \A m \in Msgs : \/ fate'[m] = fate[m]
                        \/ fate[m] = "queued" /\ fate'[m] = "lost" /\ Disturbed(To[m])
    BY <2>1, LostDisturbed
  <2>3. QED  BY <2>2, OfficeQuiet
<1>2. CASE fate' = fate
  BY <1>2, OfficeQuiet
<1>3. CASE (IsRecipientOnline(h) \/ PushEnvelope(h)) /\ fate' # fate
  <2>1. PICK m : m = rpc[h].env
    OBVIOUS
  <2>2. PICK f \in {"refused", "queued"} : fate' = [fate EXCEPT ![m] = f]
    BY <1>3, <2>1 DEF IsRecipientOnline, PushEnvelope
  <2>3. Delivering(h)
    BY <1>3 DEF IsRecipientOnline, PushEnvelope, At, Delivering, Receiving
  <2>4. m \in Msgs /\ fate[m] = "sent"
    BY <2>1, <2>3
    DEF MessengerInv, ServerInv, Types, LocalsOK, IsMailFor, MailInv, SentOnce, Delivering
  <2>5. fate'[m] = f /\ \A k \in Msgs \ {m} : fate'[k] = fate[k]
    BY <1>0, <2>2, <2>4
  <2>6. Stage(m) = "sent" /\ Stage(m)' \in {"refused", "waiting"}
    BY <2>4, <2>5, Stages, StagesNext DEF StagesOK
  <2>7. ASSUME NEW k \in Msgs \ {m} PROVE Stage(k)' = Stage(k)
    <3>1. (Shows(k)' <=> Shows(k)) /\ (Waits(k)' <=> Waits(k))
      BY DEF Shows, Waits, OnWireAt, ShownAt
    <3>2. QED  BY <2>5, <3>1, StageStays
  <2>8. \A k \in Msgs : fate'[k] = "new" <=> fate[k] = "new"
    BY <2>4, <2>5
  <2>9. up' = up /\ session' = session
    BY <1>3 DEF IsRecipientOnline, PushEnvelope
  <2>10. \A c \in Clients :
           client'[c].main = "killed" => client'[c].user = client[c].user
    OBVIOUS
  <2>11. \A u \in Users : Disturbed(u)' <=> Disturbed(u)
    BY <2>9, <2>10 DEF Disturbed
  <2>12. QED  BY <2>4, <2>6, <2>7, <2>8, <2>11, OfficeAnswers
<1>4. QED
  BY <1>1, <1>2, <1>3
  DEF HandlerStep, DisconnectUser, Poll, PopEnvelope, WriteEnvelope, At, history

(* A stream writes to its client, or to one that has been killed. *)
LEMMA OfficeForwards ==
  ASSUME MessengerInv, MessengerInv', [MNext]_all, NEW c \in Clients, Forward(c)
  PROVE  Office!PONext
<1>. DEFINE h == Stream(c)
<1>0. PICK e : e = rpc[h].env
  OBVIOUS
<1>1. /\ h \in Handlers /\ up /\ rpc[h].pc = "write"
      /\ e \in Msgs /\ To[e] = rpc[h].user
      /\ fate' = [fate EXCEPT ![e] = "written"]
      /\ wire' = [wire EXCEPT ![c] = IF Running(c) THEN Append(@, e) ELSE @]
      /\ client' = client /\ shown' = shown
  BY <1>0, HandlersOfClients DEF Forward, WriteEnvelope, At, MessengerInv, ServerInv, Apart, IsMailFor
<1>2. client[c].user = To[e] /\ (client[c].main = "killed" \/ Running(c))
  BY <1>1 DEF MessengerInv, ThreadsOK
<1>3. fate[e] = "queued"
  BY <1>0, <1>1 DEF MessengerInv, ServerInv, MailInv, Tracked, InSomeHand, InHand
<1>. HIDE DEF h
<1>4. ~Shows(e) /\ ~Waits(e)
  BY <1>1, <1>3 DEF MessengerInv, FlowInv, ViewsOK, Shows, Waits
<1>5. fate'[e] = "written" /\ \A m \in Msgs \ {e} : fate'[m] = fate[m]
  BY <1>1 DEF MessengerInv, ServerInv, Types, TypeOK
<1>6. wire \in [Clients -> Seq(Msgs)]
  BY DEF MessengerInv, FlowInv, ViewsOK
<1>7. \A m : Shows(m)' <=> Shows(m)
  BY <1>1 DEF Shows, ShownAt
<1>8. wire'[c] = (IF Running(c) THEN Append(wire[c], e) ELSE wire[c])
      /\ \A d \in Clients \ {c} : wire'[d] = wire[d]
  BY <1>1, <1>6
<1>9. /\ \A m \in Msgs \ {e} : \A d \in Clients : \A i : OnWireAt(m, d, i)' <=> OnWireAt(m, d, i)
      /\ Running(c) => \E i : OnWireAt(e, c, i)'
  <2>. DEFINE s == wire[c]
  <2>1. /\ s \in Seq(Msgs) /\ DOMAIN s = 1 .. Len(s) /\ Len(s) \in Nat
        /\ DOMAIN Append(s, e) = 1 .. Len(s) + 1
        /\ \A i \in 1 .. Len(s) : Append(s, e)[i] = s[i]
        /\ Append(s, e)[Len(s) + 1] = e
    BY <1>6
  <2>2. wire'[c] = s \/ wire'[c] = Append(s, e)
    BY <1>8
  <2>3. Running(c) => wire'[c] = Append(s, e)
    BY <1>8
  <2>4. \A m, i : OnWireAt(m, c, i) <=> i \in 1 .. Len(s) /\ s[i] = m
    BY <2>1 DEF OnWireAt
  <2>5. \A m, i : OnWireAt(m, c, i)' <=> i \in DOMAIN wire'[c] /\ wire'[c][i] = m
    BY DEF OnWireAt
  <2>6. \A d \in Clients \ {c} : \A m, i : OnWireAt(m, d, i)' <=> OnWireAt(m, d, i)
    BY <1>8 DEF OnWireAt
  <2>. HIDE DEF s
  <2>7. \A m \in Msgs \ {e} : \A i : OnWireAt(m, c, i)' <=> OnWireAt(m, c, i)
    BY <2>1, <2>2, <2>4, <2>5
  <2>8. ASSUME Running(c) PROVE \E i : OnWireAt(e, c, i)'
    <3>1. PICK i : i = Len(s) + 1
      OBVIOUS
    <3>2. OnWireAt(e, c, i)'
      BY <2>1, <2>3, <2>5, <2>8, <3>1
    <3>3. QED  BY <3>2
  <2>9. QED  BY <2>6, <2>7, <2>8
<1>10. ASSUME NEW m \in Msgs
       PROVE  \/ Stage(m)' = Stage(m)
              \/ Stage(m) = "waiting" /\ Stage(m)' = "lost" /\ Disturbed(To[m])'
  <2>1. CASE m # e
    <3>1. Waits(m)' <=> Waits(m)
      BY <1>9, <2>1 DEF Waits
    <3>2. QED  BY <1>5, <1>7, <2>1, <3>1, StageStays
  <2>2. CASE m = e
    <3>1. Stage(e) = "waiting"
      BY <1>1, <1>3, Stages DEF StagesOK
    <3>2. Stage(e)' = IF Shows(e)' THEN "shown" ELSE IF Waits(e)' THEN "waiting" ELSE "lost"
      BY <1>1, <1>5, StagesNext DEF StagesOK, Shows, Waits
    <3>3. CASE Running(c)
      BY <1>4, <1>7, <1>9, <2>2, <3>1, <3>2, <3>3 DEF Waits
    <3>4. CASE client[c].main = "killed"
      <4>1. Disturbed(To[e])'
        BY <1>1, <1>2, <3>4 DEF Disturbed
      <4>2. Stage(e)' \in {"waiting", "lost"}
        BY <1>4, <1>7, <3>2
      <4>3. QED  BY <2>2, <3>1, <4>1, <4>2
    <3>5. QED  BY <1>2, <3>3, <3>4
  <2>3. QED  BY <2>1, <2>2
<1>11. \A m \in Msgs : fate'[m] = "new" <=> fate[m] = "new"
  BY <1>3, <1>5
<1>12. QED  BY <1>1, <1>10, <1>11, OfficeDisturbs

(* A killed client's unread mail is lost to a user who is disturbed. *)
LEMMA OfficeKills ==
  ASSUME MessengerInv, MessengerInv', [MNext]_all, NEW c \in Clients, Kill(c)
  PROVE  Office!PONext
<1>1. /\ wire' = [wire EXCEPT ![c] = <<>>] /\ shown' = shown /\ fate' = fate
      /\ client[c].main # "start" /\ client'[c].main = "killed"
  BY DEF Kill, vars, MessengerInv, ClientsOK, ClientTypes, ClientStates
<1>2. wire \in [Clients -> Seq(Msgs)]
  BY DEF MessengerInv, FlowInv, ViewsOK
<1>3. wire'[c] = <<>> /\ \A d \in Clients \ {c} : wire'[d] = wire[d]
  BY <1>1, <1>2
<1>4. /\ \A m : Shows(m)' <=> Shows(m)
      /\ \A d \in Clients : \A m, i : OnWireAt(m, d, i)' <=> OnWireAt(m, d, i) /\ d # c
  BY <1>1, <1>3 DEF OnWireAt, Shows, ShownAt
<1>5. client'[c].user = client[c].user
  BY <1>1, ClientMoves DEF MessengerInv
<1>6. ASSUME NEW m \in Msgs
      PROVE  \/ Stage(m)' = Stage(m)
             \/ Stage(m) = "waiting" /\ Stage(m)' = "lost" /\ Disturbed(To[m])'
  <2>1. CASE \A i : ~OnWireAt(m, c, i)
    <3>1. Waits(m)' <=> Waits(m)
      BY <1>4, <2>1 DEF Waits
    <3>2. QED  BY <1>1, <1>4, <3>1, StageStays
  <2>2. ASSUME NEW i, OnWireAt(m, c, i)
        PROVE  Stage(m) = "waiting" /\ Stage(m)' = "lost" /\ Disturbed(To[m])'
    <3>1. fate[m] = "written" /\ To[m] = client[c].user
      BY <2>2 DEF MessengerInv, FlowInv, ViewsOK
    <3>2. SeenOnce(m)
      BY DEF MessengerInv, FlowInv
    <3>3. Waits(m) /\ ~Shows(m) /\ ~Waits(m)'
      BY <1>4, <2>2, <3>2 DEF Waits, Shows, SeenOnce
    <3>4. /\ Stage(m) = IF Shows(m) THEN "shown" ELSE IF Waits(m) THEN "waiting" ELSE "lost"
          /\ Stage(m)' = IF Shows(m)' THEN "shown" ELSE IF Waits(m)' THEN "waiting" ELSE "lost"
      BY <1>1, <3>1, Stages, StagesNext DEF StagesOK, Shows, Waits
    <3>5. Stage(m) = "waiting" /\ Stage(m)' = "lost"
      BY <1>4, <3>3, <3>4
    <3>6. Disturbed(To[m])'
      BY <1>1, <1>5, <3>1 DEF Disturbed
    <3>7. QED  BY <3>5, <3>6
  <2>3. QED  BY <2>1, <2>2
<1>7. QED  BY <1>1, <1>6, OfficeDisturbs

(* A client shows the first message on its wire. *)
LEMMA OfficeShows ==
  ASSUME MessengerInv, MessengerInv', [MNext]_all, NEW c \in Clients, ReadMessage(c)
  PROVE  Office!PONext
<1>0. PICK m : m = Head(wire[c])
  OBVIOUS
<1>a. PICK line : line = [msg |-> m, text |-> CString(Read(m).payload)]
  OBVIOUS
<1>b. ClientsOK /\ FlowInv
  BY DEF MessengerInv
<1>1. /\ wire[c] # <<>> /\ client' = client /\ typed' = typed /\ fate' = fate
      /\ shown' = [shown EXCEPT ![c] = Append(@, line)]
      /\ m \in Msgs /\ OnWireAt(m, c, 1)
      /\ fate[m] = "written" /\ To[m] = client[c].user
      /\ line.msg = m /\ line.text = typed[m[1]][m[3]]
  BY <1>0, <1>a, <1>b, ReadMoves
<1>2. \A d \in Clients : \A k, i :
        OnWireAt(k, d, i)' <=> IF d = c THEN i \in Nat \ {0} /\ OnWireAt(k, c, i + 1)
                                        ELSE OnWireAt(k, d, i)
  BY <1>0, <1>a, <1>b, ReadMoves
<1>3. \A d \in Clients : \A k, i :
        ShownAt(k, d, i)' <=> ShownAt(k, d, i) \/ (d = c /\ k = m /\ i = Len(shown[c]) + 1)
  BY <1>0, <1>a, <1>b, ReadMoves
<1>4. up' = up /\ session' = session
  BY DEF ReadMessage, vars
<1>5. SeenOnce(m)
  BY <1>1, <1>b DEF FlowInv
<1>6. Waits(m) /\ ~Shows(m) /\ Shows(m)'
  <2>1. Waits(m) /\ ~Shows(m)
    BY <1>1, <1>5 DEF Waits, Shows, SeenOnce
  <2>2. PICK i : i = Len(shown[c]) + 1
    OBVIOUS
  <2>3. ShownAt(m, c, i)'
    BY <1>3, <2>2
  <2>4. QED  BY <2>1, <2>3 DEF Shows
<1>7. Stage(m) = "waiting" /\ Stage(m)' = "shown"
  <2>1. /\ Stage(m) = IF Shows(m) THEN "shown" ELSE IF Waits(m) THEN "waiting" ELSE "lost"
        /\ Stage(m)' = IF Shows(m)' THEN "shown" ELSE IF Waits(m)' THEN "waiting" ELSE "lost"
    BY <1>1, Stages, StagesNext DEF StagesOK, Shows, Waits
  <2>2. QED  BY <1>6, <2>1
<1>8. ASSUME NEW k \in Msgs \ {m} PROVE Stage(k)' = Stage(k)
  <2>1. Shows(k)' <=> Shows(k)
    BY <1>3 DEF Shows
  <2>2. ASSUME Waits(k)' PROVE Waits(k)
    <3>1. PICK d \in Clients : \E i : OnWireAt(k, d, i)'
      BY <2>2 DEF Waits
    <3>2. \E i : OnWireAt(k, d, i)
      BY <1>2, <3>1
    <3>3. QED  BY <3>2 DEF Waits
  <2>3. ASSUME Waits(k) PROVE Waits(k)'
    <3>1. PICK d \in Clients : \E i : OnWireAt(k, d, i)
      BY <2>3 DEF Waits
    <3>2. PICK i : OnWireAt(k, d, i)
      BY <3>1
    <3>3. CASE d # c
      <4>1. OnWireAt(k, d, i)'
        BY <1>2, <3>2, <3>3
      <4>2. QED  BY <4>1 DEF Waits
    <3>4. CASE d = c
      <4>1. wire[c] \in Seq(Msgs)
        BY <1>b DEF FlowInv, ViewsOK
      <4>2. i \in 1 .. Len(wire[c]) /\ i # 1 /\ Len(wire[c]) \in Nat
        BY <1>0, <3>2, <3>4, <4>1 DEF OnWireAt
      <4>3. PICK j : j = i - 1
        OBVIOUS
      <4>4. j \in Nat \ {0} /\ j + 1 = i
        BY <4>2, <4>3
      <4>5. OnWireAt(k, c, j)'
        BY <1>2, <3>2, <3>4, <4>4
      <4>6. QED  BY <4>5 DEF Waits
    <3>5. QED  BY <3>3, <3>4
  <2>4. QED  BY <1>1, <2>1, <2>2, <2>3, StageStays
<1>9. Office!Becomes(m, "waiting", "shown")
  BY <1>1, <1>7, <1>8, OfficeMoves
<1>10. \A n \in Office!Shown(c) :
         /\ n \in Msgs /\ To[n] = To[m]
         /\ [k \in Msgs |-> k[1]][n] = [k \in Msgs |-> k[1]][m] =>
              [k \in Msgs |-> k[3]][n] < [k \in Msgs |-> k[3]][m]
  <2>1. ASSUME NEW n \in Office!Shown(c) PROVE n \in Msgs /\ To[n] = To[m] /\ Before(n, m)
    <3>1. PICK i \in DOMAIN shown[c] : n = shown[c][i].msg
      BY <2>1 DEF Office!Shown
    <3>2. n \in Msgs
      <4>. DEFINE S == [msg : Msgs, text : Texts]
      <4>1. shown[c] \in Seq(S) /\ \A r \in S : r.msg \in Msgs
        BY <1>b DEF FlowInv, ViewsOK
      <4>. HIDE DEF S
      <4>2. QED  BY <3>1, <4>1
    <3>3. ShownAt(n, c, i)
      BY <3>1 DEF ShownAt
    <3>4. To[n] = client[c].user
      BY <1>b, <3>2, <3>3 DEF FlowInv, ViewsOK
    <3>5. 1 \in DOMAIN wire[c] /\ wire[c][1] = m
      BY <1>1 DEF OnWireAt
    <3>6. Before(n, m)
      BY <3>1, <3>5 DEF MessengerInv, InSequence, TakenInOrder
    <3>7. QED  BY <1>1, <3>2, <3>4, <3>6
  <2>2. QED  BY <1>1, <2>1 DEF Before
<1>11. shown' = [shown EXCEPT ![c] = Append(@, [msg |-> m, text |-> [k \in Msgs |-> Content(k)][m]])]
  <2>1. line = [msg |-> m, text |-> Content(m)]
    BY <1>a, <1>1 DEF Content
  <2>2. QED  BY <1>1, <2>1
<1>12. [k \in Msgs |-> Content(k)'] = [k \in Msgs |-> Content(k)]
  BY <1>1, <1>b, ContentStays DEF FlowInv
<1>13. {u \in Users : Disturbed(u)'} = {u \in Users : Disturbed(u)}
  BY <1>1, <1>4 DEF Disturbed
<1>14. Office!Show(m, c)
  BY <1>9, <1>10, <1>11, <1>12, <1>13 DEF Office!Show
<1>15. QED  BY <1>1, <1>14 DEF Office!PONext

(* A user's line is submitted, unless it is "exit" or there is no server. *)
LEMMA OfficeSubmits ==
  ASSUME MessengerInv, MessengerInv', [MNext]_all,
         NEW c \in Clients, NEW word \in Words, SendEnvelope(c, word)
  PROVE  Office!PONext
<1>. DEFINE h == Unary(c)
<1>a. PICK n : n = Len(typed[c]) + 1
  OBVIOUS
<1>b. PICK m : m = <<c, client[c].to, n>>
  OBVIOUS
<1>0. ClientsOK /\ FlowInv /\ fate \in [Msgs -> Fates] /\ typed \in [Clients -> Seq(Words)]
  BY DEF MessengerInv, ServerInv, Types, TypeOK, ClientsOK, ClientTypes
<1>1. /\ Calling(IF word = Exit THEN ReceiveExit(h, client[c].user) ELSE ReceiveMessage(h, m))
      /\ typed' = [typed EXCEPT ![c] = Append(@, word)] /\ wire' = wire /\ shown' = shown
      /\ n <= Limit[c] \/ word = Exit
      /\ client[c].to \in Contacts
  <2>1. Received(c, client[c].to, word).sender_id = client[c].user
        /\ Received(c, client[c].to, word).recepient_id = client[c].to
        /\ CString(Received(c, client[c].to, word).payload) = word
    BY WordsAreTexts, ReceivedIsTyped
  <2>2. QED  BY <1>0, <1>a, <1>b, <2>1 DEF SendEnvelope, ClientsOK
<1>2. \A d \in Clients : client'[d].main = client[d].main /\ client'[d].user = client[d].user
  BY <1>0 DEF SendEnvelope, ClientsOK, ClientTypes, ClientStates
<1>3. CASE up /\ word # Exit
  <2>1. ReceiveMessage(h, m) /\ n <= Limit[c]
    BY <1>1, <1>3 DEF Calling
  <2>2. n \in Nat \ {0} /\ m[1] = c /\ m[3] = n
    BY <1>0, <1>a, <1>b
  <2>3. m \in Msgs
    <3>1. Limit[c] \in Nat
      BY ClientsAssumption
    <3>2. n \in 1 .. Limit[c]
      BY <2>1, <2>2, <3>1
    <3>3. QED  BY <1>1, <1>b, <3>2, MessageBuilt
  <2>4. typed'[c][n] = word
    BY <1>0, <1>1, <1>a
  <2>. HIDE DEF h
  <2>5. fate[m] = "new" /\ fate' = [fate EXCEPT ![m] = "sent"] /\ up' = up /\ session' = session
    BY <2>1 DEF ReceiveMessage
  <2>6. fate'[m] = "sent" /\ \A k \in Msgs \ {m} : fate'[k] = fate[k]
    BY <1>0, <2>3, <2>5
  <2>7. Stage(m) = "unsent" /\ Stage(m)' = "sent"
    BY <2>3, <2>5, <2>6, Stages, StagesNext DEF StagesOK
  <2>8. ASSUME NEW k \in Msgs \ {m} PROVE Stage(k)' = Stage(k)
    <3>1. (Shows(k)' <=> Shows(k)) /\ (Waits(k)' <=> Waits(k))
      BY <1>1 DEF Shows, Waits, OnWireAt, ShownAt
    <3>2. QED  BY <2>6, <3>1, StageStays
  <2>9. Office!Becomes(m, "unsent", "sent")
    BY <2>3, <2>7, <2>8, OfficeMoves
  <2>10. Content(m)' = word
    BY <2>2, <2>4, <2>6 DEF Content
  <2>11. \A k \in Msgs \ {m} : Content(k)' = Content(k)
    BY <1>0, <2>6, ContentStays DEF FlowInv
  <2>12. [k \in Msgs |-> Content(k)'] = [[k \in Msgs |-> Content(k)] EXCEPT ![m] = word]
    BY <2>10, <2>11
  <2>13. {u \in Users : Disturbed(u)'} = {u \in Users : Disturbed(u)}
    BY <1>2, <2>5 DEF Disturbed
  <2>14. Office!Submit(m)
    BY <1>1, <2>9, <2>12, <2>13, WordsAreTexts DEF Office!Submit
  <2>15. QED  BY <2>3, <2>14 DEF Office!PONext
<1>4. CASE ~up \/ word = Exit
  <2>1. fate' = fate
    BY <1>1, <1>4 DEF Calling, ReceiveExit, history, vars
  <2>2. QED  BY <1>1, <2>1, OfficeQuiet
<1>5. QED  BY <1>3, <1>4

LEMMA StepOffice ==
  ASSUME ~Recycle, MessengerInv, MessengerInv', [MNext]_all
  PROVE  Office!PONext
<1>0. client \in [Clients -> ClientStates]
  BY DEF MessengerInv, ClientsOK, ClientTypes
<1>1. ASSUME fate' = fate, wire' = wire, shown' = shown PROVE Office!PONext
  BY <1>1, OfficeQuiet
<1>2. ASSUME NEW c \in Clients, Answer(c) PROVE Office!PONext
  <2>1. Unary(c) \in Handlers /\ HandlerStep(Unary(c)) /\ rpc[Unary(c)].pc # "write"
    BY <1>2, HandlersOfClients DEF Answer, MessengerInv, ThreadsOK, Streaming
  <2>2. wire' = wire /\ shown' = shown /\ (client' = client \/ Returned(c, TRUE))
    BY <1>2 DEF Answer
  <2>3. \A d \in Clients : /\ client'[d].main = "killed" <=> client[d].main = "killed"
                           /\ client[d].main = "killed" => client'[d].user = client[d].user
    BY <1>0, <2>2, ReturnedClient
  <2>4. QED  BY <2>1, <2>2, <2>3, OfficeHandles
<1>3. ASSUME NEW c \in Clients, Watch(c) PROVE Office!PONext
  <2>1. /\ Stream(c) \in Handlers /\ HandlerStep(Stream(c)) /\ rpc[Stream(c)].pc # "write"
        /\ wire' = wire /\ shown' = shown /\ client' = client
    BY <1>3, HandlersOfClients
    DEF Watch, Poll, IndexToPop, Index, PopEnvelope, At, HandlerStep, app
  <2>2. QED  BY <2>1, OfficeHandles
<1>4. ASSUME NEW c \in Clients, Connect(c) \/ ListenOthers(c) PROVE Office!PONext
  BY <1>1, <1>4
  DEF Connect, ListenOthers, Calling, AcceptConnection, StreamIncomingMessages, vars, history
<1>5. ASSUME NEW c \in Clients,
             Refuse(c) \/ AskRecipient(c) \/ Unavailable(c) \/ StopListening(c) \/ Join(c)
      PROVE  Office!PONext
  BY <1>1, <1>5 DEF Refuse, AskRecipient, Unavailable, StopListening, Join, vars
<1>6. CASE Crash \/ UNCHANGED all
  BY <1>1, <1>6 DEF Crash, Abort, history, vars, app, all
<1>7. QED
  BY <1>2, <1>3, <1>4, <1>5, <1>6, OfficeForwards, OfficeShows, OfficeKills, OfficeSubmits
  DEF MNext, User, Returning, Streams, Threads

(* The messenger implements the post office: whatever its processes and threads do,
   messages only move from one stage to the next, are shown once, unaltered, in order and
   to their recipients alone, and are lost only to users whose session was disturbed
   (GrpcServer.cpp:43-109, GrpcClient.cpp:31-63, client_app_main.cpp:79-98). *)
THEOREM MessengerIsAPostOffice == ~Recycle => (MSpec => ImplementsPostOffice)
<1>. SUFFICES ASSUME ~Recycle PROVE MSpec => ImplementsPostOffice
  OBVIOUS
<1>1. MSpec => []MessengerInv
  BY MessengerInvariant
<1>2. MInit => Office!POInit
  BY InitOffice
<1>3. MessengerInv /\ MessengerInv' /\ [MNext]_all => Office!PONext
  BY StepOffice
<1>4. QED  BY <1>1, <1>2, <1>3, PTL DEF MSpec, ImplementsPostOffice, Office!POSpec
================================================================================
