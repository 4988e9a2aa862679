-------------------------------- MODULE Messenger --------------------------------
(***************************************************************************)
(* The whole messenger: client_app processes (client_app_main.cpp,         *)
(* endpoint/GrpcClient) whose calls are run by the handlers of GrpcServer. *)
(* A client process logs in, then runs two threads: one reads the stream   *)
(* of incoming messages until the server ends it, the other sends what its *)
(* user types until that is "exit".  A user may run several clients, one   *)
(* after another or at once, and a client process may be killed.           *)
(*                                                                         *)
(* gRPC gives every call a handler thread of its own, so a client's call   *)
(* and its stream each have one here; calls of one client never overlap.   *)
(***************************************************************************)
EXTENDS GrpcServer, MessageProcessing

CONSTANTS Clients,   \* client processes
          Accounts,  \* Accounts[c]: the users whose credentials c may present
          Contacts,  \* the recipients users name
          Words,     \* what users type; <<>> is the end of their input
          Exit,      \* the word "exit"
          Limit,     \* Limit[c]: bound on the words typed at c before "exit"
          Mortal     \* the clients that may be killed

Unary(c) == <<c, "unary">>
Stream(c) == <<c, "stream">>

ASSUME ClientsAssumption ==
  /\ Accounts \in [Clients -> SUBSET Users] /\ Contacts \subseteq Users
  /\ Limit \in [Clients -> Nat] /\ Mortal \subseteq Clients
  /\ Exit \in Words /\ Words \subseteq Texts
  /\ Handlers = Clients \X {"unary", "stream"}

(* An envelope is named by the client it is typed at, its recipient, and its
   place among the words typed there. *)
ASSUME MessagesAssumption ==
  /\ Msgs = UNION {{c} \X Contacts \X (1 .. Limit[c]) : c \in Clients}
  /\ To = [m \in Msgs |-> m[2]]

VARIABLES client,  \* client[c]: the states of c's threads, and the sender's locals
          wire     \* wire[c]: what c's stream has been written and c has not read

(* History: what was typed at and shown by each client. *)
VARIABLES typed, shown

app == <<client, wire, typed, shown>>
all == <<vars, app>>

Blank == [i \in 1 .. PayloadSize |-> NUL]

--------------------------------------------------------------------------------
\* An envelope as its sender builds it: create_text_envelope and embed_text.
create_text_envelope(sender_id, recepient_id) ==
  [message_type |-> "UserMessage", type |-> "TextMessage", timestamp |-> 0,
   sender_id |-> sender_id, recepient_id |-> recepient_id, payload |-> Blank]

\* The size of a pointer to the buffer, taken for that of the buffer.
embed_textMutant(env, text_buffer) == [env EXCEPT !.payload = Copied(text_buffer, 1)]
embed_text(env, text_buffer) == [env EXCEPT !.payload = text_buffer]

\* memset, then scanf("%s"), which reads nothing when the input has ended.
write_message(word) == Copied(word, Len(word))

\* What the server makes of words[n] typed at c for u, and what it forwards.
Received(c, u, word) ==
  getEnvFromProtoBuf(putEnvToProtoBuf(
    embed_text(create_text_envelope(client[c].user, u), write_message(word))))

Read(m) == getEnvFromProtoBuf(putEnvToProtoBuf(Received(m[1], m[2], typed[m[1]][m[3]])))

MInit ==
  /\ Init
  /\ client = [c \in Clients |->
       [main |-> "start", user |-> NoUser, listen |-> "off",
        send |-> "off", to |-> NoUser, buffer |-> Blank]]
  /\ wire = [c \in Clients |-> <<>>]
  /\ typed = [c \in Clients |-> <<>>]
  /\ shown = [c \in Clients |-> <<>>]

Running(c) == client[c].main = "running"

\* A call that finds no server fails, and Unavailable returns it.
Calling(A) == IF up THEN A ELSE UNCHANGED vars

(* connectToServer.  The user is known by the id the server will answer with. *)
Connect(c) ==
  /\ client[c].main = "start"
  /\ \E u \in Accounts[c] :
       /\ Calling(AcceptConnection(Unary(c), u))
       /\ client' = [client EXCEPT ![c].main = "connecting", ![c].user = u]
  /\ UNCHANGED <<wire, typed, shown>>

\* The database does not know the user, or cannot be reached.
Refuse(c) ==
  /\ client[c].main = "start"
  /\ client' = [client EXCEPT ![c].main = "refused"]
  /\ UNCHANGED <<vars, wire, typed, shown>>

(* The sending thread: its user names a recipient, then types. *)
AskRecipient(c) ==
  /\ Running(c) /\ client[c].send = "off"
  /\ \E u \in Contacts : client' = [client EXCEPT ![c].to = u, ![c].send = "typing"]
  /\ UNCHANGED <<vars, wire, typed, shown>>

SendEnvelope(c, word) ==
  LET env == Received(c, client[c].to, word)
      n == Len(typed[c]) + 1
  IN  /\ Running(c) /\ client[c].send = "typing"
      /\ n <= Limit[c] \/ word = Exit
      /\ Calling(IF CString(env.payload) = Exit
                 THEN ReceiveExit(Unary(c), env.sender_id)
                 ELSE ReceiveMessage(Unary(c), <<c, env.recepient_id, n>>))
      /\ typed' = [typed EXCEPT ![c] = Append(@, word)]
      /\ client' = [client EXCEPT ![c].send = "sending", ![c].buffer = write_message(word)]
      /\ UNCHANGED <<wire, shown>>

\* A call returns.  What sendEnvelope returns is not looked at.
Returned(c, connected) ==
  client' = [client EXCEPT ![c] =
    CASE @.main = "connecting" -> [@ EXCEPT !.main = IF connected THEN "running" ELSE "refused"]
      [] @.send = "sending" /\ CString(@.buffer) = Exit -> [@ EXCEPT !.send = "done"]
      [] @.send = "sending" /\ CString(@.buffer) # Exit -> [@ EXCEPT !.send = "typing"]
      [] OTHER -> @]  \* nobody is left to take the answer

Answer(c) ==
  LET h == Unary(c)
  IN  /\ HandlerStep(h)
      /\ IF rpc'[h] = Idle THEN Returned(c, TRUE) ELSE client' = client
      /\ UNCHANGED <<wire, typed, shown>>

Unavailable(c) ==
  /\ ~up
  /\ \/ client[c].main = "connecting"
     \/ Running(c) /\ client[c].send = "sending"
  /\ Returned(c, FALSE)
  /\ UNCHANGED <<vars, wire, typed, shown>>

(* The listening thread: listenOthers. *)
ListenOthers(c) ==
  /\ Running(c) /\ client[c].listen = "off"
  /\ Calling(StreamIncomingMessages(Stream(c), client[c].user))
  /\ client' = [client EXCEPT ![c].listen = "reading"]
  /\ UNCHANGED <<wire, typed, shown>>

\* The server's end of the stream, which outlives the client.
ForwardMutant(c) ==
  /\ WriteEnvelope(Stream(c))
  /\ wire' = [wire EXCEPT ![c] = IF @ = <<>> /\ Running(c)
                                 THEN <<rpc[Stream(c)].env>> ELSE @]
  /\ UNCHANGED <<client, typed, shown>>
Forward(c) ==
  /\ WriteEnvelope(Stream(c))
  /\ wire' = [wire EXCEPT ![c] = IF Running(c) THEN Append(@, rpc[Stream(c)].env) ELSE @]
  /\ UNCHANGED <<client, typed, shown>>

Watch(c) ==
  LET h == Stream(c)
  IN  /\ Poll(h) \/ IndexToPop(h) \/ PopEnvelope(h)
      /\ UNCHANGED app

ReadMessage(c) ==
  /\ Running(c) /\ wire[c] # <<>>
  /\ LET m == Head(wire[c])
     IN  shown' = [shown EXCEPT ![c] = Append(@, [msg |-> m, text |-> CString(Read(m).payload)])]
  /\ wire' = [wire EXCEPT ![c] = Tail(@)]
  /\ UNCHANGED <<vars, client, typed>>

StreamEnded(c) == ~up \/ rpc[Stream(c)] = Idle

\* Read returns false: the stream has ended and everything in it was read.
StopListening(c) ==
  /\ Running(c) /\ client[c].listen = "reading"
  /\ wire[c] = <<>> /\ StreamEnded(c)
  /\ client' = [client EXCEPT ![c].listen = "done"]
  /\ UNCHANGED <<vars, wire, typed, shown>>

\* main joins both threads.
Join(c) ==
  /\ Running(c) /\ client[c].listen = "done" /\ client[c].send = "done"
  /\ client' = [client EXCEPT ![c].main = "ended"]
  /\ UNCHANGED <<vars, wire, typed, shown>>

(* The process is killed; what it had not read is gone. *)
Kill(c) ==
  /\ c \in Mortal /\ client[c].main \in {"connecting", "running"}
  /\ client' = [client EXCEPT ![c] =
       [@ EXCEPT !.main = "killed", !.listen = "off", !.send = "off"]]
  /\ wire' = [wire EXCEPT ![c] = <<>>]
  /\ UNCHANGED <<vars, typed, shown>>

Crash == (\E h \in Handlers : Abort(h)) /\ UNCHANGED app

--------------------------------------------------------------------------------
\* The call in progress, the stream, and c's own threads.
Returning(c) == Answer(c) \/ Unavailable(c)

Streams(c) == Forward(c) \/ Watch(c)

Threads(c) == ListenOthers(c) \/ ReadMessage(c) \/ StopListening(c) \/ Join(c)

User(c) ==
  \/ Connect(c) \/ Refuse(c) \/ AskRecipient(c) \/ Kill(c)
  \/ \E word \in Words : SendEnvelope(c, word)

MNext ==
  \/ \E c \in Clients : User(c) \/ Returning(c) \/ Streams(c) \/ Threads(c)
  \/ Crash

MSpec == MInit /\ [][MNext]_all

\* Every thread of the server and of the clients runs; a user need not do anything.
FairMSpec ==
  MSpec /\ \A c \in Clients : WF_all(Returning(c)) /\ WF_all(Streams(c)) /\ WF_all(Threads(c))

--------------------------------------------------------------------------------
(* The clients' variables have their types, and so have the server's. *)
ClientTypeOK ==
  /\ TypeOK
  /\ client \in [Clients -> [main : {"start", "connecting", "refused", "running", "ended", "killed"},
                             user : Users \cup {NoUser},
                             listen : {"off", "reading", "done"},
                             send : {"off", "typing", "sending", "done"},
                             to : Users \cup {NoUser}, buffer : Payloads]]
  /\ wire \in [Clients -> Seq(Msgs)]
  /\ typed \in [Clients -> Seq(Words)]
  /\ shown \in [Clients -> Seq([msg : Msgs, text : Texts])]

(* What a client shows was typed for its user, and reads as it was typed, though
   it was converted four times on its way (client_app_main.cpp:36, 94,
   MessageProcessing.hpp:94, 139; GrpcServer.cpp:54, 102; GrpcClient.cpp:55). *)
ShowsWhatWasTyped ==
  \A c \in Clients : \A i \in DOMAIN shown[c] :
    LET m == shown[c][i].msg
    IN  To[m] = client[c].user /\ shown[c][i].text = typed[m[1]][m[3]]

(* One sender's messages are shown by a client in the order they were typed,
   whatever logouts, other logins of the same user and other senders come in
   between (client_app_main.cpp:89-97, GrpcClient.cpp:54-61). *)
ShownInOrder ==
  \A c \in Clients : \A i, j \in DOMAIN shown[c] :
    i < j /\ shown[c][i].msg[1] = shown[c][j].msg[1] =>
      shown[c][i].msg[3] < shown[c][j].msg[3]

\* Nothing has disturbed u's session: one login or more, no logout, no client killed.
Undisturbed(u) ==
  /\ up /\ session[u] = "first"
  /\ \A c \in Clients : client[c].user = u => client[c].main # "killed"

OnWire(m) == UNION {{<<c, i>> : i \in {j \in DOMAIN wire[c] : wire[c][j] = m}} : c \in Clients}

Showings(m) ==
  UNION {{<<c, i>> : i \in {j \in DOMAIN shown[c] : shown[c][j].msg = m}} : c \in Clients}

(* Over all clients no message is shown twice; and one the server has accepted for
   a user whose session nothing disturbs is in the box, on its way or shown,
   although Write's result is ignored and several clients may read one box
   (GrpcServer.cpp:67, 100-104; GrpcClient.cpp:54). *)
ShownOnceNoneLost ==
  \A m \in Msgs :
    LET n == Cardinality(Places(m)) + Cardinality(OnWire(m)) + Cardinality(Showings(m))
    IN  /\ n <= 1
        /\ Undisturbed(To[m]) /\ fate[m] \in {"queued", "written"} => n = 1

(* In the end, every message the server has accepted has been shown, unless its
   recipient's session was disturbed (client_app_main.cpp:80, GrpcServer.cpp:93,
   GrpcClient.cpp:54). *)
IsDelivered ==
  <>[](\A u \in Users : \A m \in ToSet(accepted[u]) : Showings(m) # {} \/ ~Undisturbed(u))

(* In the end, a client whose user typed "exit" has ended, unless its user is, or
   was brought back, online (client_app_main.cpp:89, 105; GrpcServer.cpp:58, 96). *)
ExitEndsClient ==
  <>[](\A c \in Clients : client[c].send = "done" => ~Running(c) \/ Online(client[c].user))

--------------------------------------------------------------------------------
(* The messages as the post office knows them. *)

Stage(m) ==
  CASE fate[m] = "new" -> "unsent"
    [] fate[m] \in {"sent", "refused"} -> fate[m]
    [] Showings(m) # {} -> "shown"
    [] Showings(m) = {} /\ Places(m) \cup OnWire(m) # {} -> "waiting"
    [] OTHER -> "lost"

Content(m) == IF fate[m] = "new" THEN Junk ELSE typed[m[1]][m[3]]

Disturbed(u) ==
  \/ ~up \/ session[u] \in {"out", "again"}
  \/ \E c \in Clients : client[c].user = u /\ client[c].main = "killed"

Office == INSTANCE PostOffice WITH
  Sender <- [m \in Msgs |-> m[1]], Number <- [m \in Msgs |-> m[3]],
  Screens <- Clients, NoText <- Junk,
  stage <- [m \in Msgs |-> Stage(m)], content <- [m \in Msgs |-> Content(m)],
  screen <- shown, disturbed <- {u \in Users : Disturbed(u)}

(* The clients and the server implement the post office: whatever its threads do, a
   message goes from one stage to the next, none is shown twice, after it was lost, to
   somebody else, in another wording or before an older one, and one is lost only when
   a logout, a killed client or an aborted server has disturbed its recipient
   (GrpcServer.cpp:43-109, GrpcClient.cpp:31-63, client_app_main.cpp:79-98). *)
ImplementsPostOffice == Office!POSpec
================================================================================
