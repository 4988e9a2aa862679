-------------------------------- MODULE TcpLogin --------------------------------
(***************************************************************************)
(* The server's TCP side, server_app/endpoint/ServerTcpEndpoint, as its    *)
(* owner server_app/server_manager/ServerManager uses it.  One thread      *)
(* accepts connections, each of which becomes a task of the ThreadManager  *)
(* pool, and relays mail to the clients that are online; the workers       *)
(* authenticate the clients and enter them in client_info_storage.  The    *)
(* thread that relays reads that vector without the mutex the workers      *)
(* hold while it grows.                                                    *)
(*                                                                         *)
(* A connection's task is the connection itself.  Of a client's request it *)
(* matters how much of it has come when the server reads it, for it reads  *)
(* once; a client may close its end at any moment.  Resets and errors of   *)
(* sockets are left out.  The workers share the one result of the database *)
(* that Authentification has in detail: lookups that overlap may be given  *)
(* each other's answers.                                                   *)
(***************************************************************************)
EXTENDS ThreadManager

CONSTANTS Main,               \* the thread that calls tryAcceptConnection and checkMail
          Users, NoUser,
          Account,            \* Account[c]: whose credentials the client of c presents
          Host,               \* Host[c]: the address c comes from
          Silent,             \* the clients that need never send nor close
          maxTcpConnections,  \* the length of the kernel's queue of connections
          Mail, NoMail,
          Recipient,          \* Recipient[m]: whom envelope m is for
          Nowhere,            \* not the address of any client
          Torn                \* may memory the vector gave up read as something else?

ASSUME LoginAssumption ==
  /\ Callers = {Main} /\ Silent \subseteq Tasks
  /\ NoUser \notin Users /\ NoMail \notin Mail
  /\ Account \in [Tasks -> Users \cup {NoUser}] /\ Recipient \in [Mail -> Users]
  /\ Nowhere \notin {Host[c] : c \in Tasks}
  /\ maxTcpConnections \in Nat \ {0} /\ Torn \in BOOLEAN

VARIABLES backlog,              \* the connections that wait to be accepted
          socket,               \* socket[c]: the server's end of c
          request,              \* request[c]: what the server finds if it reads from c
          answer, told,         \* answer[c]: what c's client is told, and told[c]: as whom
          login,                \* login[w]: where worker w is in authentifyClient
          mixed,                \* history: the connections whose lookups overlapped others
          client_info_storage,
          lookup,               \* findOnlineClient in progress
          mail,                 \* mail[m]: what has become of envelope m
          relayed               \* relayed[m]: the address it was sent on to

endpoint == <<backlog, socket, request, answer, told, login, mixed, client_info_storage>>
relay == <<lookup, mail, relayed>>
everything == <<vars, endpoint, relay>>

Serving == [step |-> "none", user |-> NoUser, met |-> {}]
NoLookup == [msg |-> NoMail, seen |-> <<>>, moved |-> FALSE]

LInit ==
  /\ Init
  /\ backlog = <<>>
  /\ socket = [c \in Tasks |-> "none"]
  /\ request = [c \in Tasks |-> "nothing"]
  /\ answer = [c \in Tasks |-> "none"] /\ told = [c \in Tasks |-> NoUser]
  /\ mixed = {}
  /\ login = [w \in Workers |-> Serving]
  /\ client_info_storage = <<>>
  /\ lookup = NoLookup
  /\ mail = [m \in Mail |-> "waiting"]
  /\ relayed = [m \in Mail |-> Nowhere]

--------------------------------------------------------------------------------
(* A client: connectTo, sendEnvelope of its request, and the end of the connection. *)

\* With the kernel's queue full, the connection is tried again and again.
ConnectTo(c) ==
  /\ socket[c] = "none" /\ Len(backlog) < maxTcpConnections
  /\ backlog' = Append(backlog, c)
  /\ socket' = [socket EXCEPT ![c] = "backlog"]
  /\ UNCHANGED <<vars, request, answer, told, login, mixed, client_info_storage, relay>>

\* The client sends its request or closes without it.  What comes first may be a part that
\* breaks off before the end of the credentials, or enough to hold them: the rest of an
\* envelope is zeros.  What it does later makes no difference: the server has read, or reads all the same.
SendEnvelope(c) ==
  /\ socket[c] # "none" /\ request[c] = "nothing"
  /\ \E r \in (IF c \in Silent THEN {"closed"} ELSE {"part", "enough", "closed"}) :
       request' = [request EXCEPT ![c] = r]
  /\ UNCHANGED <<vars, backlog, socket, answer, told, login, mixed, client_info_storage, relay>>

--------------------------------------------------------------------------------
(* The main thread: tryAcceptConnection, and schedule_task as the pool has it. *)

AtLeisure == caller[Main] = "idle" /\ lookup = NoLookup

TryAcceptConnection ==
  /\ AtLeisure /\ backlog # <<>>
  /\ ScheduleTask(Main, Head(backlog))
  /\ backlog' = Tail(backlog)
  /\ socket' = [socket EXCEPT ![Head(backlog)] = "open"]
  /\ UNCHANGED <<request, answer, told, login, mixed, client_info_storage, relay>>

Schedule == CallerStep(Main) /\ UNCHANGED <<endpoint, relay>>

(* checkMail: an envelope is taken from the UDP endpoint, which acknowledges it, and
   findOnlineClient walks the entries from the begin and to the end it saw at first. *)

CheckMail(m) ==
  /\ AtLeisure /\ destructor = "uncalled"
  /\ mail[m] = "waiting"
  /\ mail' = [mail EXCEPT ![m] = "read"]
  /\ lookup' = [msg |-> m, seen |-> client_info_storage, moved |-> FALSE]
  /\ UNCHANGED <<vars, endpoint, relayed>>

Matches(m) == {i \in DOMAIN lookup.seen : lookup.seen[i].user_id = Recipient[m]}

Looked(m, found, addr) ==
  /\ mail' = [mail EXCEPT ![m] = found]
  /\ relayed' = [relayed EXCEPT ![m] = addr]
  /\ lookup' = NoLookup
  /\ UNCHANGED <<vars, endpoint>>

\* The vector moved while its old block was walked over: an entry may be gone when it is
\* read, or its address when it is copied.
WasTorn == Torn /\ lookup.moved

FindOnlineClient(m) ==
  /\ lookup.msg = m
  /\ \/ /\ Matches(m) = {} \/ WasTorn
        /\ Looked(m, "offline", Nowhere)
     \/ \E i \in Matches(m) :
          /\ WasTorn \/ \A j \in Matches(m) : i <= j
          /\ \E addr \in {lookup.seen[i].socket_info} \cup (IF WasTorn THEN {Nowhere} ELSE {}) :
               Looked(m, "relayed", addr)

(* ~ServerManager: AuthentificationService has no state to lose; the pool's destructor
   runs the logins that were scheduled. *)
StopServer == AtLeisure /\ Stop /\ UNCHANGED <<endpoint, relay>>

Destroy == DestructorStep /\ UNCHANGED <<endpoint, relay>>

--------------------------------------------------------------------------------
(* A worker: authentifyClient. *)

TakeLogin(w) ==
  /\ Take(w)
  /\ login' = [login EXCEPT ![w].step = "receive"]
  /\ UNCHANGED <<backlog, socket, request, answer, told, mixed, client_info_storage, relay>>

\* create_auth_envelope and set_payload; an Envelope set to zero.
Request(c) == [message_type |-> "ServiceMessage", payload |-> Account[c]]
Zeroed == [message_type |-> "UserMessage", payload |-> NoUser]

\* What one recv makes of a request: the bytes that have not come stay zero, be it in
\* the credentials or in the header.
ReceivedMutant(c) ==
  CASE request[c] = "enough" -> {Request(c)}
    [] request[c] = "part" -> {Request(d) : d \in Tasks}
    [] request[c] = "closed" -> {Zeroed}
Received(c) ==
  CASE request[c] = "enough" -> {Request(c)}
    [] request[c] = "part" -> {[Request(c) EXCEPT !.payload = NoUser], Zeroed}
    [] request[c] = "closed" -> {Zeroed}

\* findUserByCreds begins: w and the workers that are looking up already may each find
\* what the others have asked for, or have been given, in the result they share.
StartLookup(w, u) ==
  LET others == {v \in Workers : login[v].step = "query"}
      asked == {u} \cup UNION {login[v].met : v \in others}
  IN  /\ login' = [v \in Workers |->
                     IF v = w THEN [step |-> "query", user |-> NoUser, met |-> asked]
                     ELSE IF v \in others THEN [login[v] EXCEPT !.met = @ \cup {u}]
                     ELSE login[v]]
      /\ mixed' = IF others = {} THEN mixed
                  ELSE mixed \cup {task[v] : v \in others \cup {w}}

\* Only a service message is looked up.
handleAuthReq(w, env) ==
  IF env.message_type = "ServiceMessage"
  THEN StartLookup(w, env.payload)
  ELSE /\ login' = [login EXCEPT ![w] = [step |-> "answer", user |-> NoUser, met |-> {}]]
       /\ UNCHANGED mixed

\* recv blocks until something has come or the client has closed its end.
ReceiveEnvelope(w) ==
  LET c == task[w]
  IN  /\ login[w].step = "receive"
      /\ request[c] # "nothing"
      /\ \E env \in Received(c) : handleAuthReq(w, env)
      /\ UNCHANGED <<vars, backlog, socket, request, answer, told, client_info_storage, relay>>

\* The id for the credentials, or none, for the database may fail; or another lookup's.
FindUserByCreds(w) ==
  /\ login[w].step = "query"
  /\ \E u \in login[w].met \cup {NoUser} :
       login' = [login EXCEPT ![w] = [step |-> "answer", user |-> u, met |-> {}]]
  /\ UNCHANGED <<vars, backlog, socket, request, answer, told, mixed, client_info_storage,
                 relay>>

SendAcceptNotificatonMutant(w) ==
  LET c == task[w]
  IN  /\ login[w].step = "answer"
      /\ answer' = [answer EXCEPT ![c] = IF login[w].user # NoUser THEN "accepted" ELSE "refused"]
      /\ told' = [told EXCEPT ![c] = login[w].user]
      /\ login' = [login EXCEPT ![w].step = "register"]
      /\ UNCHANGED <<vars, backlog, socket, request, mixed, client_info_storage, relay>>
SendAcceptNotificaton(w) ==
  LET c == task[w]
      accepted == login[w].user # NoUser
  IN  /\ login[w].step = "answer"
      /\ answer' = [answer EXCEPT ![c] = IF accepted THEN "accepted" ELSE "refused"]
      /\ told' = [told EXCEPT ![c] = login[w].user]
      /\ login' = [login EXCEPT ![w].step = IF accepted THEN "register" ELSE "close"]
      /\ UNCHANGED <<vars, backlog, socket, request, mixed, client_info_storage, relay>>

\* A vector that is full moves: its capacity doubles.
IsFull(n) == n = 0 \/ \E k \in 0 .. n : n = 2 ^ k

RegisterMutant(w) ==
  LET entry == [user_id |-> login[w].user, socket_info |-> Host[task[w]]]
      alone == \A v \in Workers \ {w} : login[v].step # "register"
  IN  /\ login[w].step = "register"
      /\ client_info_storage' = IF alone THEN Append(client_info_storage, entry)
                                         ELSE client_info_storage
      /\ login' = [login EXCEPT ![w].step = "close"]
      /\ UNCHANGED <<vars, backlog, socket, request, answer, told, mixed, relay>>
\* The task has its connection's address by reference, and another has been accepted.
RegisterLatestMutant(w) ==
  LET last == IF caller[Main] = "idle" THEN task[w] ELSE arg[Main]
      entry == [user_id |-> login[w].user, socket_info |-> Host[last]]
  IN  /\ login[w].step = "register"
      /\ client_info_storage' = Append(client_info_storage, entry)
      /\ login' = [login EXCEPT ![w].step = "close"]
      /\ UNCHANGED <<vars, backlog, socket, request, answer, told, mixed, relay>>
Register(w) ==
  LET entry == [user_id |-> login[w].user, socket_info |-> Host[task[w]]]
  IN  /\ login[w].step = "register"
      /\ client_info_storage' = Append(client_info_storage, entry)
      /\ lookup' = [lookup EXCEPT !.moved =
                     @ \/ (lookup # NoLookup /\ IsFull(Len(client_info_storage)))]
      /\ login' = [login EXCEPT ![w].step = "close"]
      /\ UNCHANGED <<vars, backlog, socket, request, answer, told, mixed, mail, relayed>>

CloseMutant(w) ==
  /\ login[w].step = "close"
  /\ Run(w)
  /\ socket' = IF login[w].user = NoUser THEN socket
               ELSE [socket EXCEPT ![task[w]] = "closed"]
  /\ login' = [login EXCEPT ![w] = Serving]
  /\ UNCHANGED <<backlog, request, answer, told, mixed, client_info_storage, relay>>
Close(w) ==
  /\ login[w].step = "close"
  /\ Run(w)
  /\ socket' = [socket EXCEPT ![task[w]] = "closed"]
  /\ login' = [login EXCEPT ![w] = Serving]
  /\ UNCHANGED <<backlog, request, answer, told, mixed, client_info_storage, relay>>

AuthentifyClient(w) ==
  \/ ReceiveEnvelope(w) \/ FindUserByCreds(w) \/ SendAcceptNotificaton(w)
  \/ Register(w) \/ Close(w)

Loop(w) == TakeLogin(w) \/ ((Wait(w) \/ Exit(w)) /\ UNCHANGED <<endpoint, relay>>)

--------------------------------------------------------------------------------
Client(c) == ConnectTo(c) \/ SendEnvelope(c)

RelayStep == \E m \in Mail : CheckMail(m) \/ FindOnlineClient(m)

MainStep == TryAcceptConnection \/ Schedule \/ RelayStep

LNext ==
  \/ \E c \in Tasks : Client(c)
  \/ \E w \in Workers : Loop(w) \/ AuthentifyClient(w)
  \/ \E w \in Workers : WakeSpuriously(w) /\ UNCHANGED <<endpoint, relay>>
  \/ MainStep \/ StopServer \/ Destroy
  \/ Terminated /\ UNCHANGED <<endpoint, relay>>

LSpec == LInit /\ [][LNext]_everything

(* Every thread of the server runs, the main one around its loop: recv waits for its
   client, all else returns, the database's answers included.  A client that is not
   Silent sends its request or closes its end, once connected. *)
FairLSpec ==
  /\ LSpec
  /\ WF_everything(MainStep) /\ WF_everything(Destroy)
  /\ \A w \in Workers : WF_everything(Loop(w) \/ AuthentifyClient(w))
  /\ \A c \in Tasks \ Silent : WF_everything(SendEnvelope(c))

--------------------------------------------------------------------------------
Hosts == {Host[c] : c \in Tasks} \cup {Nowhere}
Entries == [user_id : Users, socket_info : Hosts \ {Nowhere}]

(* Every variable has its type, and so have the pool's. *)
LoginTypeOK ==
  /\ TypeOK
  /\ backlog \in Seq(Tasks) /\ Len(backlog) <= maxTcpConnections
  /\ socket \in [Tasks -> {"none", "backlog", "open", "closed"}]
  /\ request \in [Tasks -> {"nothing", "part", "enough", "closed"}]
  /\ answer \in [Tasks -> {"none", "accepted", "refused"}]
  /\ told \in [Tasks -> Users \cup {NoUser}]
  /\ login \in [Workers -> [step : {"none", "receive", "query", "answer", "register", "close"},
                            user : Users \cup {NoUser}, met : SUBSET (Users \cup {NoUser})]]
  /\ mixed \subseteq Tasks
  /\ client_info_storage \in Seq(Entries)
  /\ lookup \in [msg : Mail \cup {NoMail}, seen : Seq(Entries), moved : BOOLEAN]
  /\ mail \in [Mail -> {"waiting", "read", "offline", "relayed"}]
  /\ relayed \in [Mail -> Hosts]

\* c was accepted from the kernel's queue, and its client's credentials have come complete.
Presented(c) == request[c] = "enough" /\ socket[c] \notin {"none", "backlog"}

Granted(c, u) ==
  /\ \E d \in Tasks : Account[d] = u /\ Presented(d)
  /\ c \notin mixed => Account[c] = u /\ Presented(c)

(* A client is told it is accepted only as a user whose credentials somebody has presented
   complete, though perhaps without the zeros that follow them in an envelope; and as its
   own user, by its own credentials, unless its lookup overlapped another: a request cut
   short, a closed connection or a message of another type logs nobody in
   (AuthentificationService.cpp:27-54, TcpEndpointBase.cpp:14-20). *)
GrantedByCredentials ==
  \A c \in Tasks : answer[c] = "accepted" => Granted(c, told[c])

EntryOf(c) == [user_id |-> told[c], socket_info |-> Host[c]]

EntriesLike(e) == {i \in DOMAIN client_info_storage : client_info_storage[i] = e}

ToldSo(e) == {c \in Tasks : answer[c] = "accepted" /\ EntryOf(c) = e}

(* Nobody is online but by an acceptance of its own: for a user and an address, no more
   entries than connections from there whose clients have been told they are accepted as
   that user, while other workers accept, refuse and append (ServerTcpEndpoint.cpp:49-69). *)
OnlineByLogin ==
  \A i \in DOMAIN client_info_storage :
    LET e == client_info_storage[i]
    IN  Cardinality(EntriesLike(e)) <= Cardinality(ToldSo(e))

(* A client that has been told it is accepted is online as the user it was told, or will
   be as soon as the worker that told it goes on, whatever the other workers append
   meanwhile (ServerTcpEndpoint.cpp:55-69). *)
AcceptedIsOnline ==
  \A c \in Tasks : answer[c] = "accepted" =>
    \/ EntriesLike(EntryOf(c)) # {}
    \/ \E w \in Workers : task[w] = c /\ login[w].step = "register"

(* When the server has ended, no connection it accepted is left open, the refused and
   those still queued at the shutdown included (ServerTcpEndpoint.cpp:57-70,
   ServerManager.cpp:45-47). *)
NoneLeftOpen == destructor = "done" => \A c \in Tasks : socket[c] # "open"

(* An envelope is sent on to an address from which its recipient has logged in
   (ServerManager.cpp:56-64, 80-84; ServerTcpEndpoint.cpp:65: "protect
   client_info_storage integrity"). *)
RelayedToRecipient ==
  \A m \in Mail : mail[m] = "relayed" =>
    \E i \in DOMAIN client_info_storage :
      client_info_storage[i] = [user_id |-> Recipient[m], socket_info |-> relayed[m]]

\* A client that keeps a worker waiting for its request.
Holds(c) == socket[c] = "open" /\ request[c] = "nothing"

(* As long as fewer clients than there are workers keep silent, and unless the server is
   stopped, it comes to have every connection that was made served and closed: none stays
   in the kernel's queue, the pool's, or with a worker (ServerTcpEndpoint.cpp:49-72,
   96-102). *)
LoginsEnd ==
  <>[](destructor = "uncalled" =>
         \A c \in Tasks \ Silent : socket[c] \in {"none", "closed"})

(* Every accepted client gets its connection closed, and the server ends, unless a
   silent client holds a worker (ServerTcpEndpoint.cpp:51, ServerManager.cpp:46). *)
ShutdownUnlessHeld ==
  destructor # "uncalled" ~> destructor = "done" \/ \E c \in Silent : Holds(c)
================================================================================
