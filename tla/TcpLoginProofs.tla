----------------------------- MODULE TcpLoginProofs -----------------------------
(***************************************************************************)
(* For any clients, accounts, addresses and workers, whatever overlapping  *)
(* lookups make of each other's results: the TCP login drives the pool as  *)
(* the pool may be driven, so that what is proved of the pool holds here;  *)
(* only presented credentials are accepted; who is told so is online, once *)
(* for each time; and the server leaves no connection open.                *)
(***************************************************************************)
EXTENDS TcpLogin, ThreadManagerProofs, FiniteSetTheorems

Steps == {"none", "receive", "query", "answer", "register", "close"}
Accounts == Users \cup {NoUser}
Logins == [Workers -> [step : Steps, user : Accounts, met : SUBSET Accounts]]

EndpointTypes ==
  /\ backlog \in Seq(Tasks) /\ Len(backlog) <= maxTcpConnections
  /\ socket \in [Tasks -> {"none", "backlog", "open", "closed"}]
  /\ request \in [Tasks -> {"nothing", "part", "enough", "closed"}]
  /\ answer \in [Tasks -> {"none", "accepted", "refused"}]
  /\ told \in [Tasks -> Accounts]
  /\ login \in Logins
  /\ mixed \subseteq Tasks
  /\ client_info_storage \in Seq(Entries)
  /\ lookup \in [msg : Mail \cup {NoMail}, seen : Seq(Entries), moved : BOOLEAN]
  /\ mail \in [Mail -> {"waiting", "read", "offline", "relayed"}]
  /\ relayed \in [Mail -> Hosts]

(* A worker inside authentifyClient runs a task. *)
Serves == \A w \in Workers : login[w].step # "none" => worker[w] = "run"

(* A worker registers somebody. *)
Claims == \A w \in Workers : login[w].step = "register" => login[w].user # NoUser

LoginTypes == EndpointTypes /\ Serves /\ Claims

LEMMA StepOfLogin ==
  ASSUME login \in Logins, NEW w \in Workers, NEW s \in Steps,
         login' = [login EXCEPT ![w].step = s]
  PROVE  /\ login' \in Logins /\ login'[w].step = s /\ login'[w].user = login[w].user
         /\ login'[w].met = login[w].met
         /\ \A v \in Workers \ {w} : login'[v] = login[v]
BY DEF Logins

LEMMA NewLogin ==
  ASSUME login \in Logins, NEW w \in Workers, NEW s \in Steps, NEW u \in Accounts,
         login' = [login EXCEPT ![w] = [step |-> s, user |-> u, met |-> {}]]
  PROVE  /\ login' \in Logins /\ login'[w].step = s /\ login'[w].user = u
         /\ login'[w].met = {}
         /\ \A v \in Workers \ {w} : login'[v] = login[v]
BY DEF Logins

(* A lookup that begins disturbs those in progress, and nothing of the others. *)
LEMMA LookupStarts ==
  ASSUME login \in Logins, mixed \subseteq Tasks, NEW w \in Workers, NEW u \in Accounts,
         StartLookup(w, u), login[w].step # "query",
         \A v \in Workers : login[v].step = "query" => task[v] \in Tasks, task[w] \in Tasks
  PROVE  /\ login' \in Logins /\ mixed' \subseteq Tasks /\ mixed \subseteq mixed'
         /\ login'[w].step = "query" /\ login'[w].user = NoUser
         /\ \A v \in Workers \ {w} : /\ login'[v].step = login[v].step
                                     /\ login'[v].user = login[v].user
                                     /\ login[v].step # "query" => login'[v] = login[v]
         /\ \A v \in Workers \ {w} : login[v].step = "query" =>
              login'[v].met = login[v].met \cup {u} /\ {task[v], task[w]} \subseteq mixed'
         /\ \A x \in login'[w].met :
              x = u \/ \E v \in Workers \ {w} : login[v].step = "query" /\ x \in login[v].met
         /\ \A x \in login'[w].met : x # u => task[w] \in mixed'
<1>. DEFINE others == {v \in Workers : login[v].step = "query"}
            asked == {u} \cup UNION {login[v].met : v \in others}
            l == [step |-> "query", user |-> NoUser, met |-> asked]
            e(v) == [login[v] EXCEPT !.met = login[v].met \cup {u}]
<1>1. /\ login' = [v \in Workers |->
                     IF v = w THEN l ELSE IF v \in others THEN e(v) ELSE login[v]]
      /\ mixed' = IF others = {} THEN mixed
                  ELSE mixed \cup {task[v] : v \in others \cup {w}}
  BY DEF StartLookup
<1>2. asked \in SUBSET Accounts
  BY DEF Logins
<1>3. l \in [step : Steps, user : Accounts, met : SUBSET Accounts]
      /\ l.step = "query" /\ l.user = NoUser /\ l.met = asked
  <2>. HIDE DEF asked
  <2>. QED  BY <1>2 DEF Steps, Accounts
<1>4. ASSUME NEW v \in others
      PROVE  /\ e(v) \in [step : Steps, user : Accounts, met : SUBSET Accounts]
             /\ e(v).step = login[v].step /\ e(v).user = login[v].user
             /\ e(v).met = login[v].met \cup {u}
  BY <1>4 DEF Logins
<1>5. w \notin others /\ \A v \in Workers : v \in others <=> login[v].step = "query"
  OBVIOUS
<1>6. \A v \in Workers : login[v] \in [step : Steps, user : Accounts, met : SUBSET Accounts]
  BY DEF Logins
<1>7. mixed' \subseteq Tasks /\ mixed \subseteq mixed'
      /\ \A v \in others : {task[v], task[w]} \subseteq mixed'
  <2>1. \A v \in others : task[v] \in Tasks
    OBVIOUS
  <2>. HIDE DEF others
  <2>. QED  BY <1>1, <2>1
<1>8. \A x \in asked : x = u \/ \E v \in others : x \in login[v].met
  OBVIOUS
<1>. HIDE DEF others, asked, l, e
<1>9. /\ login' \in Logins /\ login'[w] = l
      /\ \A v \in Workers \ {w} : login'[v] = IF v \in others THEN e(v) ELSE login[v]
  BY <1>1, <1>3, <1>4, <1>6 DEF Logins
<1>10. \A v \in Workers \ {w} : /\ login'[v].step = login[v].step
                                /\ login'[v].user = login[v].user
                                /\ login[v].step # "query" => login'[v] = login[v]
  BY <1>4, <1>5, <1>9
<1>11. \A v \in Workers \ {w} : login[v].step = "query" =>
         login'[v].met = login[v].met \cup {u} /\ {task[v], task[w]} \subseteq mixed'
  BY <1>4, <1>5, <1>7, <1>9
<1>12. \A x \in login'[w].met :
         x = u \/ \E v \in Workers \ {w} : login[v].step = "query" /\ x \in login[v].met
  <2>1. ASSUME NEW x \in login'[w].met, x # u
        PROVE  \E v \in Workers \ {w} : login[v].step = "query" /\ x \in login[v].met
    <3>1. PICK v \in others : x \in login[v].met
      BY <1>3, <1>8, <1>9, <2>1
    <3>2. v \in Workers \ {w} /\ login[v].step = "query"
      BY <1>5 DEF others
    <3>3. QED  BY <3>1, <3>2
  <2>2. QED  BY <2>1
<1>13. \A x \in login'[w].met : x # u => task[w] \in mixed'
  BY <1>3, <1>7, <1>8, <1>9
<1>14. QED  BY <1>3, <1>7, <1>9, <1>10, <1>11, <1>12, <1>13

LEMMA MainCalls == Main \in Callers
BY LoginAssumption

LEMMA InitLogin == ASSUME LInit PROVE LoginTypes
<1>. USE DEF LInit, Init, NoLookup, Serving
<1>1. EndpointTypes
  BY LoginAssumption DEF EndpointTypes, Hosts, Logins, Steps, Accounts
<1>2. Serves /\ Claims
  BY DEF Serves, Claims
<1>3. QED  BY <1>1, <1>2 DEF LoginTypes

(* A step of the login is a step of the pool, or leaves the pool alone. *)
LEMMA PoolStep ==
  ASSUME EndpointTypes, [LNext]_everything
  PROVE  [Next]_vars
<1>. USE DEF Next, CallerStep, WorkerStep
<1>1. CASE TryAcceptConnection
  <2>1. Head(backlog) \in Tasks
    BY <1>1 DEF TryAcceptConnection, EndpointTypes
  <2>2. QED  BY <1>1, <2>1, MainCalls DEF TryAcceptConnection
<1>2. CASE Schedule
  BY <1>2, MainCalls DEF Schedule
<1>3. ASSUME NEW w \in Workers, Loop(w) PROVE Next
  BY <1>3 DEF Loop, TakeLogin
<1>4. ASSUME NEW w \in Workers, Close(w) PROVE Next
  BY <1>4 DEF Close
<1>5. ASSUME NEW w \in Workers, \/ ReceiveEnvelope(w) \/ FindUserByCreds(w)
                                \/ SendAcceptNotificaton(w) \/ Register(w)
      PROVE  UNCHANGED vars
  BY <1>5 DEF ReceiveEnvelope, FindUserByCreds, SendAcceptNotificaton, Register
<1>6. CASE RelayStep \/ \E c \in Tasks : Client(c)
  <2>1. UNCHANGED vars
    BY <1>6 DEF RelayStep, CheckMail, FindOnlineClient, Looked, Client, ConnectTo, SendEnvelope
  <2>2. QED  BY <2>1
<1>7. CASE StopServer \/ Destroy
  BY <1>7 DEF StopServer, Destroy
<1>8. CASE UNCHANGED everything
  BY <1>8 DEF everything
<1>9. QED
  BY <1>1, <1>2, <1>3, <1>4, <1>5, <1>6, <1>7, <1>8 DEF LNext, MainStep, AuthentifyClient
--------------------------------------------------------------------------------
\* What is received names the client's own user or nobody, and somebody only if all of the
\* credentials came; it is looked up, or it is refused.
LEMMA AfterReceive ==
  ASSUME Types, LoginTypes, NEW w \in Workers, ReceiveEnvelope(w)
  PROVE  \E u \in {Account[task[w]], NoUser} :
           /\ u \in Accounts
           /\ u # NoUser => request[task[w]] = "enough"
           /\ \/ StartLookup(w, u)
              \/ /\ login' = [login EXCEPT ![w] = [step |-> "answer", user |-> NoUser, met |-> {}]]
                 /\ mixed' = mixed
<1>. USE DEF LoginTypes, EndpointTypes
<1>1. /\ task[w] \in Tasks /\ request[task[w]] \in {"part", "enough", "closed"}
      /\ Account[task[w]] \in Accounts /\ NoUser \in Accounts
  BY LoginAssumption DEF ReceiveEnvelope, Serves, Types, TaskOK, Accounts
<1>2. PICK env \in Received(task[w]) : handleAuthReq(w, env)
  BY DEF ReceiveEnvelope
<1>3. env.payload \in {Account[task[w]], NoUser}
      /\ (env.payload # NoUser => request[task[w]] = "enough")
  <2>1. CASE request[task[w]] = "enough"
    BY <1>2, <2>1 DEF Received, Request
  <2>2. CASE request[task[w]] = "part"
    BY <1>2, <2>2 DEF Received, Request, Zeroed
  <2>3. CASE request[task[w]] = "closed"
    BY <1>2, <2>3 DEF Received, Zeroed
  <2>4. QED  BY <1>1, <2>1, <2>2, <2>3
<1>5. CASE env.message_type = "ServiceMessage"
  BY <1>1, <1>2, <1>3, <1>5 DEF handleAuthReq
<1>6. CASE env.message_type # "ServiceMessage"
  BY <1>1, <1>2, <1>6 DEF handleAuthReq
<1>7. QED  BY <1>5, <1>6

LEMMA ReceiveStep ==
  ASSUME Types, LoginTypes, NEW w \in Workers, ReceiveEnvelope(w)
  PROVE  /\ login' \in Logins /\ mixed' \subseteq Tasks /\ mixed \subseteq mixed'
         /\ login'[w].step \in {"query", "answer"} /\ login'[w].user = NoUser
         /\ \A v \in Workers \ {w} : /\ login'[v].step = login[v].step
                                     /\ login'[v].user = login[v].user
<1>. USE DEF LoginTypes, EndpointTypes
<1>1. PICK u \in Accounts :
        \/ StartLookup(w, u)
        \/ /\ login' = [login EXCEPT ![w] = [step |-> "answer", user |-> NoUser, met |-> {}]]
           /\ mixed' = mixed
  BY AfterReceive
<1>2. /\ login[w].step = "receive" /\ task[w] \in Tasks
      /\ \A v \in Workers : login[v].step = "query" => task[v] \in Tasks
  BY DEF ReceiveEnvelope, Serves, Types, TaskOK
<1>3. CASE StartLookup(w, u)
  BY <1>2, <1>3, LookupStarts
<1>4. CASE /\ login' = [login EXCEPT ![w] = [step |-> "answer", user |-> NoUser, met |-> {}]]
           /\ mixed' = mixed
  <2>1. NoUser \in Accounts /\ "answer" \in Steps
    BY DEF Accounts, Steps
  <2>2. /\ login' \in Logins /\ login'[w].step = "answer" /\ login'[w].user = NoUser
        /\ \A v \in Workers \ {w} : login'[v] = login[v]
    BY <1>4, NewLogin DEF Steps, Accounts
  <2>3. QED  BY <1>4, <2>2
<1>5. QED  BY <1>1, <1>3, <1>4

LEMMA FindStep ==
  ASSUME LoginTypes, NEW w \in Workers, FindUserByCreds(w)
  PROVE  \E u \in Accounts :
           /\ u = NoUser \/ u \in login[w].met
           /\ login' \in Logins /\ login'[w].step = "answer" /\ login'[w].user = u
           /\ \A v \in Workers \ {w} : login'[v] = login[v]
<1>1. PICK u \in login[w].met \cup {NoUser} :
        login' = [login EXCEPT ![w] = [step |-> "answer", user |-> u, met |-> {}]]
  BY DEF FindUserByCreds
<1>2. u \in Accounts /\ "answer" \in Steps
  BY DEF LoginTypes, EndpointTypes, Logins, Accounts, Steps
<1>3. /\ login' \in Logins /\ login'[w].step = "answer" /\ login'[w].user = u
      /\ \A v \in Workers \ {w} : login'[v] = login[v]
  <2>1. login \in Logins /\ login' = [login EXCEPT ![w] = [step |-> "answer", user |-> u, met |-> {}]]
    BY <1>1 DEF LoginTypes, EndpointTypes
  <2>2. QED  BY <1>2, <2>1, NewLogin DEF Steps
<1>4. QED  BY <1>1, <1>2, <1>3

\* What a worker that authenticates does to the endpoint.
LEMMA WorkerTypes ==
  ASSUME Types, LoginTypes, NEW w \in Workers, AuthentifyClient(w)
  PROVE  LoginTypes'
<1>. USE DEF LoginTypes, EndpointTypes, Serves, Claims
<1>1. login[w].step # "none" => task[w] \in Tasks
  BY DEF Types, TaskOK
<1>2. CASE ReceiveEnvelope(w)
  <2>1. UNCHANGED <<vars, backlog, socket, request, answer, told, client_info_storage, relay>>
    BY <1>2 DEF ReceiveEnvelope
  <2>2. EndpointTypes'
    BY <1>2, <2>1, ReceiveStep DEF relay
  <2>3. Serves'
    <3>1. login[w].step = "receive" /\ UNCHANGED worker
      BY <1>2 DEF ReceiveEnvelope, vars
    <3>2. QED  BY <1>2, <3>1, ReceiveStep
  <2>4. Claims'
    BY <1>2, ReceiveStep
  <2>5. QED  BY <2>2, <2>3, <2>4
<1>3. CASE FindUserByCreds(w)
  <2>1. login[w].step = "query"
        /\ UNCHANGED <<vars, backlog, socket, request, answer, told, mixed, client_info_storage,
                       relay>>
    BY <1>3 DEF FindUserByCreds
  <2>2. /\ login' \in Logins /\ login'[w].step = "answer"
        /\ \A v \in Workers \ {w} : login'[v] = login[v]
    BY <1>3, FindStep
  <2>3. EndpointTypes'
    BY <2>1, <2>2 DEF relay
  <2>4. UNCHANGED worker
    BY <2>1 DEF vars
  <2>5. Serves'
    BY <2>1, <2>2, <2>4
  <2>6. Claims'
    <3>1. ASSUME NEW v \in Workers, login'[v].step = "register" PROVE login'[v].user # NoUser
      <4>1. v # w
        BY <2>2, <3>1
      <4>2. QED  BY <2>2, <3>1, <4>1
    <3>2. QED  BY <3>1
  <2>7. QED  BY <2>3, <2>5, <2>6
<1>7. CASE SendAcceptNotificaton(w)
  <2>1. task[w] \in Tasks
        /\ UNCHANGED <<vars, backlog, socket, request, mixed, client_info_storage, relay>>
    BY <1>1, <1>7 DEF SendAcceptNotificaton
  <2>2. PICK a \in {"accepted", "refused"} : answer' = [answer EXCEPT ![task[w]] = a]
    BY <1>7 DEF SendAcceptNotificaton
  <2>3. PICK s \in {"register", "close"} :
          /\ login' = [login EXCEPT ![w].step = s]
          /\ s = "register" => login[w].user # NoUser
    BY <1>7 DEF SendAcceptNotificaton
  <2>4. /\ login' \in Logins /\ login'[w].step = s /\ login'[w].user = login[w].user
        /\ \A v \in Workers \ {w} : login'[v] = login[v]
    BY <2>3, StepOfLogin DEF Steps
  <2>5. told' \in [Tasks -> Accounts]
    <3>1. login[w].user \in Accounts
      BY DEF Logins
    <3>2. QED  BY <1>7, <3>1 DEF SendAcceptNotificaton
  <2>6. EndpointTypes'
    BY <2>1, <2>2, <2>4, <2>5 DEF relay
  <2>7. Serves' /\ Claims'
    BY <1>7, <2>1, <2>3, <2>4 DEF SendAcceptNotificaton, vars
  <2>8. QED  BY <2>6, <2>7
<1>4. CASE Register(w)
  <2>1. task[w] \in Tasks /\ login[w].user \in Users
    BY <1>1, <1>4 DEF Register, Logins, Accounts
  <2>2. [user_id |-> login[w].user, socket_info |-> Host[task[w]]] \in Entries
    BY <2>1, LoginAssumption DEF Entries, Hosts
  <2>3. client_info_storage' \in Seq(Entries)
    BY <1>4, <2>2 DEF Register
  <2>4. lookup' \in [msg : Mail \cup {NoMail}, seen : Seq(Entries), moved : BOOLEAN]
    BY <1>4 DEF Register
  <2>5. UNCHANGED <<vars, backlog, socket, request, answer, told, mixed, mail, relayed>>
    BY <1>4 DEF Register
  <2>6. /\ login' \in Logins /\ login'[w].step = "close" /\ login'[w].user = login[w].user
        /\ \A v \in Workers \ {w} : login'[v] = login[v]
    BY <1>4, StepOfLogin DEF Register, Steps
  <2>7. EndpointTypes'
    BY <2>3, <2>4, <2>5, <2>6
  <2>8. Serves' /\ Claims'
    BY <1>4, <2>5, <2>6 DEF Register, vars
  <2>9. QED  BY <2>7, <2>8
<1>5. CASE Close(w)
  <2>1. task[w] \in Tasks
        /\ UNCHANGED <<backlog, request, answer, told, mixed, client_info_storage, relay>>
    BY <1>1, <1>5 DEF Close
  <2>2. /\ socket' = [socket EXCEPT ![task[w]] = "closed"]
        /\ login' = [login EXCEPT ![w] = [step |-> "none", user |-> NoUser, met |-> {}]]
    BY <1>5 DEF Close, Serving
  <2>3. /\ login' \in Logins /\ login'[w].step = "none"
        /\ \A v \in Workers \ {w} : login'[v] = login[v]
    BY <2>2, NewLogin DEF Steps, Accounts
  <2>4. EndpointTypes'
    BY <2>1, <2>2, <2>3 DEF relay
  <2>5. \A v \in Workers \ {w} : worker'[v] = worker[v] /\ task'[v] = task[v]
    BY <1>5 DEF Close, Run, Types, TypeOK
  <2>6. Serves' /\ Claims'
    BY <2>3, <2>5
  <2>7. QED  BY <2>4, <2>6
<1>8. QED
  BY <1>2, <1>3, <1>4, <1>5, <1>7 DEF AuthentifyClient

LEMMA StepLogin ==
  ASSUME Types, LoginTypes, [LNext]_everything
  PROVE  LoginTypes'
<1>. USE DEF LoginTypes, EndpointTypes
<1>1. ASSUME NEW c \in Tasks, Client(c) PROVE LoginTypes'
  <2>1. UNCHANGED <<vars, answer, told, login, mixed, client_info_storage, relay>>
    BY <1>1 DEF Client, ConnectTo, SendEnvelope
  <2>2. CASE ConnectTo(c)
    BY <2>1, <2>2, LoginAssumption DEF ConnectTo, vars, relay, Serves, Claims
  <2>3. CASE SendEnvelope(c)
    <3>1. PICK r \in {"part", "enough", "closed"} : request' = [request EXCEPT ![c] = r]
      BY <2>3 DEF SendEnvelope
    <3>2. UNCHANGED <<backlog, socket>>
      BY <2>3 DEF SendEnvelope
    <3>3. QED  BY <2>1, <3>1, <3>2 DEF vars, relay, Serves, Claims
  <2>4. QED  BY <1>1, <2>2, <2>3 DEF Client
<1>2. CASE TryAcceptConnection
  <2>1. backlog # <<>> /\ Head(backlog) \in Tasks
    BY <1>2 DEF TryAcceptConnection
  <2>2. /\ backlog' = Tail(backlog)
        /\ socket' = [socket EXCEPT ![Head(backlog)] = "open"]
        /\ UNCHANGED <<request, answer, told, login, mixed, client_info_storage, relay, worker,
                       task>>
    BY <1>2 DEF TryAcceptConnection, ScheduleTask
  <2>3. Tail(backlog) \in Seq(Tasks) /\ Len(Tail(backlog)) <= maxTcpConnections
    BY <2>1, LoginAssumption
  <2>4. QED  BY <2>1, <2>2, <2>3 DEF relay, Serves, Claims
<1>3. CASE RelayStep
  <2>1. ASSUME NEW m \in Mail, CheckMail(m) PROVE LoginTypes'
    BY <1>3, <2>1 DEF CheckMail, endpoint, vars, Serves, Claims
  <2>2. ASSUME NEW m \in Mail, FindOnlineClient(m) PROVE LoginTypes'
    <3>1. PICK f \in {"offline", "relayed"}, a \in Hosts : Looked(m, f, a)
      <4>1. Nowhere \in Hosts
        BY DEF Hosts
      <4>2. ASSUME NEW i \in Matches(m) PROVE lookup.seen[i].socket_info \in Hosts
        <5>1. i \in 1 .. Len(lookup.seen) /\ lookup.seen \in Seq(Entries)
          BY <4>2 DEF Matches
        <5>2. lookup.seen[i] \in Entries
          BY <5>1
        <5>3. QED  BY <5>2 DEF Entries
      <4>3. QED  BY <2>2, <4>1, <4>2 DEF FindOnlineClient
    <3>2. QED  BY <3>1 DEF Looked, NoLookup, endpoint, vars, Serves, Claims
  <2>3. QED  BY <1>3, <2>1, <2>2 DEF RelayStep
<1>4. ASSUME NEW w \in Workers, TakeLogin(w) PROVE LoginTypes'
  <2>1. /\ login' = [login EXCEPT ![w].step = "receive"]
        /\ UNCHANGED <<backlog, socket, request, answer, told, mixed, client_info_storage, relay>>
    BY <1>4 DEF TakeLogin
  <2>2. worker[w] = "look" /\ login[w].step = "none"
    BY <1>4 DEF TakeLogin, Take, Serves
  <2>3. \A v \in Workers \ {w} : worker'[v] = worker[v] /\ task'[v] = task[v]
    BY <1>4 DEF TakeLogin, Take, Types, TypeOK
  <2>4. worker'[w] = "run"
    BY <1>4 DEF TakeLogin, Take, Types, TypeOK
  <2>5. /\ login' \in Logins /\ login'[w].step = "receive"
        /\ \A v \in Workers \ {w} : login'[v] = login[v]
    BY <2>1, StepOfLogin DEF Steps
  <2>6. EndpointTypes'
    BY <2>1, <2>5 DEF relay
  <2>7. Serves'
    BY <2>3, <2>4, <2>5 DEF Serves
  <2>8. Claims'
    BY <2>3, <2>5 DEF Claims
  <2>9. QED  BY <2>6, <2>7, <2>8
<1>5. ASSUME NEW w \in Workers, AuthentifyClient(w) PROVE LoginTypes'
  BY <1>5, WorkerTypes
<1>6. ASSUME UNCHANGED <<endpoint, relay>>, UNCHANGED task,
             \A w \in Workers : worker[w] = "run" => worker'[w] = "run"
      PROVE  LoginTypes'
  BY <1>6 DEF endpoint, relay, Serves, Claims
<1>7. CASE Schedule
  <2>1. UNCHANGED task /\ \A w \in Workers : worker[w] = "run" => worker'[w] = "run"
    BY <1>7 DEF Schedule, CallerStep, Retry, WakeUp, PushTask, Notify, Notified, Types, TypeOK
  <2>2. QED  BY <1>6, <1>7, <2>1 DEF Schedule
<1>8. ASSUME NEW w \in Workers, Wait(w) \/ Exit(w) \/ WakeSpuriously(w),
             UNCHANGED <<endpoint, relay>>
      PROVE  LoginTypes'
  <2>1. UNCHANGED task /\ \A v \in Workers : worker[v] = "run" => worker'[v] = "run"
    BY <1>8 DEF Wait, Exit, WakeSpuriously, Types, TypeOK
  <2>2. QED  BY <1>6, <1>8, <2>1
<1>9. CASE StopServer \/ Destroy
  <2>1. UNCHANGED task /\ \A w \in Workers : worker[w] = "run" => worker'[w] = "run"
    BY <1>9 DEF StopServer, Destroy, Stop, DestructorStep, StopNotify, Join, Notified, Types, TypeOK
  <2>2. QED  BY <1>6, <1>9, <2>1 DEF StopServer, Destroy
<1>10. CASE UNCHANGED <<vars, endpoint, relay>>
  BY <1>6, <1>10 DEF vars
<1>11. QED
  BY <1>1, <1>2, <1>3, <1>4, <1>5, <1>7, <1>8, <1>9, <1>10
  DEF LNext, MainStep, Loop, Terminated, everything

(* The login drives the pool as it may be driven: all that is proved of the pool, its
   order, its wakeups and its end among it, holds of it here (ServerTcpEndpoint.cpp:89-92,
   ServerManager.cpp:45-47). *)
THEOREM LoginUsesThePool == LSpec => Spec
<1>. DEFINE I == Types /\ LoginTypes
<1>1. LInit => I
  BY InitTypes, InitLogin DEF LInit
<1>2. I /\ [LNext]_everything => I' /\ [Next]_vars
  BY PoolStep, StepTypes, StepLogin DEF LoginTypes
<1>3. LInit => Init
  BY DEF LInit
<1>4. QED
  BY <1>1, <1>2, <1>3, PTL DEF LSpec, Spec

LEMMA TypesAlways == LSpec => [](Types /\ LoginTypes)
<1>. DEFINE I == Types /\ LoginTypes
<1>1. LInit => I
  BY InitTypes, InitLogin DEF LInit
<1>2. I /\ [LNext]_everything => I'
  BY PoolStep, StepTypes, StepLogin DEF LoginTypes
<1>3. QED
  BY <1>1, <1>2, PTL DEF LSpec

(* Every variable of the login and of its pool has its type (ServerTcpEndpoint.cpp:20-102). *)
THEOREM LoginTypesAreCorrect == LSpec => []LoginTypeOK
<1>1. Types /\ LoginTypes => LoginTypeOK
  BY DEF Types, LoginTypes, EndpointTypes, Logins, Steps, Accounts, LoginTypeOK
<1>2. QED
  BY <1>1, TypesAlways, PTL
--------------------------------------------------------------------------------
\* client_info_storage only grows, and only in Register.
Kept == \A i \in 1 .. Len(client_info_storage) :
  /\ i \in 1 .. Len(client_info_storage')
  /\ client_info_storage'[i] = client_info_storage[i]

LEMMA EntriesStay ==
  ASSUME LoginTypes, [LNext]_everything
  PROVE  Kept
<1>. USE DEF LoginTypes, EndpointTypes, Kept
<1>1. CASE UNCHANGED client_info_storage
  BY <1>1
<1>2. ASSUME NEW w \in Workers, Register(w) PROVE Kept
  BY <1>2 DEF Register
<1>3. ASSUME NEW w \in Workers, AuthentifyClient(w) PROVE Kept
  BY <1>1, <1>2, <1>3 DEF AuthentifyClient, ReceiveEnvelope, FindUserByCreds, SendAcceptNotificaton, Close
<1>4. CASE RelayStep
  BY <1>1, <1>4 DEF RelayStep, CheckMail, FindOnlineClient, Looked, endpoint
<1>5. ASSUME NEW c \in Tasks, Client(c) PROVE Kept
  BY <1>1, <1>5 DEF Client, ConnectTo, SendEnvelope
<1>6. ASSUME NEW w \in Workers, Loop(w) PROVE Kept
  BY <1>1, <1>6 DEF Loop, TakeLogin, endpoint
<1>7. CASE UNCHANGED <<endpoint, relay>>
  BY <1>1, <1>7 DEF endpoint
<1>8. QED
  BY <1>1, <1>3, <1>4, <1>5, <1>6, <1>7
  DEF LNext, MainStep, Schedule, StopServer, Destroy, TryAcceptConnection, everything

LEMMA EntryStays ==
  ASSUME LoginTypes, LoginTypes', Kept, NEW e, EntriesLike(e) # {}
  PROVE  \E i \in DOMAIN client_info_storage' : client_info_storage'[i] = e
<1>. USE DEF LoginTypes, EndpointTypes
<1>1. PICK i \in 1 .. Len(client_info_storage) : client_info_storage[i] = e
  BY DEF EntriesLike
<1>2. i \in 1 .. Len(client_info_storage') /\ client_info_storage'[i] = e
  BY <1>1 DEF Kept
<1>3. QED  BY <1>2

(* A worker at "register" goes on there: until then it neither returns nor moves. *)
LEMMA RegisterWaits ==
  ASSUME Types, LoginTypes, [LNext]_everything, NEW w \in Workers, login[w].step = "register"
  PROVE  Register(w) \/ (task'[w] = task[w] /\ login'[w].step = "register")
<1>. USE DEF LoginTypes, EndpointTypes, Serves
<1>1. worker[w] = "run"
  OBVIOUS
<1>2. ASSUME NEW v \in Workers, AuthentifyClient(v), ~Register(w)
      PROVE  task'[w] = task[w] /\ login'[w].step = "register"
  <2>1. CASE v = w
    BY <1>2, <2>1 DEF AuthentifyClient, ReceiveEnvelope, FindUserByCreds, SendAcceptNotificaton,
                      Close
  <2>2. CASE v # w
    <3>1. task'[w] = task[w]
      BY <1>2, <2>2 DEF AuthentifyClient, ReceiveEnvelope, FindUserByCreds,
                        SendAcceptNotificaton, Register, Close, Run, vars, Types, TypeOK
    <3>2. CASE ReceiveEnvelope(v)
      BY <2>2, <3>1, <3>2, ReceiveStep
    <3>3. CASE ~ReceiveEnvelope(v)
      <4>1. \E l : login' = [login EXCEPT ![v] = l]
        BY <1>2, <3>3 DEF AuthentifyClient, FindUserByCreds, SendAcceptNotificaton, Register,
                          Close
      <4>2. QED  BY <2>2, <3>1, <4>1
    <3>4. QED  BY <3>2, <3>3
  <2>3. QED  BY <2>1, <2>2
<1>3. ASSUME NEW v \in Workers, TakeLogin(v)
      PROVE  task'[w] = task[w] /\ login'[w].step = "register"
  BY <1>1, <1>3 DEF TakeLogin, Take, Types, TypeOK
<1>4. CASE UNCHANGED <<task, login>>
  BY <1>4
<1>5. ASSUME NEW v \in Workers, Wait(v) \/ Exit(v) \/ WakeSpuriously(v), UNCHANGED endpoint
      PROVE  UNCHANGED <<task, login>>
  BY <1>5 DEF Wait, Exit, WakeSpuriously, endpoint
<1>6. CASE MainStep
  BY <1>4, <1>6 DEF MainStep, TryAcceptConnection, ScheduleTask, Schedule, CallerStep, Retry,
    WakeUp, PushTask, Notify, RelayStep, CheckMail, FindOnlineClient, Looked, endpoint, vars
<1>7. CASE StopServer \/ Destroy
  BY <1>4, <1>7 DEF StopServer, Stop, Destroy, DestructorStep, StopNotify, Join, endpoint
<1>8. ASSUME NEW c \in Tasks, Client(c) PROVE UNCHANGED <<task, login>>
  BY <1>8 DEF Client, ConnectTo, SendEnvelope, vars
<1>9. CASE UNCHANGED everything
  BY <1>4, <1>9 DEF everything, vars, endpoint
<1>10. QED
  BY <1>2, <1>3, <1>4, <1>5, <1>6, <1>7, <1>8, <1>9
  DEF LNext, Loop, Terminated, vars, endpoint
\* Whoever is accepted has been before, as the same user, or is by a worker that goes on.
LEMMA ToldByAnswer ==
  ASSUME [LNext]_everything, NEW c \in Tasks, answer'[c] = "accepted", LoginTypes
  PROVE  \/ answer[c] = "accepted" /\ told'[c] = told[c]
         \/ \E w \in Workers : task'[w] = c /\ login'[w].step = "register"
<1>. USE DEF LoginTypes, EndpointTypes
<1>. DEFINE Goal == \/ answer[c] = "accepted" /\ told'[c] = told[c]
                    \/ \E w \in Workers : task'[w] = c /\ login'[w].step = "register"
<1>1. ASSUME NEW w \in Workers, SendAcceptNotificaton(w) PROVE Goal
  <2>1. CASE c = task[w]
    <3>1. login[w].user # NoUser
      BY <1>1, <2>1 DEF SendAcceptNotificaton
    <3>2. login' = [login EXCEPT ![w].step = "register"] /\ UNCHANGED task
      BY <1>1, <3>1 DEF SendAcceptNotificaton, vars
    <3>3. QED  BY <2>1, <3>2, StepOfLogin DEF Steps
  <2>2. CASE c # task[w]
    BY <1>1, <2>2 DEF SendAcceptNotificaton
  <2>3. QED  BY <2>1, <2>2
<1>2. ASSUME UNCHANGED <<answer, told>> PROVE Goal
  BY <1>2
<1>3. ASSUME NEW w \in Workers, AuthentifyClient(w), ~SendAcceptNotificaton(w)
      PROVE  UNCHANGED <<answer, told>>
  BY <1>3 DEF AuthentifyClient, ReceiveEnvelope, FindUserByCreds, Register, Close
<1>4. ASSUME \A w \in Workers : ~AuthentifyClient(w) PROVE UNCHANGED <<answer, told>>
  BY <1>4 DEF LNext, Client, ConnectTo, SendEnvelope, Loop, TakeLogin, MainStep,
    TryAcceptConnection, Schedule, RelayStep, CheckMail, FindOnlineClient, Looked, StopServer,
    Destroy, endpoint, everything
<1>. HIDE DEF Goal
<1>5. Goal
  BY <1>1, <1>2, <1>3, <1>4
<1>6. QED  BY <1>5 DEF Goal

(* A worker registers the user it has told its client. *)
RegistersTold ==
  \A w \in Workers : login[w].step = "register" => told[task[w]] = login[w].user

LEMMA StepAccepted ==
  ASSUME Types, LoginTypes, LoginTypes', AcceptedIsOnline, RegistersTold, [LNext]_everything
  PROVE  AcceptedIsOnline'
<1>. USE DEF LoginTypes, EndpointTypes
<1>1. SUFFICES ASSUME NEW c \in Tasks, answer'[c] = "accepted"
               PROVE  \/ \E i \in DOMAIN client_info_storage' :
                            client_info_storage'[i] = EntryOf(c)'
                      \/ \E w \in Workers : task'[w] = c /\ login'[w].step = "register"
  BY DEF AcceptedIsOnline, EntriesLike, EntryOf
<1>2. SUFFICES ASSUME answer[c] = "accepted", EntryOf(c)' = EntryOf(c)
               PROVE  \/ \E i \in DOMAIN client_info_storage' :
                            client_info_storage'[i] = EntryOf(c)
                      \/ \E w \in Workers : task'[w] = c /\ login'[w].step = "register"
  <2>1. CASE answer[c] = "accepted" /\ told'[c] = told[c]
    BY <1>2, <2>1 DEF EntryOf
  <2>2. CASE \E w \in Workers : task'[w] = c /\ login'[w].step = "register"
    BY <2>2
  <2>3. \/ answer[c] = "accepted" /\ told'[c] = told[c]
        \/ \E w \in Workers : task'[w] = c /\ login'[w].step = "register"
    BY <1>1, ToldByAnswer
  <2>4. QED  BY <2>1, <2>2, <2>3
<1>3. CASE EntriesLike(EntryOf(c)) # {}
  BY <1>3, EntriesStay, EntryStays
<1>4. ASSUME NEW w \in Workers, task[w] = c, login[w].step = "register"
      PROVE  \/ \E i \in DOMAIN client_info_storage' :
                   client_info_storage'[i] = EntryOf(c)
             \/ task'[w] = c /\ login'[w].step = "register"
  <2>1. CASE Register(w)
    <3>1. login[w].user = told[c]
      BY <1>4 DEF RegistersTold
    <3>2. client_info_storage' = Append(client_info_storage, EntryOf(c))
      BY <1>4, <2>1, <3>1 DEF Register, EntryOf
    <3>3. client_info_storage'[Len(client_info_storage) + 1] = EntryOf(c)
      BY <3>2
    <3>4. Len(client_info_storage) + 1 \in DOMAIN client_info_storage'
      BY <3>2
    <3>5. QED  BY <3>3, <3>4
  <2>2. CASE ~Register(w)
    BY <1>4, <2>2, RegisterWaits
  <2>3. QED  BY <2>1, <2>2
<1>5. QED  BY <1>2, <1>3, <1>4 DEF AcceptedIsOnline

--------------------------------------------------------------------------------
Waits(c) == \E i \in 1 .. Len(task_queue) : task_queue[i] = c

(* The server has every connection that is open in hand: it is about to be scheduled,
   waits in the pool's queue, or is being served. *)
InHand ==
  \A c \in Tasks : socket[c] = "open" =>
    \/ caller[Main] \in {"lock", "sleep"} /\ arg[Main] = c
    \/ Waits(c)
    \/ \E w \in Workers : worker[w] = "run" /\ task[w] = c

LEMMA StepInHand ==
  ASSUME Types, LoginTypes, InHand, [LNext]_everything
  PROVE  InHand'
<1>. USE MainCalls DEF LoginTypes, EndpointTypes, Types, TypeOK
<1>1. CASE TryAcceptConnection
  <2>1. backlog # <<>> /\ Head(backlog) \in Tasks
    BY <1>1 DEF TryAcceptConnection
  <2>2. /\ caller[Main] = "idle" /\ caller'[Main] = "lock" /\ arg'[Main] = Head(backlog)
        /\ UNCHANGED <<task_queue, worker, task>>
        /\ socket' = [socket EXCEPT ![Head(backlog)] = "open"]
    BY <1>1 DEF TryAcceptConnection, ScheduleTask
  <2>3. \A c \in Tasks : /\ Waits(c) => Waits(c)'
                         /\ socket'[c] = "open" => socket[c] = "open" \/ c = Head(backlog)
    BY <2>1, <2>2 DEF Waits
  <2>4. QED  BY <2>2, <2>3 DEF InHand
<1>2. CASE Schedule
  <2>1. CASE Retry(Main) \/ WakeUp(Main)
    <3>1. /\ UNCHANGED <<socket, task_queue, arg, worker, task>>
          /\ caller[Main] \in {"lock", "sleep"} /\ caller'[Main] \in {"lock", "sleep"}
      BY <1>2, <2>1 DEF Schedule, Retry, WakeUp, endpoint
    <3>2. \A c \in Tasks : Waits(c) => Waits(c)'
      BY <3>1 DEF Waits
    <3>3. QED  BY <3>1, <3>2 DEF InHand
  <2>2. CASE PushTask(Main)
    <3>1. /\ task_queue' = Append(task_queue, arg[Main]) /\ arg[Main] \in Tasks
          /\ UNCHANGED <<socket, worker, task>>
      BY <1>2, <2>2 DEF Schedule, PushTask, endpoint, ArgsOK
    <3>2. /\ \A i \in 1 .. Len(task_queue) :
                i \in 1 .. Len(task_queue') /\ task_queue'[i] = task_queue[i]
          /\ Len(task_queue) + 1 \in 1 .. Len(task_queue')
          /\ task_queue'[Len(task_queue) + 1] = arg[Main]
      BY <3>1
    <3>3. \A c \in Tasks : Waits(c) \/ c = arg[Main] => Waits(c)'
      BY <3>2 DEF Waits
    <3>4. QED  BY <3>1, <3>3 DEF InHand
  <2>3. CASE Notify(Main)
    <3>1. UNCHANGED <<socket, task_queue, task>> /\ caller[Main] = "notify"
      BY <1>2, <2>3 DEF Schedule, Notify, endpoint
    <3>2. \A w \in Workers : worker[w] = "run" => worker'[w] = "run"
      BY <2>3 DEF Notify, Notified
    <3>3. ASSUME NEW c \in Tasks, socket'[c] = "open"
          PROVE  Waits(c)' \/ \E w \in Workers : worker'[w] = "run" /\ task'[w] = c
      <4>1. Waits(c) \/ \E w \in Workers : worker[w] = "run" /\ task[w] = c
        BY <3>1, <3>3 DEF InHand
      <4>2. Waits(c) => Waits(c)'
        BY <3>1 DEF Waits
      <4>3. QED  BY <3>1, <3>2, <4>1, <4>2
    <3>4. QED  BY <3>3 DEF InHand
  <2>4. QED  BY <1>2, <2>1, <2>2, <2>3 DEF Schedule, CallerStep
<1>3. ASSUME NEW w \in Workers, TakeLogin(w) PROVE InHand'
  <2>1. /\ worker[w] = "look" /\ task_queue # <<>> /\ Head(task_queue) \in Tasks
        /\ task' = [task EXCEPT ![w] = Head(task_queue)]
        /\ worker' = [worker EXCEPT ![w] = "run"]
        /\ task_queue' = Tail(task_queue)
        /\ UNCHANGED <<socket, caller, arg>>
    BY <1>3 DEF TakeLogin, Take
  <2>2. \A i \in 1 .. Len(task_queue) : i = 1 \/
          (i - 1 \in 1 .. Len(task_queue') /\ task_queue'[i - 1] = task_queue[i])
    BY <2>1
  <2>3. ASSUME NEW c \in Tasks, Waits(c)
        PROVE  Waits(c)' \/ (worker'[w] = "run" /\ task'[w] = c)
    <3>1. PICK i \in 1 .. Len(task_queue) : task_queue[i] = c
      BY <2>3 DEF Waits
    <3>2. CASE i = 1
      BY <2>1, <3>1, <3>2
    <3>3. CASE i # 1
      BY <2>2, <3>1, <3>3 DEF Waits
    <3>4. QED  BY <3>2, <3>3
  <2>4. \A v \in Workers : worker[v] = "run" => worker'[v] = "run" /\ task'[v] = task[v]
    BY <2>1
  <2>5. QED  BY <2>1, <2>3, <2>4 DEF InHand
<1>4. ASSUME NEW w \in Workers, Close(w) PROVE InHand'
  <2>1. /\ worker[w] = "run" /\ task[w] \in Tasks
        /\ socket' = [socket EXCEPT ![task[w]] = "closed"]
        /\ worker' = [worker EXCEPT ![w] = "look"] /\ task' = [task EXCEPT ![w] = NoTask]
        /\ UNCHANGED <<task_queue, caller, arg>>
    BY <1>4 DEF Close, Run, TaskOK
  <2>2. \A c \in Tasks : /\ Waits(c) => Waits(c)'
                         /\ socket'[c] = "open" => socket[c] = "open" /\ c # task[w]
    BY <2>1 DEF Waits
  <2>3. \A v \in Workers \ {w} : worker'[v] = worker[v] /\ task'[v] = task[v]
    BY <2>1
  <2>4. QED  BY <2>1, <2>2, <2>3 DEF InHand
<1>5. ASSUME UNCHANGED <<task_queue, caller, arg, task>>,
             \A c \in Tasks : socket'[c] = "open" => socket[c] = "open",
             \A w \in Workers : worker[w] = "run" => worker'[w] = "run"
      PROVE  InHand'
  <2>1. \A c \in Tasks : Waits(c) => Waits(c)'
    BY <1>5 DEF Waits
  <2>2. QED  BY <1>5, <2>1 DEF InHand
<1>6. ASSUME UNCHANGED <<task_queue, caller, arg, task, worker, socket>> PROVE InHand'
  BY <1>5, <1>6
<1>7. ASSUME NEW c \in Tasks, Client(c) PROVE InHand'
  BY <1>5, <1>7 DEF Client, ConnectTo, SendEnvelope, vars
<1>8. ASSUME NEW w \in Workers, AuthentifyClient(w) PROVE InHand'
  BY <1>4, <1>6, <1>8
  DEF AuthentifyClient, ReceiveEnvelope, FindUserByCreds, SendAcceptNotificaton, Register,
      vars
<1>9. ASSUME NEW w \in Workers, Wait(w) \/ Exit(w) \/ WakeSpuriously(w), UNCHANGED endpoint
      PROVE  InHand'
  BY <1>5, <1>9 DEF Wait, Exit, WakeSpuriously, endpoint
<1>10. CASE RelayStep
  BY <1>6, <1>10 DEF RelayStep, CheckMail, FindOnlineClient, Looked, endpoint, vars
<1>11. CASE StopServer \/ Destroy
  BY <1>5, <1>11 DEF StopServer, Stop, Destroy, DestructorStep, StopNotify, Join, Notified, endpoint
<1>12. CASE UNCHANGED <<vars, endpoint>>
  BY <1>6, <1>12 DEF vars, endpoint
<1>13. QED
  BY <1>1, <1>2, <1>3, <1>7, <1>8, <1>9, <1>10, <1>11, <1>12
  DEF LNext, MainStep, Loop, Terminated, everything

(* When the server has ended, no connection it accepted is open (ServerManager.cpp:45-47,
   ServerTcpEndpoint.cpp:57-70). *)
THEOREM ServerClosesAll == LSpec => []NoneLeftOpen
<1>1. LInit => InHand
  BY DEF LInit, InHand
<1>2. Types /\ LoginTypes /\ InHand /\ [LNext]_everything => InHand'
  BY StepInHand
<1>3. InHand /\ Safe => NoneLeftOpen
  BY WorkersAssumption, MainCalls DEF InHand, Waits, Safe, Shutdown, NoneLeftOpen
<1>4. QED
  BY <1>1, <1>2, <1>3, TypesAlways, LoginUsesThePool, SafeAlways, PTL DEF LSpec
--------------------------------------------------------------------------------
(* A connection gets one answer, from the worker that serves it. *)
Answered ==
  /\ \A c \in Tasks : answer[c] # "none" => Started(c)
  /\ \A w \in Workers :
       /\ login[w].step \in {"receive", "query", "answer"} => answer[task[w]] = "none"
       /\ login[w].step = "register" =>
            answer[task[w]] = "accepted" /\ told[task[w]] = login[w].user

Connected == {c \in Tasks : socket[c] # "none"}

(* At any time there are finitely many connections; only they have sent something, and
   one that was accepted never goes back to the kernel's queue. *)
Connections ==
  /\ IsFiniteSet(Connected)
  /\ \A c \in Tasks : /\ request[c] # "nothing" => c \in Connected
                      /\ Queued(c) \/ c = arg[Main] => socket[c] \in {"open", "closed"}

LEMMA StepConnections ==
  ASSUME Types, LoginTypes, Connections, [LNext]_everything
  PROVE  Connections'
<1>. USE MainCalls DEF LoginTypes, EndpointTypes, Types, TypeOK, Connections
<1>1. ASSUME UNCHANGED <<queued, arg, request>>, NEW d \in Tasks,
             NEW s \in {"backlog", "open", "closed"}, socket' = [socket EXCEPT ![d] = s],
             s = "backlog" => socket[d] = "none"
      PROVE  Connections'
  <2>1. Connected' = Connected \cup {d}
    BY <1>1 DEF Connected
  <2>2. IsFiniteSet(Connected')
    BY <2>1, FS_AddElement
  <2>3. \A c \in Tasks : Queued(c)' => Queued(c)
    BY <1>1 DEF Queued
  <2>4. QED  BY <1>1, <2>1, <2>2, <2>3
<1>2. ASSUME UNCHANGED socket,
             \A c \in Tasks : /\ request'[c] # "nothing" => request[c] # "nothing" \/ socket[c] # "none"
                              /\ Queued(c)' \/ c = arg'[Main] => Queued(c) \/ c = arg[Main]
      PROVE  Connections'
  BY <1>2 DEF Connected
<1>3. ASSUME UNCHANGED <<socket, queued, arg, request>> PROVE Connections'
  BY <1>2, <1>3 DEF Queued
<1>4. ASSUME NEW c \in Tasks, Client(c) PROVE Connections'
  <2>1. CASE ConnectTo(c)
    BY <1>1, <2>1 DEF ConnectTo, vars
  <2>2. CASE SendEnvelope(c)
    <3>1. UNCHANGED <<socket, queued, arg>> /\ socket[c] # "none"
      BY <2>2 DEF SendEnvelope, vars
    <3>2. \A d \in Tasks : d # c => request'[d] = request[d]
      BY <2>2 DEF SendEnvelope
    <3>3. QED  BY <1>2, <3>1, <3>2 DEF Queued
  <2>3. QED  BY <1>4, <2>1, <2>2 DEF Client
<1>5. CASE TryAcceptConnection
  <2>1. backlog # <<>> /\ Head(backlog) \in Tasks
    BY <1>5 DEF TryAcceptConnection
  <2>2. PICK d \in Tasks : d = Head(backlog)
    BY <2>1
  <2>3. /\ socket' = [socket EXCEPT ![d] = "open"] /\ arg' = [arg EXCEPT ![Main] = d]
        /\ UNCHANGED <<request, queued>>
    BY <1>5, <2>2 DEF TryAcceptConnection, ScheduleTask
  <2>4. Connected' = Connected \cup {d}
    BY <2>3 DEF Connected
  <2>5. IsFiniteSet(Connected')
    BY <2>4, FS_AddElement
  <2>6. \A c \in Tasks : Queued(c)' => Queued(c)
    BY <2>3 DEF Queued
  <2>7. QED  BY <2>3, <2>4, <2>5, <2>6
<1>6. CASE Schedule
  <2>1. UNCHANGED <<socket, request>>
    BY <1>6 DEF Schedule, endpoint
  <2>2. CASE Retry(Main) \/ WakeUp(Main)
    BY <1>3, <2>1, <2>2 DEF Retry, WakeUp
  <2>3. CASE PushTask(Main)
    <3>1. queued' = Append(queued, arg[Main]) /\ UNCHANGED arg /\ arg[Main] \in Tasks
      BY <2>3 DEF PushTask, ArgsOK
    <3>2. /\ Len(queued') = Len(queued) + 1 /\ queued'[Len(queued) + 1] = arg[Main]
          /\ \A i \in 1 .. Len(queued) : queued'[i] = queued[i]
      BY <3>1, NewLast
    <3>3. \A c \in Tasks : Queued(c)' => Queued(c) \/ c = arg[Main]
      <4>1. \A i \in 1 .. Len(queued') : i \in 1 .. Len(queued) \/ i = Len(queued) + 1
        BY <3>2
      <4>2. QED  BY <3>2, <4>1 DEF Queued
    <3>4. QED  BY <1>2, <2>1, <3>1, <3>3
  <2>4. CASE Notify(Main)
    <3>1. arg' = [arg EXCEPT ![Main] = NoTask] /\ UNCHANGED queued
      BY <2>4 DEF Notify
    <3>2. QED  BY <1>2, <2>1, <3>1, TasksAssumption DEF Queued
  <2>5. QED  BY <1>6, <2>2, <2>3, <2>4 DEF Schedule, CallerStep
<1>7. ASSUME NEW w \in Workers, AuthentifyClient(w) PROVE Connections'
  <2>1. CASE Close(w)
    <3>1. /\ task[w] \in Tasks /\ socket' = [socket EXCEPT ![task[w]] = "closed"]
          /\ UNCHANGED <<request, queued, arg>>
      BY <2>1 DEF Close, Run, TaskOK
    <3>2. QED  BY <1>1, <3>1
  <2>2. CASE \/ ReceiveEnvelope(w) \/ FindUserByCreds(w) \/ SendAcceptNotificaton(w)
             \/ Register(w)
    BY <1>3, <2>2 DEF ReceiveEnvelope, FindUserByCreds, SendAcceptNotificaton, Register, vars
  <2>3. QED  BY <1>7, <2>1, <2>2 DEF AuthentifyClient
<1>8. ASSUME NEW w \in Workers, Loop(w) PROVE Connections'
  BY <1>3, <1>8 DEF Loop, TakeLogin, Take, Wait, Exit, endpoint
<1>9. CASE RelayStep
  BY <1>3, <1>9 DEF RelayStep, CheckMail, FindOnlineClient, Looked, endpoint, vars
<1>10. CASE StopServer \/ Destroy
  BY <1>3, <1>10 DEF StopServer, Stop, Destroy, DestructorStep, StopNotify, Join, endpoint
<1>11. ASSUME NEW w \in Workers, WakeSpuriously(w), UNCHANGED endpoint PROVE Connections'
  BY <1>3, <1>11 DEF WakeSpuriously, endpoint
<1>12. CASE UNCHANGED <<vars, endpoint>>
  BY <1>3, <1>12 DEF vars, endpoint
<1>13. QED
  BY <1>4, <1>5, <1>6, <1>7, <1>8, <1>9, <1>10, <1>11, <1>12
  DEF LNext, MainStep, Terminated, everything

LEMMA StartedStays ==
  ASSUME Types, [Next]_vars, NEW c
  PROVE  Started(c) => Started(c)'
<1>1. ASSUME NEW w \in Workers, Take(w), Started(c) PROVE Started(c)'
  <2>1. started' = Append(started, Head(task_queue)) /\ Head(task_queue) \in Tasks
    BY <1>1 DEF Take, Types, TypeOK
  <2>2. /\ Len(started') = Len(started) + 1
        /\ \A i \in 1 .. Len(started) : started'[i] = started[i]
    BY <2>1, NewLast DEF Types, TypeOK
  <2>3. PICK i \in 1 .. Len(started) : started[i] = c
    BY <1>1 DEF Started
  <2>4. i \in 1 .. Len(started') /\ started'[i] = c
    BY <2>2, <2>3 DEF Types, TypeOK
  <2>5. QED  BY <2>4 DEF Started
<1>2. CASE UNCHANGED started
  BY <1>2 DEF Started
<1>3. QED
  BY <1>1, <1>2
  DEF Next, CallerStep, WorkerStep, DestructorStep, Terminated, ScheduleTask, Retry, WakeUp,
      PushTask, Notify, Wait, WakeSpuriously, Run, Exit, Stop, StopNotify, Join, vars

LEMMA StepAnswered ==
  ASSUME Types, LoginTypes, Answered, StartedInOrder, ScheduledOnce, RunOnce,
         [LNext]_everything
  PROVE  Answered'
<1>. USE DEF LoginTypes, EndpointTypes, Types, TypeOK, Answered
<1>1. \A c \in Tasks : Started(c) => Started(c)'
  BY PoolStep, StartedStays
<1>2. \A w \in Workers : login[w].step # "none" => worker[w] = "run" /\ task[w] \in Tasks
  BY DEF Serves, TaskOK
<1>3. ASSUME NEW w \in Workers,
             \A v \in Workers \ {w} : login'[v].step = login[v].step /\ login'[v].user = login[v].user,
             \A v \in Workers \ {w} : login[v].step # "none" => task'[v] = task[v],
             \A c \in Tasks : \/ answer'[c] = answer[c] /\ told'[c] = told[c]
                              \/ login[w].step # "none" /\ c = task[w],
             \A c \in Tasks : answer'[c] # "none" => Started(c),
             /\ login'[w].step \in {"receive", "query", "answer"} => answer'[task'[w]] = "none"
             /\ login'[w].step = "register" =>
                  answer'[task'[w]] = "accepted" /\ told'[task'[w]] = login'[w].user
      PROVE  Answered'
  <2>1. ASSUME NEW v \in Workers \ {w}, login[v].step # "none"
        PROVE  /\ answer'[task'[v]] = answer[task[v]] /\ told'[task'[v]] = told[task[v]]
               /\ task'[v] = task[v]
    <3>1. task'[v] = task[v] /\ task[v] \in Tasks /\ worker[v] = "run"
      BY <1>2, <1>3, <2>1
    <3>2. ~(login[w].step # "none" /\ task[v] = task[w])
      BY <1>2, <2>1, <3>1 DEF RunOnce
    <3>3. QED  BY <1>3, <3>1, <3>2
  <2>2. ASSUME NEW v \in Workers
        PROVE  /\ login'[v].step \in {"receive", "query", "answer"} => answer'[task'[v]] = "none"
               /\ login'[v].step = "register" =>
                    answer'[task'[v]] = "accepted" /\ told'[task'[v]] = login'[v].user
    <3>1. CASE v = w
      BY <1>3, <3>1
    <3>2. CASE v # w
      <4>1. login'[v].step = login[v].step /\ login'[v].user = login[v].user
        BY <1>3, <3>2
      <4>2. CASE login[v].step = "none"
        BY <4>1, <4>2
      <4>3. CASE login[v].step # "none"
        BY <2>1, <3>2, <4>1, <4>3
      <4>4. QED  BY <4>2, <4>3
    <3>3. QED  BY <3>1, <3>2
  <2>3. \A c \in Tasks : answer'[c] # "none" => Started(c)'
    BY <1>1, <1>3
  <2>4. QED  BY <2>2, <2>3
<1>4. ASSUME UNCHANGED <<answer, told, login>>,
             \A w \in Workers : login[w].step # "none" => task'[w] = task[w]
      PROVE  Answered'
  <2>1. \A c \in Tasks : answer'[c] # "none" => Started(c)'
    BY <1>1, <1>4
  <2>2. ASSUME NEW w \in Workers
        PROVE  /\ login'[w].step \in {"receive", "query", "answer"} => answer'[task'[w]] = "none"
               /\ login'[w].step = "register" =>
                    answer'[task'[w]] = "accepted" /\ told'[task'[w]] = login'[w].user
    <3>1. login' = login /\ (login[w].step # "none" => answer'[task'[w]] = answer[task[w]]
                                                     /\ told'[task'[w]] = told[task[w]])
      BY <1>4
    <3>2. QED  BY <3>1
  <2>3. QED  BY <2>1, <2>2
<1>5. ASSUME NEW w \in Workers, TakeLogin(w) PROVE Answered'
  <2>1. /\ task_queue # <<>> /\ Head(task_queue) \in Tasks
        /\ task' = [task EXCEPT ![w] = Head(task_queue)]
        /\ login' = [login EXCEPT ![w].step = "receive"]
        /\ UNCHANGED <<answer, told>>
    BY <1>5 DEF TakeLogin, Take
  <2>2. /\ login'[w].step = "receive" /\ \A v \in Workers \ {w} : login'[v] = login[v]
    BY <2>1, StepOfLogin DEF Steps
  <2>3. answer[Head(task_queue)] = "none"
    BY <2>1, HeadIsNew
  <2>4. task'[w] = Head(task_queue) /\ \A v \in Workers \ {w} : task'[v] = task[v]
    BY <2>1
  <2>5. answer'[task'[w]] = "none"
    BY <2>1, <2>3, <2>4
  <2>6. /\ \A v \in Workers \ {w} : login'[v].step = login[v].step /\ login'[v].user = login[v].user
        /\ \A c \in Tasks : answer'[c] = answer[c] /\ told'[c] = told[c]
        /\ \A c \in Tasks : answer'[c] # "none" => Started(c)
    BY <2>1, <2>2
  <2>7. QED  BY <1>3, <2>2, <2>4, <2>5, <2>6
<1>6. ASSUME NEW w \in Workers, ReceiveEnvelope(w) \/ FindUserByCreds(w) PROVE Answered'
  <2>1. login[w].step \in {"receive", "query"} /\ UNCHANGED <<task, answer, told>>
    BY <1>6 DEF ReceiveEnvelope, FindUserByCreds, vars
  <2>2. /\ login'[w].step \in {"query", "answer"}
        /\ \A v \in Workers \ {w} : login'[v].step = login[v].step /\ login'[v].user = login[v].user
    BY <1>6, ReceiveStep, FindStep
  <2>3. QED  BY <1>3, <2>1, <2>2
<1>7. ASSUME NEW w \in Workers, SendAcceptNotificaton(w) PROVE Answered'
  <2>1. /\ task[w] \in Tasks /\ login[w].step = "answer" /\ worker[w] = "run"
        /\ UNCHANGED task
    BY <1>2, <1>7 DEF SendAcceptNotificaton, vars
  <2>2. PICK a \in {"accepted", "refused"}, s \in {"register", "close"} :
          /\ answer' = [answer EXCEPT ![task[w]] = a]
          /\ login' = [login EXCEPT ![w].step = s]
          /\ s = "register" => a = "accepted"
    BY <1>7 DEF SendAcceptNotificaton
  <2>3. /\ login'[w].step = s /\ login'[w].user = login[w].user
        /\ \A v \in Workers \ {w} : login'[v] = login[v]
    BY <2>2, StepOfLogin DEF Steps
  <2>4. Started(task[w])
    BY <2>1 DEF RunOnce
  <2>5. told' = [told EXCEPT ![task[w]] = login[w].user]
    BY <1>7 DEF SendAcceptNotificaton
  <2>6. /\ \A c \in Tasks : c = task[w] \/ (answer'[c] = answer[c] /\ told'[c] = told[c])
        /\ answer'[task[w]] = a /\ told'[task[w]] = login[w].user
    BY <2>1, <2>2, <2>5
  <2>7. \A c \in Tasks : answer'[c] # "none" => Started(c)
    BY <2>4, <2>6
  <2>8. /\ login'[w].step \notin {"receive", "query", "answer"}
        /\ login'[w].step = "register" =>
             answer'[task'[w]] = "accepted" /\ told'[task'[w]] = login'[w].user
    BY <2>1, <2>2, <2>3, <2>6
  <2>9. \A v \in Workers \ {w} : /\ login'[v].step = login[v].step /\ login'[v].user = login[v].user
                                  /\ task'[v] = task[v]
    BY <2>1, <2>3
  <2>10. \A c \in Tasks : \/ answer'[c] = answer[c] /\ told'[c] = told[c]
                          \/ login[w].step # "none" /\ c = task[w]
    BY <2>1, <2>6
  <2>11. QED  BY <1>3, <2>7, <2>8, <2>9, <2>10
<1>8. ASSUME NEW w \in Workers, Register(w) \/ Close(w) PROVE Answered'
  <2>1. CASE Register(w)
    <3>1. login' = [login EXCEPT ![w].step = "close"]
      BY <2>1 DEF Register
    <3>2. login'[w].step = "close" /\ \A v \in Workers \ {w} : login'[v] = login[v]
      BY <3>1, StepOfLogin DEF Steps
    <3>3. UNCHANGED <<answer, told, task>>
      BY <2>1 DEF Register, vars
    <3>4. QED  BY <1>3, <3>2, <3>3
  <2>2. CASE Close(w)
    <3>1. login' = [login EXCEPT ![w] = [step |-> "none", user |-> NoUser, met |-> {}]]
      BY <2>2 DEF Close, Serving
    <3>2. login'[w].step = "none" /\ \A v \in Workers \ {w} : login'[v] = login[v]
      BY <3>1, NewLogin DEF Steps, Accounts
    <3>3. UNCHANGED <<answer, told>> /\ \A v \in Workers \ {w} : task'[v] = task[v]
      BY <2>2 DEF Close, Run
    <3>4. QED  BY <1>3, <3>2, <3>3
  <2>3. QED  BY <1>8, <2>1, <2>2
<1>9. ASSUME UNCHANGED <<answer, told, login, task>> PROVE Answered'
  BY <1>4, <1>9
<1>10. ASSUME NEW c \in Tasks, Client(c) PROVE Answered'
  BY <1>9, <1>10 DEF Client, ConnectTo, SendEnvelope, vars
<1>11. CASE MainStep
  BY <1>9, <1>11 DEF MainStep, TryAcceptConnection, ScheduleTask, Schedule, CallerStep, Retry,
    WakeUp, PushTask, Notify, RelayStep, CheckMail, FindOnlineClient, Looked, endpoint, vars
<1>12. ASSUME NEW w \in Workers, Wait(w) \/ Exit(w) \/ WakeSpuriously(w), UNCHANGED endpoint
       PROVE  Answered'
  BY <1>9, <1>12 DEF Wait, Exit, WakeSpuriously, endpoint
<1>13. CASE StopServer \/ Destroy
  BY <1>9, <1>13 DEF StopServer, Stop, Destroy, DestructorStep, StopNotify, Join, endpoint
<1>14. CASE UNCHANGED <<vars, endpoint>>
  BY <1>9, <1>14 DEF vars, endpoint
<1>15. QED
  BY <1>5, <1>6, <1>7, <1>8, <1>10, <1>11, <1>12, <1>13, <1>14
  DEF LNext, Loop, AuthentifyClient, Terminated, everything

--------------------------------------------------------------------------------
(* The connections that have been accepted and whose entry is made: for each entry there
   is one that makes it, which has been told what the entry says. *)
Registering(c) == \E w \in Workers : task[w] = c /\ login[w].step = "register"
Registered(e) ==
  {c \in Tasks : EntryOf(c) = e /\ answer[c] = "accepted" /\ ~Registering(c)}

EntryEach == \A e \in Entries : Cardinality(EntriesLike(e)) <= Cardinality(Registered(e))

CountInv == StartedInOrder /\ ScheduledOnce /\ RunOnce /\ Answered /\ Connections

\* What has been registered has been told, and to finitely many.
LEMMA RegisteredTold ==
  ASSUME Types, LoginTypes, CountInv, NEW e
  PROVE  /\ Registered(e) \subseteq ToldSo(e)
         /\ ToldSo(e) \subseteq Connected
         /\ IsFiniteSet(ToldSo(e)) /\ IsFiniteSet(Registered(e))
<1>. USE DEF CountInv, Types, TypeOK
<1>1. Registered(e) \subseteq ToldSo(e)
  BY DEF Registered, ToldSo
<1>2. ASSUME NEW c \in ToldSo(e) PROVE c \in Connected
  <2>1. c \in Tasks /\ Started(c)
    BY DEF ToldSo, Answered
  <2>2. PICK i \in 1 .. Len(started) : started[i] = c
    BY <2>1 DEF Started
  <2>3. i \in 1 .. Len(queued) /\ queued[i] = c
    BY <2>2 DEF StartedInOrder
  <2>4. socket[c] \in {"open", "closed"}
    BY <2>1, <2>3 DEF Queued, Connections
  <2>5. QED  BY <2>1, <2>4 DEF Connected
<1>3. IsFiniteSet(ToldSo(e))
  BY <1>2, FS_Subset DEF Connections
<1>4. IsFiniteSet(Registered(e))
  BY <1>1, <1>3, FS_Subset
<1>5. QED  BY <1>1, <1>2, <1>3, <1>4

AllFinite == \A e \in Entries : IsFiniteSet(Registered(e))

LEMMA FiniteAlways == Types /\ LoginTypes /\ CountInv => AllFinite
BY RegisteredTold DEF AllFinite

LEMMA EntriesFinite ==
  ASSUME LoginTypes, NEW e
  PROVE  IsFiniteSet(EntriesLike(e)) /\ Cardinality(EntriesLike(e)) \in Nat
<1>. USE DEF LoginTypes, EndpointTypes
<1>1. EntriesLike(e) \in SUBSET (1 .. Len(client_info_storage))
  BY DEF EntriesLike
<1>2. IsFiniteSet(1 .. Len(client_info_storage))
  BY FS_Interval
<1>3. QED  BY <1>1, <1>2, FS_Subset, FS_CardinalityType

LEMMA InitCount == ASSUME LInit PROVE CountInv /\ EntryEach
<1>. USE DEF LInit, Init
<1>1. StartedInOrder /\ ScheduledOnce /\ RunOnce
  BY DEF StartedInOrder, ScheduledOnce, RunOnce, Queued, Scheduling
<1>2. Answered
  BY DEF Answered, Serving
<1>3. Connections
  <2>1. Connected = {}
    BY DEF Connected
  <2>2. arg[Main] = NoTask
    BY MainCalls
  <2>3. QED  BY <2>1, <2>2, FS_EmptySet, TasksAssumption DEF Connections, Queued
<1>4. ASSUME NEW e \in Entries PROVE Cardinality(EntriesLike(e)) <= Cardinality(Registered(e))
  <2>1. EntriesLike(e) = {} /\ Registered(e) = {}
    BY DEF EntriesLike, Registered
  <2>2. Cardinality({}) = 0
    BY FS_EmptySet
  <2>3. QED  BY <2>1, <2>2
<1>5. QED  BY <1>1, <1>2, <1>3, <1>4 DEF CountInv, EntryEach

\* Nobody whose entry is made is answered, nor registers, again.
Stays(c) ==
  answer'[c] = "accepted" /\ told'[c] = told[c] /\ (Registering(c)' => Registering(c))

LEMMA StayRegistered ==
  ASSUME Types, LoginTypes, CountInv, [LNext]_everything,
         NEW c \in Tasks, answer[c] = "accepted"
  PROVE  Stays(c)
<1>. USE DEF LoginTypes, EndpointTypes, Types, TypeOK, Stays
<1>1. ASSUME UNCHANGED <<answer, told, login>>,
             \A v \in Workers : login[v].step = "register" => task'[v] = task[v]
      PROVE  Stays(c)
  BY <1>1 DEF Registering
<1>2. ASSUME UNCHANGED <<answer, told>>, NEW w \in Workers,
             \A v \in Workers \ {w} : login'[v].step = login[v].step,
             login'[w].step # "register", \A v \in Workers \ {w} : task'[v] = task[v]
      PROVE  Stays(c)
  BY <1>2 DEF Registering
<1>3. ASSUME NEW w \in Workers, TakeLogin(w)
      PROVE  Stays(c)
  <2>1. login' = [login EXCEPT ![w].step = "receive"]
    BY <1>3 DEF TakeLogin
  <2>2. /\ login'[w].step = "receive" /\ \A v \in Workers \ {w} : login'[v] = login[v]
    BY <2>1, StepOfLogin DEF Steps
  <2>3. UNCHANGED <<answer, told>> /\ \A v \in Workers \ {w} : task'[v] = task[v]
    BY <1>3 DEF TakeLogin, Take
  <2>4. QED  BY <1>2, <2>2, <2>3
<1>4. ASSUME NEW w \in Workers, ReceiveEnvelope(w) \/ FindUserByCreds(w)
      PROVE  Stays(c)
  <2>1. UNCHANGED <<answer, told, task>>
    BY <1>4 DEF ReceiveEnvelope, FindUserByCreds, vars
  <2>2. /\ login'[w].step \in {"query", "answer"}
        /\ \A v \in Workers \ {w} : login'[v].step = login[v].step
    BY <1>4, ReceiveStep, FindStep
  <2>3. QED  BY <1>2, <2>1, <2>2
<1>5. ASSUME NEW w \in Workers, SendAcceptNotificaton(w)
      PROVE  Stays(c)
  <2>1. /\ answer[task[w]] = "none" /\ UNCHANGED task
        /\ \A d \in Tasks : d # task[w] => answer'[d] = answer[d] /\ told'[d] = told[d]
    BY <1>5 DEF SendAcceptNotificaton, vars, CountInv, Answered
  <2>2. PICK s \in {"register", "close"} : login' = [login EXCEPT ![w].step = s]
    BY <1>5 DEF SendAcceptNotificaton
  <2>3. \A v \in Workers \ {w} : login'[v] = login[v]
    BY <2>2, StepOfLogin DEF Steps
  <2>4. c # task[w]
    BY <2>1
  <2>5. answer'[c] = "accepted" /\ told'[c] = told[c]
    BY <2>1, <2>4
  <2>6. ASSUME NEW v \in Workers, task'[v] = c, login'[v].step = "register"
        PROVE  Registering(c)
    <3>1. v # w /\ task[v] = c
      BY <2>1, <2>4, <2>6
    <3>2. QED  BY <2>3, <2>6, <3>1 DEF Registering
  <2>7. QED  BY <2>5, <2>6 DEF Registering
<1>6. ASSUME NEW w \in Workers, Register(w)
      PROVE  Stays(c)
  <2>1. login' = [login EXCEPT ![w].step = "close"] /\ UNCHANGED <<answer, told, task>>
    BY <1>6 DEF Register, vars
  <2>2. login'[w].step = "close" /\ \A v \in Workers \ {w} : login'[v] = login[v]
    BY <2>1, StepOfLogin DEF Steps
  <2>3. QED  BY <1>2, <2>1, <2>2
<1>7. ASSUME NEW w \in Workers, Close(w)
      PROVE  Stays(c)
  <2>1. /\ UNCHANGED <<answer, told>> /\ \A v \in Workers \ {w} : task'[v] = task[v]
        /\ login' = [login EXCEPT ![w] = [step |-> "none", user |-> NoUser, met |-> {}]]
    BY <1>7 DEF Close, Run, Serving
  <2>2. login'[w].step = "none" /\ \A v \in Workers \ {w} : login'[v] = login[v]
    BY <2>1, NewLogin DEF Steps, Accounts
  <2>3. QED  BY <1>2, <2>1, <2>2
<1>8. ASSUME NEW d \in Tasks, Client(d)
      PROVE  Stays(c)
  BY <1>1, <1>8 DEF Client, ConnectTo, SendEnvelope, vars
<1>9. CASE MainStep
  BY <1>1, <1>9 DEF MainStep, TryAcceptConnection, ScheduleTask, Schedule, CallerStep, Retry,
    WakeUp, PushTask, Notify, RelayStep, CheckMail, FindOnlineClient, Looked, endpoint, vars
<1>10. ASSUME NEW w \in Workers, Wait(w) \/ Exit(w) \/ WakeSpuriously(w), UNCHANGED endpoint
       PROVE  Stays(c)
  BY <1>1, <1>10 DEF Wait, Exit, WakeSpuriously, endpoint
<1>11. CASE StopServer \/ Destroy
  BY <1>1, <1>11 DEF StopServer, Stop, Destroy, DestructorStep, StopNotify, Join, endpoint
<1>12. CASE UNCHANGED <<vars, endpoint>>
  BY <1>1, <1>12 DEF vars, endpoint
<1>13. QED
  BY <1>3, <1>4, <1>5, <1>6, <1>7, <1>8, <1>9, <1>10, <1>11, <1>12
  DEF LNext, Loop, AuthentifyClient, Terminated, everything

LEMMA StepEntryEach ==
  ASSUME Types, LoginTypes, CountInv, Types', LoginTypes', CountInv', EntryEach,
         [LNext]_everything
  PROVE  EntryEach'
<1>. USE DEF LoginTypes, EndpointTypes
<1>1. SUFFICES ASSUME NEW e \in Entries
               PROVE  Cardinality(EntriesLike(e)') <= Cardinality(Registered(e)')
  BY DEF EntryEach, EntriesLike, Registered, Registering, EntryOf
<1>2. /\ Cardinality(EntriesLike(e)) <= Cardinality(Registered(e))
      /\ IsFiniteSet(Registered(e))
  BY RegisteredTold DEF EntryEach
<1>3. IsFiniteSet(Registered(e)')
  <2>1. (Types /\ LoginTypes /\ CountInv)' => AllFinite'
    BY FiniteAlways, PTL
  <2>2. QED  BY <2>1 DEF AllFinite
<1>4. Registered(e) \subseteq Registered(e)'
  <2>1. \A c \in Registered(e) : c \in Tasks /\ Stays(c) /\ ~Registering(c) /\ EntryOf(c) = e
    BY StayRegistered DEF Registered
  <2>2. QED  BY <2>1 DEF Registered, Stays, EntryOf
<1>5. /\ IsFiniteSet(EntriesLike(e)) /\ Cardinality(EntriesLike(e)) \in Nat
      /\ Cardinality(Registered(e)) \in Nat /\ Cardinality(Registered(e)') \in Nat
      /\ Cardinality(Registered(e)) <= Cardinality(Registered(e)')
  BY <1>2, <1>3, <1>4, EntriesFinite, FS_Subset, FS_CardinalityType
<1>6. CASE UNCHANGED client_info_storage
  BY <1>2, <1>5, <1>6 DEF EntriesLike
<1>7. ASSUME NEW w \in Workers, Register(w)
      PROVE  Cardinality(EntriesLike(e)') <= Cardinality(Registered(e)')
  <2>1. login[w].step = "register" /\ worker[w] = "run" /\ login[w].user = told[task[w]]
    BY <1>7 DEF Register, Serves, CountInv, Answered
  <2>2. PICK c \in Tasks : c = task[w]
    BY <2>1 DEF Types, TaskOK
  <2>3. client_info_storage' = Append(client_info_storage, EntryOf(c))
    BY <1>7, <2>1, <2>2 DEF Register, EntryOf
  <2>4. EntryOf(c) \in Entries
    <3>1. told[c] \in Users
      BY <1>7, <2>1, <2>2 DEF Register, Claims, Accounts
    <3>2. QED  BY <3>1, LoginAssumption DEF EntryOf, Entries, Hosts
  <2>5. PICK n : n = Len(client_info_storage) + 1
    OBVIOUS
  <2>6. /\ DOMAIN client_info_storage' = (DOMAIN client_info_storage) \cup {n}
        /\ client_info_storage'[n] = EntryOf(c) /\ n \notin DOMAIN client_info_storage
        /\ \A i \in DOMAIN client_info_storage : client_info_storage'[i] = client_info_storage[i]
    BY <2>3, <2>4, <2>5
  <2>7. CASE EntryOf(c) # e
    <3>1. EntriesLike(e)' = EntriesLike(e)
      BY <2>6, <2>7 DEF EntriesLike
    <3>2. QED  BY <1>2, <1>5, <3>1
  <2>8. CASE EntryOf(c) = e
    <3>1. EntriesLike(e)' = EntriesLike(e) \cup {n}
      BY <2>6, <2>8 DEF EntriesLike
    <3>2. n \notin EntriesLike(e)
      BY <2>6 DEF EntriesLike
    <3>3. /\ IsFiniteSet(EntriesLike(e)')
          /\ Cardinality(EntriesLike(e)') = Cardinality(EntriesLike(e)) + 1
      <4>1. PICK T : T = EntriesLike(e)
        OBVIOUS
      <4>2. IsFiniteSet(T \cup {n}) /\ Cardinality(T \cup {n}) = Cardinality(T) + 1
        BY <1>5, <3>2, <4>1, FS_AddElement
      <4>3. QED  BY <3>1, <4>1, <4>2
    <3>4. c \notin Registered(e)
      BY <2>1, <2>2 DEF Registered, Registering
    <3>5. answer'[c] = "accepted" /\ told'[c] = told[c] /\ ~Registering(c)'
      <4>1. answer[c] = "accepted" /\ UNCHANGED <<answer, told, task, worker>>
        BY <1>7, <2>1, <2>2 DEF Register, vars, CountInv, Answered
      <4>2. login' = [login EXCEPT ![w].step = "close"]
        BY <1>7 DEF Register
      <4>3. login'[w].step = "close" /\ \A v \in Workers \ {w} : login'[v] = login[v]
        BY <4>2, StepOfLogin DEF Steps
      <4>4. ASSUME NEW v \in Workers, task[v] = c, login'[v].step = "register" PROVE FALSE
        <5>1. v # w /\ login[v].step = "register"
          BY <4>3, <4>4
        <5>2. worker[v] = "run" /\ v = w
          BY <2>1, <2>2, <4>4, <5>1 DEF Serves, CountInv, RunOnce
        <5>3. QED  BY <5>1, <5>2
      <4>5. QED  BY <4>1, <4>4 DEF Registering
    <3>6. Registered(e) \cup {c} \subseteq Registered(e)'
      BY <1>4, <2>8, <3>5 DEF Registered, EntryOf
    <3>7. /\ IsFiniteSet(Registered(e) \cup {c})
          /\ Cardinality(Registered(e) \cup {c}) = Cardinality(Registered(e)) + 1
      BY <1>2, <3>4, FS_AddElement
    <3>8. Cardinality(Registered(e)) + 1 <= Cardinality(Registered(e)')
      BY <1>3, <3>6, <3>7, FS_Subset
    <3>9. QED  BY <1>2, <1>5, <3>3, <3>8
  <2>9. QED  BY <2>7, <2>8
<1>8. ASSUME ~UNCHANGED client_info_storage PROVE \E w \in Workers : Register(w)
  BY <1>8 DEF LNext, Client, ConnectTo, SendEnvelope, Loop, TakeLogin, AuthentifyClient,
    ReceiveEnvelope, FindUserByCreds, SendAcceptNotificaton, Close, MainStep, TryAcceptConnection, Schedule,
    RelayStep, CheckMail, FindOnlineClient, Looked, StopServer, Destroy, endpoint, everything
<1>9. QED  BY <1>6, <1>7, <1>8

LEMMA CountImpliesOnline ==
  ASSUME Types, LoginTypes, CountInv, EntryEach
  PROVE  OnlineByLogin
<1>1. SUFFICES ASSUME NEW i \in DOMAIN client_info_storage, NEW e, e = client_info_storage[i]
               PROVE  Cardinality(EntriesLike(e)) <= Cardinality(ToldSo(e))
  BY DEF OnlineByLogin
<1>2. e \in Entries
  BY <1>1 DEF LoginTypes, EndpointTypes
<1>3. /\ Cardinality(Registered(e)) <= Cardinality(ToldSo(e))
      /\ Cardinality(Registered(e)) \in Nat /\ Cardinality(ToldSo(e)) \in Nat
  BY RegisteredTold, FS_Subset, FS_CardinalityType
<1>4. Cardinality(EntriesLike(e)) \in Nat
  BY EntriesFinite
<1>5. QED  BY <1>2, <1>3, <1>4 DEF EntryEach

LEMMA CountAlways == LSpec => []CountInv
<1>1. Types /\ LoginTypes /\ ScheduledOnce /\ RunOnce /\ StartedInOrder
        /\ Answered /\ Connections /\ [LNext]_everything => Answered' /\ Connections'
  BY StepAnswered, StepConnections
<1>2. LInit => Answered /\ Connections
  BY InitCount DEF CountInv
<1>3. LSpec => [](Answered /\ Connections)
  BY <1>1, <1>2, TypesAlways, LoginUsesThePool, OnceAlways, PTL DEF LSpec
<1>4. QED  BY <1>3, LoginUsesThePool, OnceAlways, PTL DEF CountInv

(* Each entry of client_info_storage is there by an acceptance of its own, from the entry's
   address and of the entry's user: no login is entered twice, and none that was refused
   (ServerTcpEndpoint.cpp:49-69). *)
THEOREM EveryEntryByLogin == LSpec => []OnlineByLogin
<1>1. LInit => EntryEach
  BY InitCount
<1>2. Types /\ LoginTypes /\ CountInv /\ (Types /\ LoginTypes /\ CountInv)' /\ EntryEach
        /\ [LNext]_everything => EntryEach'
  BY StepEntryEach
<1>3. LSpec => []EntryEach
  BY <1>1, <1>2, CountAlways, TypesAlways, PTL DEF LSpec
<1>4. Types /\ LoginTypes /\ CountInv /\ EntryEach => OnlineByLogin
  BY CountImpliesOnline
<1>5. QED
  BY <1>3, <1>4, CountAlways, TypesAlways, PTL

(* A client that has been told it is accepted is online as the user it was told, or will
   be when the worker that told it goes on (ServerTcpEndpoint.cpp:55-69). *)
THEOREM AcceptedGetsOnline == LSpec => []AcceptedIsOnline
<1>1. LInit => AcceptedIsOnline
  BY DEF LInit, AcceptedIsOnline
<1>2. Types /\ LoginTypes /\ LoginTypes' /\ AcceptedIsOnline /\ RegistersTold
        /\ [LNext]_everything => AcceptedIsOnline'
  BY StepAccepted
<1>3. CountInv => RegistersTold
  BY DEF CountInv, Answered, RegistersTold
<1>4. QED
  BY <1>1, <1>2, <1>3, CountAlways, TypesAlways, PTL DEF LSpec

--------------------------------------------------------------------------------
(* Whatever a lookup may find and an answer names is granted. *)
Grounded(w) ==
  /\ login[w].step = "query" => \A u \in login[w].met : u # NoUser => Granted(task[w], u)
  /\ login[w].step \in {"answer", "register"} /\ login[w].user # NoUser =>
       Granted(task[w], login[w].user)

Grounds == GrantedByCredentials /\ \A w \in Workers : Grounded(w)

\* What was granted stays so: requests are not taken back, connections do not go back to
\* the kernel's queue, and a lookup that was disturbed has been disturbed.
GrantsKept ==
  /\ mixed \subseteq mixed'
  /\ \A c \in Tasks : Presented(c) => request'[c] = "enough" /\ socket'[c] \notin {"none", "backlog"}

LEMMA KeptGranted ==
  ASSUME GrantsKept, NEW c \in Tasks, NEW u, Granted(c, u)
  PROVE  Granted(c, u)'
<1>1. \A d \in Tasks : Presented(d) => Presented(d)'
  BY DEF GrantsKept, Presented
<1>2. PICK d \in Tasks : Account[d] = u /\ Presented(d)
  BY DEF Granted
<1>3. c \notin mixed' => Account[c] = u /\ Presented(c)'
  BY <1>1 DEF GrantsKept, Granted
<1>4. QED  BY <1>1, <1>2, <1>3 DEF Granted

LEMMA StepKeepsGrants ==
  ASSUME Types, LoginTypes, [LNext]_everything
  PROVE  GrantsKept
<1>. USE DEF LoginTypes, EndpointTypes, GrantsKept, Presented
<1>1. CASE UNCHANGED <<request, socket, mixed>>
  BY <1>1
<1>2. ASSUME NEW c \in Tasks, Client(c) PROVE GrantsKept
  <2>1. UNCHANGED mixed /\ \A d \in Tasks \ {c} : request'[d] = request[d] /\ socket'[d] = socket[d]
    BY <1>2 DEF Client, ConnectTo, SendEnvelope
  <2>2. Presented(c) => request'[c] = request[c] /\ socket'[c] = socket[c]
    BY <1>2 DEF Client, ConnectTo, SendEnvelope
  <2>3. QED  BY <2>1, <2>2
<1>3. CASE TryAcceptConnection
  <2>1. Head(backlog) \in Tasks /\ UNCHANGED <<request, mixed>>
        /\ socket' = [socket EXCEPT ![Head(backlog)] = "open"]
    BY <1>3 DEF TryAcceptConnection
  <2>2. QED  BY <2>1
<1>4. ASSUME NEW w \in Workers, AuthentifyClient(w) PROVE GrantsKept
  <2>1. CASE ReceiveEnvelope(w)
    <3>1. UNCHANGED <<request, socket>>
      BY <2>1 DEF ReceiveEnvelope
    <3>2. mixed \subseteq mixed'
      BY <2>1, ReceiveStep
    <3>3. QED  BY <3>1, <3>2
  <2>2. CASE Close(w)
    <3>1. UNCHANGED <<request, mixed>> /\ socket' = [socket EXCEPT ![task[w]] = "closed"]
      BY <2>2 DEF Close
    <3>2. QED  BY <3>1
  <2>3. CASE FindUserByCreds(w) \/ SendAcceptNotificaton(w) \/ Register(w)
    BY <1>1, <2>3 DEF FindUserByCreds, SendAcceptNotificaton, Register
  <2>4. QED  BY <1>4, <2>1, <2>2, <2>3 DEF AuthentifyClient
<1>5. ASSUME NEW w \in Workers, Loop(w) PROVE GrantsKept
  BY <1>1, <1>5 DEF Loop, TakeLogin, endpoint
<1>6. CASE RelayStep
  BY <1>1, <1>6 DEF RelayStep, CheckMail, FindOnlineClient, Looked, endpoint
<1>7. CASE UNCHANGED endpoint
  BY <1>1, <1>7 DEF endpoint
<1>8. QED
  BY <1>2, <1>3, <1>4, <1>5, <1>6, <1>7
  DEF LNext, MainStep, Schedule, StopServer, Destroy, everything

\* The connection a worker serves has been accepted from the kernel's queue.
LEMMA ServedIsAccepted ==
  ASSUME Types, LoginTypes, CountInv, NEW w \in Workers, login[w].step # "none"
  PROVE  task[w] \in Tasks /\ socket[task[w]] \in {"open", "closed"}
<1>1. worker[w] = "run" /\ task[w] \in Tasks
  BY DEF LoginTypes, Serves, Types, TaskOK
<1>2. Started(task[w])
  BY <1>1 DEF CountInv, RunOnce
<1>3. PICK i \in 1 .. Len(started) : started[i] = task[w]
  BY <1>2 DEF Started
<1>4. i \in 1 .. Len(queued) /\ queued[i] = task[w]
  BY <1>3 DEF CountInv, StartedInOrder, Types, TypeOK
<1>5. QED  BY <1>1, <1>4 DEF CountInv, Queued, Connections

\* A worker that does not move keeps what it knows.
LEMMA GroundedKept ==
  ASSUME GrantsKept, NEW w \in Workers, Grounded(w), login'[w] = login[w],
         login[w].step # "none" => task'[w] = task[w] /\ task[w] \in Tasks
  PROVE  Grounded(w)'
<1>1. CASE login[w].step = "query"
  <2>1. PICK c \in Tasks : c = task[w] /\ c = task'[w]
    BY <1>1
  <2>2. \A u \in login[w].met : u # NoUser => Granted(c, u)
    BY <1>1, <2>1 DEF Grounded
  <2>3. \A u \in login[w].met : u # NoUser => Granted(c, u)'
    BY <2>2, KeptGranted
  <2>4. \A u \in login'[w].met : u # NoUser => Granted(task[w], u)'
    BY <2>1, <2>3 DEF Granted
  <2>5. QED  BY <1>1, <2>4 DEF Grounded
<1>2. CASE login[w].step \in {"answer", "register"} /\ login[w].user # NoUser
  <2>1. PICK c \in Tasks : c = task[w] /\ c = task'[w]
    BY <1>2
  <2>2. PICK u : u = login[w].user /\ u = login'[w].user
    OBVIOUS
  <2>3. Granted(c, u)
    BY <1>2, <2>1, <2>2 DEF Grounded
  <2>4. Granted(c, u)'
    BY <2>3, KeptGranted
  <2>5. Granted(task[w], login[w].user)'
    BY <2>1, <2>2, <2>4 DEF Granted
  <2>6. QED  BY <1>2, <2>5 DEF Grounded
<1>3. QED  BY <1>1, <1>2 DEF Grounded

\* What the clients have been told stays granted as long as they are told nothing new.
LEMMA NothingNewTold ==
  ASSUME GrantsKept, GrantedByCredentials, UNCHANGED <<answer, told>>
  PROVE  GrantedByCredentials'
<1>1. ASSUME NEW c \in Tasks, answer[c] = "accepted" PROVE Granted(c, told[c])'
  <2>1. PICK u : u = told[c] /\ u = told'[c]
    OBVIOUS
  <2>2. Granted(c, u)'
    BY <1>1, <2>1, KeptGranted DEF GrantedByCredentials
  <2>3. QED  BY <2>1, <2>2 DEF Granted
<1>2. QED  BY <1>1 DEF GrantedByCredentials

LEMMA ReceiveGrounds ==
  ASSUME Types, LoginTypes, CountInv, Grounds, GrantsKept,
         NEW w \in Workers, ReceiveEnvelope(w)
  PROVE  Grounds'
<1>. USE DEF LoginTypes, EndpointTypes
<1>1. login[w].step = "receive" /\ UNCHANGED <<answer, told, task, request, socket>>
  BY DEF ReceiveEnvelope, vars
<1>2. \A v \in Workers : login[v].step # "none" =>
        task[v] \in Tasks /\ socket[task[v]] \in {"open", "closed"}
  BY ServedIsAccepted
<1>3. PICK u \in Accounts :
        /\ u # NoUser => u = Account[task[w]] /\ request[task[w]] = "enough"
        /\ \/ StartLookup(w, u)
           \/ login' = [login EXCEPT ![w] = [step |-> "answer", user |-> NoUser, met |-> {}]]
  BY AfterReceive
<1>4. CASE login' = [login EXCEPT ![w] = [step |-> "answer", user |-> NoUser, met |-> {}]]
  <2>1. /\ login'[w].step = "answer" /\ login'[w].user = NoUser
        /\ \A v \in Workers \ {w} : login'[v] = login[v]
    BY <1>4, NewLogin DEF Steps, Accounts
  <2>2. Grounded(w)'
    BY <2>1 DEF Grounded
  <2>3. \A v \in Workers \ {w} : Grounded(v)'
    BY <1>1, <1>2, <2>1, GroundedKept DEF Grounds
  <2>4. GrantedByCredentials'
    BY <1>1, NothingNewTold DEF Grounds
  <2>5. QED  BY <2>2, <2>3, <2>4 DEF Grounds
<1>5. CASE StartLookup(w, u)
  <2>1. /\ login'[w].step = "query" /\ login'[w].user = NoUser
        /\ \A v \in Workers \ {w} : /\ login'[v].step = login[v].step
                                    /\ login'[v].user = login[v].user
                                    /\ login[v].step # "query" => login'[v] = login[v]
        /\ \A v \in Workers \ {w} : login[v].step = "query" =>
             login'[v].met = login[v].met \cup {u} /\ {task[v], task[w]} \subseteq mixed'
        /\ \A x \in login'[w].met :
             x = u \/ \E v \in Workers \ {w} : login[v].step = "query" /\ x \in login[v].met
        /\ \A x \in login'[w].met : x # u => task[w] \in mixed'
    <3>1. login \in Logins /\ mixed \subseteq Tasks /\ u \in Accounts /\ task[w] \in Tasks
      BY <1>1, <1>2
    <3>2. \A v \in Workers : login[v].step = "query" => task[v] \in Tasks
      BY <1>2
    <3>3. login[w].step # "query"
      BY <1>1
    <3>4. QED  BY <1>5, <3>1, <3>2, <3>3, LookupStarts
  <2>2. PICK c \in Tasks : c = task[w]
    BY <1>1, <1>2
  <2>3. u # NoUser => Account[c] = u /\ Presented(c)'
    BY <1>1, <1>2, <1>3, <2>2 DEF Presented
  <2>4. ASSUME NEW v \in Workers \ {w}, login[v].step = "query" PROVE Grounded(v)'
    <3>1. PICK d \in Tasks : d = task[v] /\ d = task'[v]
      BY <1>1, <1>2, <2>4
    <3>2. \A x \in login[v].met : x # NoUser => Granted(d, x)'
      BY <2>4, <3>1, KeptGranted DEF Grounds, Grounded
    <3>3. u # NoUser => Granted(d, u)'
      BY <2>1, <2>3, <2>4, <3>1 DEF Granted
    <3>4. \A x \in login'[v].met : x # NoUser => Granted(d, x)'
      BY <2>1, <2>4, <3>2, <3>3
    <3>5. \A x \in login'[v].met : x # NoUser => Granted(task[v], x)'
      BY <3>1, <3>4 DEF Granted
    <3>6. login'[v].step = "query"
      BY <2>1, <2>4
    <3>7. QED  BY <3>5, <3>6 DEF Grounded
  <2>5. Grounded(w)'
    <3>1. ASSUME NEW x \in login'[w].met, x # NoUser PROVE Granted(c, x)'
      <4>1. CASE x = u
        BY <2>3, <3>1, <4>1 DEF Granted
      <4>2. CASE x # u
        <5>1. PICK v \in Workers \ {w} : login[v].step = "query" /\ x \in login[v].met
          BY <2>1, <3>1, <4>2
        <5>2. PICK d \in Tasks : d = task[v]
          BY <1>2, <5>1
        <5>3. Granted(d, x)'
          BY <3>1, <5>1, <5>2, KeptGranted DEF Grounds, Grounded
        <5>4. c \in mixed'
          BY <2>1, <2>2, <3>1, <4>2
        <5>5. QED  BY <5>3, <5>4 DEF Granted
      <4>3. QED  BY <4>1, <4>2
    <3>2. \A x \in login'[w].met : x # NoUser => Granted(task[w], x)'
      BY <1>1, <2>2, <3>1 DEF Granted
    <3>3. QED  BY <2>1, <3>2 DEF Grounded
  <2>6. \A v \in Workers \ {w} : login[v].step # "query" => Grounded(v)'
    BY <1>1, <1>2, <2>1, GroundedKept DEF Grounds
  <2>7. GrantedByCredentials'
    BY <1>1, NothingNewTold DEF Grounds
  <2>8. QED  BY <2>4, <2>5, <2>6, <2>7 DEF Grounds
<1>6. QED  BY <1>3, <1>4, <1>5

LEMMA WorkerGrounds ==
  ASSUME Types, LoginTypes, CountInv, Grounds, GrantsKept,
         NEW w \in Workers, FindUserByCreds(w) \/ SendAcceptNotificaton(w)
  PROVE  Grounds'
<1>. USE DEF LoginTypes, EndpointTypes
<1>1. \A v \in Workers : login[v].step # "none" => task[v] \in Tasks
  BY ServedIsAccepted
<1>2. login[w].step # "none" /\ UNCHANGED task
  BY DEF FindUserByCreds, SendAcceptNotificaton, vars
<1>3. PICK c \in Tasks : c = task[w] /\ c = task'[w]
  BY <1>1, <1>2
<1>4. CASE FindUserByCreds(w)
  <2>1. PICK u \in Accounts :
          /\ u = NoUser \/ u \in login[w].met
          /\ login'[w].step = "answer" /\ login'[w].user = u
          /\ \A v \in Workers \ {w} : login'[v] = login[v]
    BY <1>4, FindStep
  <2>2. u # NoUser => Granted(c, u)'
    BY <1>3, <1>4, <2>1, KeptGranted DEF FindUserByCreds, Grounds, Grounded
  <2>3. u # NoUser => Granted(task[w], login[w].user)'
    BY <1>3, <2>1, <2>2 DEF Granted
  <2>4. Grounded(w)'
    BY <2>1, <2>3 DEF Grounded
  <2>5. UNCHANGED <<answer, told>>
    BY <1>4 DEF FindUserByCreds
  <2>6. \A v \in Workers \ {w} : Grounded(v)'
    BY <1>1, <1>2, <2>1, GroundedKept DEF Grounds
  <2>7. GrantedByCredentials'
    BY <2>5, NothingNewTold DEF Grounds
  <2>8. QED  BY <2>4, <2>6, <2>7 DEF Grounds
<1>5. CASE SendAcceptNotificaton(w)
  <2>1. PICK u : u = login[w].user
    OBVIOUS
  <2>2. PICK s \in {"register", "close"} :
          /\ login' = [login EXCEPT ![w].step = s] /\ login[w].step = "answer"
          /\ answer' = [answer EXCEPT ![task[w]] = IF u # NoUser THEN "accepted" ELSE "refused"]
          /\ told' = [told EXCEPT ![task[w]] = u]
    BY <1>5, <2>1 DEF SendAcceptNotificaton
  <2>3. /\ login'[w].step = s /\ login'[w].user = u
        /\ \A v \in Workers \ {w} : login'[v] = login[v]
    BY <2>1, <2>2, StepOfLogin DEF Steps
  <2>4. u # NoUser => Granted(c, u)'
    BY <1>3, <2>1, <2>2, KeptGranted DEF Grounds, Grounded
  <2>5. u # NoUser => Granted(task[w], login[w].user)'
    BY <1>3, <2>3, <2>4 DEF Granted
  <2>6. Grounded(w)'
    BY <2>3, <2>5 DEF Grounded
  <2>7. \A v \in Workers \ {w} : Grounded(v)'
    BY <1>1, <1>2, <2>3, GroundedKept DEF Grounds
  <2>8. ASSUME NEW d \in Tasks, answer'[d] = "accepted" PROVE Granted(d, told[d])'
    <3>1. CASE d = c
      <4>1. u # NoUser /\ told'[d] = u
        BY <1>3, <2>2, <2>8, <3>1
      <4>2. QED  BY <2>4, <3>1, <4>1 DEF Granted
    <3>2. CASE d # c
      <4>1. PICK x : x = told[d] /\ x = told'[d]
        BY <1>3, <2>2, <3>2
      <4>2. answer[d] = "accepted"
        BY <1>3, <2>2, <2>8, <3>2
      <4>3. Granted(d, x)'
        BY <4>1, <4>2, KeptGranted DEF Grounds, GrantedByCredentials
      <4>4. QED  BY <4>1, <4>3 DEF Granted
    <3>3. QED  BY <3>1, <3>2
  <2>9. GrantedByCredentials'
    BY <2>8 DEF GrantedByCredentials
  <2>10. \A v \in Workers : Grounded(v)'
    BY <2>6, <2>7
  <2>11. QED  BY <2>9, <2>10 DEF Grounds
<1>6. QED  BY <1>4, <1>5

LEMMA StepGrounds ==
  ASSUME Types, LoginTypes, CountInv, Grounds, [LNext]_everything
  PROVE  Grounds'
<1>. USE DEF LoginTypes, EndpointTypes
<1>1. GrantsKept
  BY StepKeepsGrants
<1>2. \A w \in Workers : login[w].step # "none" => worker[w] = "run" /\ task[w] \in Tasks
  BY DEF Serves, Types, TaskOK
<1>3. ASSUME UNCHANGED <<answer, told>>, NEW w \in Workers,
             login'[w].step \notin {"query", "answer", "register"},
             \A v \in Workers \ {w} : login'[v] = login[v] /\ task'[v] = task[v]
      PROVE  Grounds'
  <2>1. Grounded(w)'
    BY <1>3 DEF Grounded
  <2>2. \A v \in Workers \ {w} : Grounded(v)'
    BY <1>1, <1>2, <1>3, GroundedKept DEF Grounds
  <2>3. GrantedByCredentials'
    BY <1>1, <1>3, NothingNewTold DEF Grounds
  <2>4. QED  BY <2>1, <2>2, <2>3 DEF Grounds
<1>4. ASSUME UNCHANGED <<answer, told, login, task>> PROVE Grounds'
  <2>1. \A v \in Workers : Grounded(v)'
    BY <1>1, <1>2, <1>4, GroundedKept DEF Grounds
  <2>2. GrantedByCredentials'
    BY <1>1, <1>4, NothingNewTold DEF Grounds
  <2>3. QED  BY <2>1, <2>2 DEF Grounds
<1>5. ASSUME NEW w \in Workers, TakeLogin(w) PROVE Grounds'
  <2>1. login' = [login EXCEPT ![w].step = "receive"] /\ UNCHANGED <<answer, told>>
    BY <1>5 DEF TakeLogin
  <2>2. login'[w].step = "receive" /\ \A v \in Workers \ {w} : login'[v] = login[v]
    BY <2>1, StepOfLogin DEF Steps
  <2>3. \A v \in Workers \ {w} : task'[v] = task[v]
    BY <1>5 DEF TakeLogin, Take, Types, TypeOK
  <2>4. QED  BY <1>3, <2>1, <2>2, <2>3
<1>6. ASSUME NEW w \in Workers, Register(w) PROVE Grounds'
  <2>1. login' = [login EXCEPT ![w].step = "close"] /\ UNCHANGED <<answer, told, task>>
    BY <1>6 DEF Register, vars
  <2>2. login'[w].step = "close" /\ \A v \in Workers \ {w} : login'[v] = login[v]
    BY <2>1, StepOfLogin DEF Steps
  <2>3. QED  BY <1>3, <2>1, <2>2
<1>7. ASSUME NEW w \in Workers, Close(w) PROVE Grounds'
  <2>1. /\ login' = [login EXCEPT ![w] = [step |-> "none", user |-> NoUser, met |-> {}]]
        /\ UNCHANGED <<answer, told>>
    BY <1>7 DEF Close, Serving
  <2>2. login'[w].step = "none" /\ \A v \in Workers \ {w} : login'[v] = login[v]
    BY <2>1, NewLogin DEF Steps, Accounts
  <2>3. \A v \in Workers \ {w} : task'[v] = task[v]
    BY <1>7 DEF Close, Run, Types, TypeOK
  <2>4. QED  BY <1>3, <2>1, <2>2, <2>3
<1>8. ASSUME NEW w \in Workers, AuthentifyClient(w) PROVE Grounds'
  BY <1>1, <1>6, <1>7, <1>8, ReceiveGrounds, WorkerGrounds DEF AuthentifyClient
<1>9. ASSUME NEW c \in Tasks, Client(c) PROVE Grounds'
  BY <1>4, <1>9 DEF Client, ConnectTo, SendEnvelope, vars
<1>10. CASE MainStep
  BY <1>4, <1>10 DEF MainStep, TryAcceptConnection, ScheduleTask, Schedule, CallerStep, Retry,
    WakeUp, PushTask, Notify, RelayStep, CheckMail, FindOnlineClient, Looked, endpoint, vars
<1>11. ASSUME NEW w \in Workers, Wait(w) \/ Exit(w) \/ WakeSpuriously(w), UNCHANGED endpoint
       PROVE  Grounds'
  BY <1>4, <1>11 DEF Wait, Exit, WakeSpuriously, endpoint
<1>12. CASE StopServer \/ Destroy
  BY <1>4, <1>12 DEF StopServer, Stop, Destroy, DestructorStep, StopNotify, Join, endpoint
<1>13. CASE UNCHANGED <<vars, endpoint>>
  BY <1>4, <1>13 DEF vars, endpoint
<1>14. QED
  BY <1>5, <1>8, <1>9, <1>10, <1>11, <1>12, <1>13
  DEF LNext, Loop, Terminated, everything

(* For any clients and workers, and whatever overlapping lookups make of the result they
   share: nobody is told a user whose credentials no connection has presented complete,
   and whoever is told another's was looked up while another was
   (AuthentificationService.cpp:27-54, TcpEndpointBase.cpp:14-20). *)
THEOREM OnlyCredentialsGrant == LSpec => []GrantedByCredentials
<1>1. LInit => Grounds
  BY DEF LInit, Serving, Grounds, Grounded, GrantedByCredentials
<1>2. Types /\ LoginTypes /\ CountInv /\ Grounds /\ [LNext]_everything => Grounds'
  BY StepGrounds
<1>3. Grounds => GrantedByCredentials
  BY DEF Grounds
<1>4. QED  BY <1>1, <1>2, <1>3, CountAlways, TypesAlways, PTL DEF LSpec
================================================================================
