---------------------------- MODULE Authentification ----------------------------
(***************************************************************************)
(* server_app/psql_manager/PsqlManager, asked by AuthentificationService   *)
(* whose credentials a client presents: the connection to the database,    *)
(* the registration of the predefined users each time the server starts,   *)
(* and the handler threads that look users up.                             *)
(*                                                                         *)
(* There is one connection and one pg_result, and no lock: the handlers of *)
(* two logins read, replace and clear each other's result.  The table of   *)
(* users outlives the server, which may stop anywhere.  An account stands  *)
(* for its email and its password.                                         *)
(***************************************************************************)
EXTENDS Naturals, Sequences, FiniteSets

CONSTANTS Users,       \* the accounts whose credentials are ever presented
          Predefined,  \* those that the server registers as it starts, in this order
          Handlers,    \* the server threads that run acceptConnection
          MaxStarts,   \* bound: how often the server is started
          Crossing,    \* may two PQexec at once on a connection swap their answers?
          NoUser

ASSUME PredefinedAssumption == Predefined \in Seq(Users) /\ Predefined # <<>>
ASSUME MaxStartsAssumption == MaxStarts \in Nat
ASSUME CrossingAssumption == Crossing \in BOOLEAN
ASSUME NoUserAssumption == NoUser \notin Users

VARIABLES rows, next_id,  \* the table, once it exists, and its SERIAL counter
          table,          \* does the table exist?
          main,           \* what the main thread does next
          registering,    \* the predefined user it registers next
          is_connected,
          pg_result,      \* the result pg_result points to, and whether it is still live
          rpc,            \* rpc[h]: the login h looks up
          starts,
          given           \* history: the ids told by logins that ran undisturbed

database == <<rows, next_id, table>>
vars == <<rows, next_id, table, main, registering, is_connected, pg_result, rpc, starts, given>>

NoId == 0

Command == [status |-> "command", ids |-> <<>>]
Failure == [status |-> "error", ids |-> <<>>]
Tuples(ids) == [status |-> "tuples", ids |-> ids]

Live(result) == [result |-> result, live |-> TRUE]
Cleared(result) == [result |-> result, live |-> FALSE]

Idle == [pc |-> "idle", user |-> NoUser, id |-> NoId, crossed |-> {},
         alone |-> TRUE, failed |-> FALSE]

Init ==
  /\ rows = {} /\ next_id = 1 /\ table = FALSE
  /\ main = "down"
  /\ registering = 1
  /\ is_connected = FALSE
  /\ pg_result = Cleared(Failure)
  /\ rpc = [h \in Handlers |-> Idle]
  /\ starts = 0
  /\ given = {}

IdsOf(u) == {r.id : r \in {x \in rows : x.user = u}}

--------------------------------------------------------------------------------
(* ServerManager's constructor, in the main thread, before any handler runs.  That
   some of it fails changes nothing of what comes next. *)

Start ==
  /\ main = "down" /\ starts < MaxStarts
  /\ main' = "connect"
  /\ starts' = starts + 1
  /\ UNCHANGED <<database, registering, is_connected, pg_result, rpc, given>>

TryConnect ==
  /\ main = "connect"
  /\ \/ is_connected' = TRUE /\ main' = "create"
     \/ is_connected' = FALSE /\ main' = "serve"
  /\ UNCHANGED <<database, registering, pg_result, rpc, starts, given>>

\* CREATE TABLE IF NOT EXISTS: success leaves the result uncleared.
CreateUsersTableIfNotExist ==
  /\ main = "create"
  /\ \/ table' = TRUE /\ pg_result' = Live(Command)
     \/ table' = table /\ pg_result' = Cleared(Failure)
  /\ main' = "register"
  /\ registering' = 1
  /\ UNCHANGED <<rows, next_id, is_connected, rpc, starts, given>>

\* The column email is UNIQUE, and a refused row has used up an id all the same.
EmailTakenMutant(u) == FALSE
EmailTaken(u) == IdsOf(u) # {}

RegisterNewUser ==
  LET u == Predefined[registering]
  IN  /\ main = "register"
      /\ \/ /\ table /\ ~EmailTaken(u)
            /\ rows' = rows \cup {[id |-> next_id, user |-> u]}
            /\ next_id' = next_id + 1
            /\ pg_result' = Cleared(Tuples(<<next_id>>))
         \/ /\ table /\ EmailTaken(u)
            /\ next_id' = next_id + 1
            /\ pg_result' = Cleared(Failure)
            /\ rows' = rows
         \/ /\ pg_result' = Cleared(Failure)
            /\ UNCHANGED <<rows, next_id>>
      /\ IF registering = Len(Predefined)
         THEN main' = "serve" /\ registering' = 1
         ELSE main' = "register" /\ registering' = registering + 1
      /\ UNCHANGED <<table, is_connected, rpc, starts, given>>

--------------------------------------------------------------------------------
(* checkIfRegistered and findUserByCreds, in a handler. *)

Looking == {"receive", "status", "count", "value", "clear", "refuse"}

At(h, pc) == main = "serve" /\ rpc[h].pc = pc

CheckIfRegistered(h, u) ==
  /\ At(h, "idle")
  /\ rpc' = [rpc EXCEPT ![h] =
               [Idle EXCEPT !.user = u,
                            !.pc = IF is_connected THEN "send" ELSE "reply",
                            !.failed = ~is_connected]]
  /\ UNCHANGED <<database, main, registering, is_connected, pg_result, starts, given>>

\* PQexec sends the query.  libpq forbids two threads to use one connection at once,
\* and does not say what happens then; with Crossing each may get the other's answer.
SendQuery(h) ==
  LET others == {g \in Handlers : rpc[g].pc \in Looking}
      pending == {g \in others : Crossing /\ rpc[g].pc = "receive"}
      u == rpc[h].user
  IN  /\ At(h, "send")
      /\ rpc' = [g \in Handlers |->
                   IF g = h
                   THEN [rpc[g] EXCEPT !.pc = "receive", !.alone = (others = {}),
                                       !.crossed = {u} \cup {rpc[p].user : p \in pending}]
                   ELSE IF g \in others
                   THEN [rpc[g] EXCEPT !.alone = FALSE,
                                       !.crossed = IF g \in pending THEN @ \cup {u} ELSE @]
                   ELSE rpc[g]]
      /\ UNCHANGED <<database, main, registering, is_connected, pg_result, starts, given>>

\* What the database may answer to a query for the id of u.
AnswersMutant(u) ==
  {Failure} \cup (IF ~table THEN {}
                  ELSE {Tuples(s) : s \in [1 .. Cardinality(rows) -> {r.id : r \in rows}]})
Answers(u) ==
  {Failure} \cup (IF ~table THEN {}
                  ELSE IF IdsOf(u) = {} THEN {Tuples(<<>>)}
                  ELSE {Tuples(<<i>>) : i \in IdsOf(u)})

\* PQexec returns, and its result goes to pg_result.
ReceiveResultMutant(h) ==
  /\ At(h, "receive")
  /\ \E u \in rpc[h].crossed : \E r \in Answers(u) :
       /\ pg_result' = IF r = Failure THEN pg_result ELSE Live(r)
       /\ rpc' = [rpc EXCEPT ![h].pc = "status", ![h].failed = (r = Failure)]
  /\ UNCHANGED <<database, main, registering, is_connected, starts, given>>
ReceiveResult(h) ==
  /\ At(h, "receive")
  /\ \E u \in rpc[h].crossed : \E r \in Answers(u) :
       /\ pg_result' = Live(r)
       /\ rpc' = [rpc EXCEPT ![h].pc = "status", ![h].failed = (r = Failure)]
  /\ UNCHANGED <<database, main, registering, is_connected, starts, given>>

\* What a handler finds where pg_result points: in memory that has been freed, the
\* remains of the old result or one that is being received.
Found ==
  {pg_result.result} \cup
  (IF pg_result.live THEN {}
   ELSE UNION {Answers(rpc[g].user) : g \in {x \in Handlers : rpc[x].pc = "receive"}})

Goto(h, pc) == rpc' = [rpc EXCEPT ![h].pc = pc]

CheckStatus(h) ==
  /\ At(h, "status")
  /\ \E r \in Found : Goto(h, IF r.status = "tuples" THEN "count" ELSE "refuse")
  /\ UNCHANGED <<database, main, registering, is_connected, pg_result, starts, given>>

CountTuples(h) ==
  /\ At(h, "count")
  /\ \E r \in Found : Goto(h, IF r.ids = <<>> THEN "refuse" ELSE "value")
  /\ UNCHANGED <<database, main, registering, is_connected, pg_result, starts, given>>

GetValue(h) ==
  /\ At(h, "value")
  /\ \E r \in Found :
       /\ r.ids # <<>>
       /\ rpc' = [rpc EXCEPT ![h].pc = "clear", ![h].id = r.ids[1]]
  /\ UNCHANGED <<database, main, registering, is_connected, pg_result, starts, given>>

Clear(h) ==
  /\ At(h, "clear") \/ At(h, "refuse")
  /\ pg_result' = Cleared(pg_result.result)
  /\ Goto(h, "reply")
  /\ given' = IF rpc[h].alone /\ rpc[h].id # NoId
              THEN given \cup {<<rpc[h].user, rpc[h].id>>} ELSE given
  /\ UNCHANGED <<database, main, registering, is_connected, starts>>

Reply(h) ==
  /\ At(h, "reply")
  /\ rpc' = [rpc EXCEPT ![h] = Idle]
  /\ UNCHANGED <<database, main, registering, is_connected, pg_result, starts, given>>

--------------------------------------------------------------------------------
\* The server stops, of its own or of what libpq does when two threads share its
\* connection, use a freed result, or read a value that is not there.
Crash ==
  /\ main # "down"
  /\ main' = "down"
  /\ is_connected' = FALSE
  /\ registering' = 1
  /\ pg_result' = Cleared(Failure)
  /\ rpc' = [h \in Handlers |-> Idle]
  /\ UNCHANGED <<database, starts, given>>

Starting == Start \/ TryConnect \/ CreateUsersTableIfNotExist \/ RegisterNewUser

FindUserByCreds(h) ==
  \/ SendQuery(h) \/ ReceiveResult(h) \/ CheckStatus(h) \/ CountTuples(h) \/ GetValue(h)
  \/ Clear(h)

Next ==
  \/ Starting \/ Crash
  \/ \E h \in Handlers : \/ \E u \in Users : CheckIfRegistered(h, u)
                         \/ FindUserByCreds(h) \/ Reply(h)

Spec == Init /\ [][Next]_vars

--------------------------------------------------------------------------------
Ids == Nat \ {NoId}
Results == [status : {"tuples", "error", "command"}, ids : Seq(Ids)]
Logins == [pc : {"idle", "send", "reply"} \cup Looking, user : Users \cup {NoUser}, id : Nat,
           crossed : SUBSET Users, alone : BOOLEAN, failed : BOOLEAN]

(* Every variable has its type. *)
TypeOK ==
  /\ rows \subseteq [id : Ids, user : Users]
  /\ next_id \in Ids
  /\ table \in BOOLEAN
  /\ main \in {"down", "connect", "create", "register", "serve"}
  /\ registering \in 1 .. Len(Predefined)
  /\ is_connected \in BOOLEAN
  /\ pg_result \in [result : Results, live : BOOLEAN] /\ Len(pg_result.result.ids) <= 1
  /\ rpc \in [Handlers -> Logins]
  /\ starts \in 0 .. MaxStarts
  /\ given \subseteq Users \X Ids

(* A login that ran while no other did is told the id of the account it named.  It is
   refused if there is no such account, and also if there is no connection to the database
   or its query failed, whatever earlier logins and earlier runs of the server left in
   pg_result (AuthentificationService.cpp:18-21, PsqlManager.cpp:84-109). *)
UndisturbedIsRight ==
  \A h \in Handlers :
    rpc[h].pc = "reply" /\ rpc[h].alone =>
      IF rpc[h].failed \/ IdsOf(rpc[h].user) = {}
      THEN rpc[h].id = NoId
      ELSE rpc[h].id \in IdsOf(rpc[h].user)

(* Among the logins that ran while no other did: a user is told one id, in whatever run of
   the server, each of which registers the predefined users again, and no two users are
   told the same: mail is kept by id (ServerManager.cpp:25-36, PsqlManager.cpp:37-43,
   57-81).  Logins that overlap are the subject of GrantedIsOwn. *)
OneIdForLife == \A a, b \in given : a[1] = b[1] <=> a[2] = b[2]

(* A login that succeeds is told an id of the account whose credentials it presented
   (client_app_main.cpp:68: "Access granted, your user ID is %lu"). *)
GrantedIsOwn ==
  \A h \in Handlers :
    rpc[h].pc = "reply" /\ rpc[h].id # NoId => rpc[h].id \in IdsOf(rpc[h].user)
================================================================================
