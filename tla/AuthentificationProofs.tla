------------------------- MODULE AuthentificationProofs -------------------------
(***************************************************************************)
(* For any users, handlers and number of starts, whether or not libpq      *)
(* swaps the answers of two threads: the types; what an undisturbed login  *)
(* is answered; and that such logins are told one id for each user.        *)
(***************************************************************************)
EXTENDS Authentification, TLAPS

--------------------------------------------------------------------------------
(* No handler runs while the server starts, and one that runs has a user. *)
Running ==
  /\ main # "serve" => rpc = [h \in Handlers |-> Idle]
  /\ \A h \in Handlers : rpc[h].pc # "idle" => rpc[h].user \in Users

Types == TypeOK /\ Running

\* Results with at most one tuple: the query asks for a user's id by a unique email.
Narrow == {r \in Results : Len(r.ids) <= 1}

LEMMA NarrowResults ==
  /\ Command \in Narrow /\ Failure \in Narrow /\ Tuples(<<>>) \in Narrow
  /\ \A i \in Ids : Tuples(<<i>>) \in Narrow
<1>1. <<>> \in Seq(Ids) /\ Len(<<>>) <= 1
  OBVIOUS
<1>2. \A i \in Ids : <<i>> \in Seq(Ids) /\ Len(<<i>>) <= 1
  OBVIOUS
<1>3. QED  BY <1>1, <1>2 DEF Narrow, Results, Command, Failure, Tuples

LEMMA AnswersNarrow ==
  ASSUME TypeOK, NEW u
  PROVE  Answers(u) \subseteq Narrow
<1>1. IdsOf(u) \subseteq Ids
  BY DEF IdsOf, TypeOK
<1>2. QED  BY <1>1, NarrowResults DEF Answers

LEMMA FoundNarrow == ASSUME TypeOK PROVE Found \subseteq Narrow
<1>1. pg_result.result \in Narrow
  BY DEF TypeOK, Narrow
<1>2. QED  BY <1>1, AnswersNarrow DEF Found

LEMMA IdleLogin == Idle \in Logins /\ Idle.pc = "idle"
BY DEF Idle, Logins, NoId

(* What each kind of step makes of the handlers' records. *)
LoginsKept(h) == \A g \in Handlers \ {h} : rpc'[g] = rpc[g]

LEMMA AfterGoto ==
  ASSUME rpc \in [Handlers -> Logins], NEW h \in Handlers,
         NEW pc \in Looking \cup {"reply"}, rpc' = [rpc EXCEPT ![h].pc = pc]
  PROVE  /\ rpc' \in [Handlers -> Logins] /\ rpc'[h].pc = pc /\ LoginsKept(h)
         /\ rpc'[h].user = rpc[h].user /\ rpc'[h].id = rpc[h].id
         /\ rpc'[h].alone = rpc[h].alone /\ rpc'[h].failed = rpc[h].failed
BY DEF Logins, LoginsKept, Looking

LEMMA AfterReceive ==
  ASSUME rpc \in [Handlers -> Logins], NEW h \in Handlers, NEW f \in BOOLEAN,
         rpc' = [rpc EXCEPT ![h].pc = "status", ![h].failed = f]
  PROVE  /\ rpc' \in [Handlers -> Logins] /\ rpc'[h].pc = "status" /\ LoginsKept(h)
         /\ rpc'[h].user = rpc[h].user /\ rpc'[h].id = rpc[h].id
         /\ rpc'[h].alone = rpc[h].alone /\ rpc'[h].failed = f
BY DEF Logins, LoginsKept, Looking

LEMMA AfterValue ==
  ASSUME rpc \in [Handlers -> Logins], NEW h \in Handlers, NEW i \in Nat,
         rpc' = [rpc EXCEPT ![h].pc = "clear", ![h].id = i]
  PROVE  /\ rpc' \in [Handlers -> Logins] /\ rpc'[h].pc = "clear" /\ LoginsKept(h)
         /\ rpc'[h].user = rpc[h].user /\ rpc'[h].id = i
         /\ rpc'[h].alone = rpc[h].alone /\ rpc'[h].failed = rpc[h].failed
BY DEF Logins, LoginsKept, Looking

LEMMA AfterCheck ==
  ASSUME TypeOK, NEW h \in Handlers, NEW u \in Users, CheckIfRegistered(h, u)
  PROVE  /\ rpc' \in [Handlers -> Logins] /\ LoginsKept(h)
         /\ rpc'[h].pc = (IF is_connected THEN "send" ELSE "reply")
         /\ rpc'[h].user = u /\ rpc'[h].id = NoId
         /\ rpc'[h].failed = ~is_connected /\ rpc'[h].alone
<1>. DEFINE pc == IF is_connected THEN "send" ELSE "reply"
            f == ~is_connected
            l == [Idle EXCEPT !.user = u, !.pc = pc, !.failed = f]
<1>1. rpc' = [rpc EXCEPT ![h] = l] /\ rpc \in [Handlers -> Logins]
  BY DEF CheckIfRegistered, TypeOK
<1>2. pc \in {"send", "reply"} /\ f \in BOOLEAN /\ Idle \in Logins /\ Idle.id = NoId /\ Idle.alone
  BY IdleLogin DEF Idle, TypeOK
<1>3. l \in Logins /\ l.pc = pc /\ l.user = u /\ l.id = NoId /\ l.failed = f /\ l.alone
  <2>. HIDE DEF pc, f
  <2>. QED  BY <1>2 DEF Logins
<1>4. rpc' \in [Handlers -> Logins] /\ LoginsKept(h) /\ rpc'[h] = l
  <2>. HIDE DEF l
  <2>. QED  BY <1>1, <1>3 DEF LoginsKept
<1>5. QED  BY <1>3, <1>4

LEMMA AfterIdle ==
  ASSUME rpc \in [Handlers -> Logins], NEW h \in Handlers, rpc' = [rpc EXCEPT ![h] = Idle]
  PROVE  rpc' \in [Handlers -> Logins] /\ rpc'[h] = Idle /\ LoginsKept(h)
BY IdleLogin DEF LoginsKept

(* SendQuery touches every handler that is looking. *)
LEMMA AfterSend ==
  ASSUME Types, NEW h \in Handlers, SendQuery(h), NEW g \in Handlers
  PROVE  /\ rpc'[g] \in Logins /\ rpc'[g].user = rpc[g].user
         /\ rpc'[g].id = rpc[g].id /\ rpc'[g].failed = rpc[g].failed
         /\ rpc'[g].pc = (IF g = h THEN "receive" ELSE rpc[g].pc)
         /\ g # h /\ rpc[g].pc \in Looking => ~rpc'[g].alone
         /\ g # h /\ rpc[g].pc \notin Looking => rpc'[g] = rpc[g]
         /\ g = h /\ rpc'[g].alone => \A k \in Handlers : rpc[k].pc \notin Looking
         /\ g = h /\ rpc'[g].alone => rpc'[g].crossed = {rpc[g].user}
<1>1. rpc \in [Handlers -> Logins] /\ main = "serve" /\ rpc[h].pc = "send" /\ rpc[h].user \in Users
      /\ \A k \in Handlers : rpc[k].pc \in Looking => rpc[k].user \in Users
  BY DEF SendQuery, At, Types, TypeOK, Running, Looking
<1>. DEFINE others == {k \in Handlers : rpc[k].pc \in Looking}
            pending == {k \in others : Crossing /\ rpc[k].pc = "receive"}
            C == {rpc[h].user} \cup {rpc[p].user : p \in pending}
            D == IF g \in pending THEN rpc[g].crossed \cup {rpc[h].user} ELSE rpc[g].crossed
<1>2. rpc'[g] = IF g = h
                THEN [rpc[g] EXCEPT !.pc = "receive", !.alone = (others = {}), !.crossed = C]
                ELSE IF g \in others THEN [rpc[g] EXCEPT !.alone = FALSE, !.crossed = D] ELSE rpc[g]
  BY DEF SendQuery
<1>3. C \in SUBSET Users /\ (others = {} => C = {rpc[h].user})
  BY <1>1
<1>4. rpc[g] \in Logins /\ D \in SUBSET Users
  BY <1>1 DEF Logins
<1>5. CASE g = h
  <2>. DEFINE a == others = {}
  <2>. HIDE DEF C, others
  <2>1. rpc'[g] = [rpc[g] EXCEPT !.pc = "receive", !.alone = a, !.crossed = C]
    BY <1>2, <1>5
  <2>2. /\ rpc'[g] \in Logins /\ rpc'[g].user = rpc[g].user
        /\ rpc'[g].id = rpc[g].id /\ rpc'[g].failed = rpc[g].failed
        /\ rpc'[g].pc = "receive" /\ rpc'[g].alone = a /\ rpc'[g].crossed = C
    BY <1>3, <1>4, <2>1 DEF Logins, Looking
  <2>3. a => \A k \in Handlers : rpc[k].pc \notin Looking
    BY DEF others
  <2>4. QED  BY <1>3, <1>5, <2>2, <2>3
<1>6. CASE g # h /\ g \in others
  <2>. HIDE DEF D, C
  <2>1. rpc'[g] = [rpc[g] EXCEPT !.alone = FALSE, !.crossed = D]
    BY <1>2, <1>6
  <2>2. /\ rpc'[g] \in Logins /\ rpc'[g].user = rpc[g].user
        /\ rpc'[g].id = rpc[g].id /\ rpc'[g].failed = rpc[g].failed
        /\ rpc'[g].pc = rpc[g].pc /\ ~rpc'[g].alone
    BY <1>4, <2>1 DEF Logins
  <2>3. QED  BY <1>6, <2>2
<1>7. CASE g # h /\ g \notin others
  BY <1>2, <1>4, <1>7
<1>8. QED  BY <1>5, <1>6, <1>7

--------------------------------------------------------------------------------
(* Types. *)

LEMMA InitTypes == ASSUME Init PROVE Types
<1>1. Failure \in Results /\ Len(Failure.ids) <= 1
  BY NarrowResults DEF Narrow
<1>2. 1 \in 1 .. Len(Predefined)
  BY PredefinedAssumption
<1>3. pg_result \in [result : Results, live : BOOLEAN] /\ Len(pg_result.result.ids) <= 1
  BY <1>1 DEF Init, Cleared
<1>4. rpc \in [Handlers -> Logins] /\ Running
  BY IdleLogin DEF Init, Running
<1>5. next_id \in Ids /\ starts \in 0 .. MaxStarts
  BY MaxStartsAssumption DEF Init, Ids, NoId
<1>6. QED  BY <1>2, <1>3, <1>4, <1>5 DEF Init, Types, TypeOK

(* A result that pg_result points to, and the steps that only move handlers. *)
LEMMA ResultType ==
  ASSUME NEW r \in Narrow
  PROVE  /\ Live(r) \in [result : Results, live : BOOLEAN] /\ Len(Live(r).result.ids) <= 1
         /\ Cleared(r) \in [result : Results, live : BOOLEAN] /\ Len(Cleared(r).result.ids) <= 1
BY DEF Narrow, Live, Cleared

LEMMA HandlersMoved ==
  ASSUME Types, UNCHANGED <<database, main, registering, is_connected, starts>>,
         main = "serve",
         pg_result' \in [result : Results, live : BOOLEAN],
         Len(pg_result'.result.ids) <= 1,
         rpc' \in [Handlers -> Logins],
         \A h \in Handlers : rpc'[h].pc # "idle" => rpc'[h].user \in Users,
         given' \subseteq Users \X Ids
  PROVE  Types'
BY DEF Types, TypeOK, Running, database

(* One handler goes on. *)
LEMMA HandlerMoved ==
  ASSUME Types, UNCHANGED <<database, main, registering, is_connected, pg_result, starts, given>>,
         main = "serve", NEW h \in Handlers,
         rpc' \in [Handlers -> Logins], LoginsKept(h),
         rpc'[h].pc # "idle" => rpc'[h].user \in Users
  PROVE  Types'
BY HandlersMoved DEF Types, TypeOK, Running, LoginsKept

LEMMA StartingTypes == ASSUME Types, Starting PROVE Types'
<1>1. rpc' = rpc /\ starts' \in 0 .. MaxStarts /\ given' = given
  BY MaxStartsAssumption DEF Starting, Start, TryConnect, CreateUsersTableIfNotExist,
     RegisterNewUser, Types, TypeOK
<1>2. rpc' \in [Handlers -> Logins] /\ Running'
  BY <1>1 DEF Starting, Start, TryConnect, CreateUsersTableIfNotExist, RegisterNewUser,
     Types, TypeOK, Running
<1>3. next_id' \in Ids /\ table' \in BOOLEAN
  <2>1. next_id' \in {next_id, next_id + 1} /\ table' \in {table, TRUE}
    BY DEF Starting, Start, TryConnect, CreateUsersTableIfNotExist, RegisterNewUser, database
  <2>2. next_id \in Nat \ {0} /\ table \in BOOLEAN
    BY DEF Types, TypeOK, Ids, NoId
  <2>3. next_id + 1 \in Nat \ {0}
    BY <2>2
  <2>4. QED  BY <2>1, <2>2, <2>3 DEF Ids, NoId
<1>4. /\ main' \in {"down", "connect", "create", "register", "serve"}
      /\ is_connected' \in BOOLEAN
  BY DEF Starting, Start, TryConnect, CreateUsersTableIfNotExist, RegisterNewUser, Types, TypeOK
<1>5. registering' \in 1 .. Len(Predefined)
  BY PredefinedAssumption DEF Starting, Start, TryConnect, CreateUsersTableIfNotExist,
     RegisterNewUser, Types, TypeOK
<1>6. rows' \subseteq [id : Ids, user : Users]
  <2>1. Predefined[registering] \in Users
    BY PredefinedAssumption DEF Types, TypeOK
  <2>2. QED
    BY <2>1 DEF Starting, Start, TryConnect, CreateUsersTableIfNotExist, RegisterNewUser,
       Types, TypeOK, database
<1>7. pg_result' \in [result : Results, live : BOOLEAN] /\ Len(pg_result'.result.ids) <= 1
  <2>1. pg_result' = pg_result \/ \E r \in Narrow : pg_result' = Live(r) \/ pg_result' = Cleared(r)
    BY NarrowResults DEF Starting, Start, TryConnect, CreateUsersTableIfNotExist,
       RegisterNewUser, Types, TypeOK
  <2>2. QED  BY <2>1, ResultType DEF Types, TypeOK
<1>8. QED  BY <1>1, <1>2, <1>3, <1>4, <1>5, <1>6, <1>7 DEF Types, TypeOK

LEMMA CrashTypes == ASSUME Types, Crash PROVE Types'
<1>1. rpc' \in [Handlers -> Logins] /\ Running'
  BY IdleLogin DEF Crash, Running
<1>2. pg_result' \in [result : Results, live : BOOLEAN] /\ Len(pg_result'.result.ids) <= 1
  BY NarrowResults, ResultType DEF Crash
<1>3. registering' \in 1 .. Len(Predefined)
  BY PredefinedAssumption DEF Crash
<1>4. QED  BY <1>1, <1>2, <1>3 DEF Crash, Types, TypeOK, database

LEMMA CheckTypes ==
  ASSUME Types, NEW h \in Handlers, NEW u \in Users, CheckIfRegistered(h, u)
  PROVE  Types'
BY AfterCheck, HandlerMoved DEF Types, CheckIfRegistered, At

LEMMA SendTypes ==
  ASSUME Types, NEW h \in Handlers, SendQuery(h)
  PROVE  Types'
<1>1. main = "serve" /\ rpc[h].user \in Users
  BY DEF SendQuery, At, Types, Running
<1>2. \A g \in Handlers : rpc'[g] \in Logins
  BY AfterSend
<1>3. \A g \in Handlers : rpc'[g].pc # "idle" => rpc'[g].user \in Users
  BY <1>1, AfterSend DEF Types, Running
<1>4. rpc' \in [Handlers -> Logins]
  <2>1. rpc' = [g \in Handlers |-> rpc'[g]]
    BY DEF SendQuery
  <2>2. QED  BY <1>2, <2>1
<1>5. QED  BY <1>1, <1>3, <1>4, HandlersMoved DEF SendQuery, Types, TypeOK

LEMMA ReceiveTypes ==
  ASSUME Types, NEW h \in Handlers, ReceiveResult(h)
  PROVE  Types'
<1>1. PICK r \in Narrow :
        /\ pg_result' = Live(r)
        /\ rpc' = [rpc EXCEPT ![h].pc = "status", ![h].failed = (r = Failure)]
  BY AnswersNarrow DEF ReceiveResult, Types
<1>2. /\ rpc \in [Handlers -> Logins] /\ main = "serve" /\ rpc[h].user \in Users
      /\ \A g \in Handlers : rpc[g].pc # "idle" => rpc[g].user \in Users
  BY DEF ReceiveResult, At, Types, TypeOK, Running
<1>3. /\ rpc' \in [Handlers -> Logins] /\ LoginsKept(h) /\ rpc'[h].user = rpc[h].user
  BY <1>1, <1>2, AfterReceive
<1>4. \A g \in Handlers : rpc'[g].pc # "idle" => rpc'[g].user \in Users
  BY <1>2, <1>3 DEF LoginsKept
<1>5. pg_result' \in [result : Results, live : BOOLEAN] /\ Len(pg_result'.result.ids) <= 1
  BY <1>1, ResultType
<1>6. QED  BY <1>2, <1>3, <1>4, <1>5, HandlersMoved DEF ReceiveResult, Types, TypeOK

LEMMA LookTypes ==
  ASSUME Types, NEW h \in Handlers, CheckStatus(h) \/ CountTuples(h) \/ GetValue(h)
  PROVE  Types'
<1>1. rpc \in [Handlers -> Logins] /\ main = "serve" /\ rpc[h].user \in Users
  BY DEF CheckStatus, CountTuples, GetValue, At, Types, TypeOK, Running
<1>2. UNCHANGED <<database, main, registering, is_connected, pg_result, starts, given>>
  BY DEF CheckStatus, CountTuples, GetValue
<1>3. CASE CheckStatus(h) \/ CountTuples(h)
  <2>1. PICK pc \in Looking : rpc' = [rpc EXCEPT ![h].pc = pc]
    BY <1>3 DEF CheckStatus, CountTuples, Goto, Looking
  <2>2. QED  BY <1>1, <1>2, <2>1, AfterGoto, HandlerMoved
<1>4. CASE GetValue(h)
  <2>1. PICK r \in Narrow :
          r.ids # <<>> /\ rpc' = [rpc EXCEPT ![h].pc = "clear", ![h].id = r.ids[1]]
    BY <1>4, FoundNarrow DEF GetValue, Types
  <2>2. r.ids[1] \in Nat
    BY <2>1 DEF Narrow, Results, Ids
  <2>3. QED  BY <1>1, <1>2, <2>1, <2>2, AfterValue, HandlerMoved
<1>5. QED  BY <1>3, <1>4

LEMMA ClearTypes ==
  ASSUME Types, NEW h \in Handlers, Clear(h)
  PROVE  Types'
<1>1. /\ rpc \in [Handlers -> Logins] /\ main = "serve" /\ rpc[h].user \in Users
      /\ \A g \in Handlers : rpc[g].pc # "idle" => rpc[g].user \in Users
  BY DEF Clear, At, Types, TypeOK, Running
<1>2. rpc' \in [Handlers -> Logins] /\ LoginsKept(h) /\ rpc'[h].user = rpc[h].user
  BY <1>1, AfterGoto DEF Clear, Goto
<1>3. \A g \in Handlers : rpc'[g].pc # "idle" => rpc'[g].user \in Users
  BY <1>1, <1>2 DEF LoginsKept
<1>4. pg_result' \in [result : Results, live : BOOLEAN] /\ Len(pg_result'.result.ids) <= 1
  <2>1. pg_result.result \in Narrow
    BY DEF Types, TypeOK, Narrow
  <2>2. QED  BY <2>1, ResultType DEF Clear
<1>5. given' \subseteq Users \X Ids
  <2>1. rpc[h].id \in Nat
    BY <1>1 DEF Logins
  <2>2. rpc[h].id # NoId => <<rpc[h].user, rpc[h].id>> \in Users \X Ids
    BY <1>1, <2>1 DEF Ids
  <2>3. QED  BY <2>2 DEF Clear, Types, TypeOK
<1>6. QED  BY <1>1, <1>2, <1>3, <1>4, <1>5, HandlersMoved DEF Clear

LEMMA StepTypes == ASSUME Types, [Next]_vars PROVE Types'
<1>1. ASSUME NEW h \in Handlers, FindUserByCreds(h) PROVE Types'
  BY <1>1, SendTypes, ReceiveTypes, LookTypes, ClearTypes DEF FindUserByCreds
<1>2. ASSUME NEW h \in Handlers, Reply(h) PROVE Types'
  BY <1>2, IdleLogin, AfterIdle, HandlerMoved DEF Reply, At, Types, TypeOK
<1>3. CASE UNCHANGED vars
  BY <1>3 DEF vars, Types, TypeOK, Running
<1>4. QED  BY <1>1, <1>2, <1>3, StartingTypes, CrashTypes, CheckTypes DEF Next

(* Every variable of the database, the connection and the handlers has its type, and
   no result has more than one tuple (PsqlManager.cpp:84-109). *)
THEOREM LookupTypes == Spec => []TypeOK
<1>1. Init => Types
  BY InitTypes
<1>2. Types /\ [Next]_vars => Types'
  BY StepTypes
<1>3. QED  BY <1>1, <1>2, PTL DEF Spec, Types
--------------------------------------------------------------------------------
(* The table: no two rows have one id or one user, and the ids in use are spent. *)
OneRowEach ==
  /\ \A a, b \in rows : a.id = b.id <=> a.user = b.user
  /\ \A a \in rows : a.id < next_id

(* An id that was given out is in the table, and rows are never removed. *)
GivenInTable == \A g \in given : g[2] \in IdsOf(g[1])

(* What a handler that nobody has disturbed knows at each step of findUserByCreds:
   it has no company, and pg_result holds the answer to its own query. *)
NotFound(h) == rpc[h].id = NoId /\ (rpc[h].failed \/ IdsOf(rpc[h].user) = {})
IsFound(h) == rpc[h].id \in IdsOf(rpc[h].user) /\ ~rpc[h].failed

HasAnswer(h) ==
  /\ pg_result.live /\ pg_result.result \in Answers(rpc[h].user)
  /\ rpc[h].failed <=> pg_result.result = Failure

Knows(h) ==
  CASE rpc[h].pc = "receive" -> rpc[h].id = NoId /\ rpc[h].crossed = {rpc[h].user}
    [] rpc[h].pc = "status" -> rpc[h].id = NoId /\ HasAnswer(h)
    [] rpc[h].pc = "count" -> rpc[h].id = NoId /\ HasAnswer(h) /\ ~rpc[h].failed
    [] rpc[h].pc = "value" ->
         rpc[h].id = NoId /\ HasAnswer(h) /\ ~rpc[h].failed /\ IdsOf(rpc[h].user) # {}
    [] rpc[h].pc = "clear" -> IsFound(h)
    [] rpc[h].pc = "refuse" -> NotFound(h)
    [] rpc[h].pc = "reply" -> NotFound(h) \/ IsFound(h)
    [] OTHER -> rpc[h].id = NoId

Undisturbed ==
  \A h \in Handlers :
    /\ rpc[h].pc = "send" => rpc[h].alone
    /\ rpc[h].alone =>
         /\ Knows(h)
         /\ rpc[h].pc \in Looking => \A g \in Handlers \ {h} : rpc[g].pc \notin Looking

IInv == Types /\ OneRowEach /\ GivenInTable /\ Undisturbed

LEMMA InitRight == ASSUME Init PROVE OneRowEach /\ GivenInTable /\ Undisturbed
BY DEF Init, OneRowEach, GivenInTable, Undisturbed, Knows, Idle, Looking

(* Registration is the only step that adds a row, and only for a user who has none. *)
LEMMA TableStep ==
  ASSUME Types, OneRowEach, GivenInTable, [Next]_vars
  PROVE  /\ OneRowEach'
         /\ rows \subseteq rows'
         /\ main = "serve" => UNCHANGED <<rows, table>>
<1>1. CASE RegisterNewUser
  <2>. DEFINE u == Predefined[registering]
              r == [id |-> next_id, user |-> u]
  <2>1. next_id \in Nat /\ next_id' \in {next_id, next_id + 1} /\ main # "serve"
    BY <1>1 DEF RegisterNewUser, Types, TypeOK, Ids
  <2>2. \A a \in rows : a.id \in Nat
    BY DEF Types, TypeOK, Ids
  <2>3. CASE rows' = rows
    BY <2>1, <2>2, <2>3 DEF OneRowEach
  <2>4. CASE rows' # rows
    <3>1. ~EmailTaken(u) /\ rows' = rows \cup {r} /\ next_id' = next_id + 1
      BY <1>1, <2>4 DEF RegisterNewUser
    <3>2. \A a \in rows : a.user # u
      BY <3>1 DEF EmailTaken, IdsOf
    <3>3. \A a \in rows : a.id < next_id
      BY DEF OneRowEach
    <3>4. \A a, b \in rows' : a.id = b.id <=> a.user = b.user
      <4>1. TAKE a, b \in rows'
      <4>2. CASE a \in rows /\ b \in rows
        BY <4>2 DEF OneRowEach
      <4>3. CASE a = r /\ b \in rows
        BY <2>1, <2>2, <3>2, <3>3, <4>3
      <4>4. CASE a \in rows /\ b = r
        BY <2>1, <2>2, <3>2, <3>3, <4>4
      <4>5. CASE a = r /\ b = r
        BY <4>5
      <4>6. QED  BY <3>1, <4>2, <4>3, <4>4, <4>5
    <3>5. \A a \in rows' : a.id < next_id'
      BY <2>1, <2>2, <3>1, <3>3
    <3>6. QED  BY <2>1, <3>1, <3>4, <3>5 DEF OneRowEach
  <2>5. QED  BY <2>3, <2>4
<1>2. CASE UNCHANGED <<rows, next_id>> /\ (main = "serve" => table' = table)
  BY <1>2 DEF OneRowEach
<1>3. [Next]_vars => RegisterNewUser \/ (UNCHANGED <<rows, next_id>> /\ (main = "serve" => table' = table))
  BY DEF Next, vars, Starting, Start, TryConnect, CreateUsersTableIfNotExist, Crash, database,
     CheckIfRegistered, FindUserByCreds, SendQuery, ReceiveResult, CheckStatus, CountTuples,
     GetValue, Clear, Reply
<1>4. QED  BY <1>1, <1>2, <1>3

LEMMA IdsKept ==
  /\ rows' = rows => \A u : IdsOf(u)' = IdsOf(u)
  /\ UNCHANGED <<rows, table>> => \A u : Answers(u)' = Answers(u)
  /\ rows \subseteq rows' => \A u : IdsOf(u) \subseteq IdsOf(u)'
<1>1. rows' = rows => \A u : IdsOf(u)' = IdsOf(u)
  BY DEF IdsOf
<1>2. ASSUME UNCHANGED <<rows, table>>, NEW u PROVE Answers(u)' = Answers(u)
  <2>1. IdsOf(u)' = IdsOf(u) /\ table' = table
    BY <1>1, <1>2
  <2>2. QED  BY <2>1 DEF Answers
<1>3. rows \subseteq rows' => \A u : IdsOf(u) \subseteq IdsOf(u)'
  BY DEF IdsOf
<1>4. QED  BY <1>1, <1>2, <1>3

(* A handler that is at a step of its own, while the table stays. *)
LEMMA KnowsKept ==
  ASSUME NEW h \in Handlers, UNCHANGED <<rows, table>>, rpc'[h] = rpc[h],
         rpc[h].pc \in Looking => pg_result' = pg_result, Knows(h)
  PROVE  Knows(h)'
<1>1. IdsOf(rpc[h].user)' = IdsOf(rpc[h].user) /\ Answers(rpc[h].user)' = Answers(rpc[h].user)
  BY IdsKept
<1>2. rpc[h].pc \in Looking => (HasAnswer(h) <=> HasAnswer(h)')
  BY <1>1 DEF HasAnswer
<1>3. (NotFound(h) <=> NotFound(h)') /\ (IsFound(h) <=> IsFound(h)')
  BY <1>1 DEF NotFound, IsFound
<1>4. QED  BY <1>1, <1>2, <1>3 DEF Knows, Looking

(* Handler h goes on with what it knows; a handler that is alone has no company, so
   that only a step of its own replaces pg_result. *)
LEMMA UndisturbedStep ==
  ASSUME Undisturbed, NEW h \in Handlers, LoginsKept(h), UNCHANGED <<rows, table>>,
         rpc[h].pc \in Looking \/ (pg_result' = pg_result /\ rpc'[h].pc \notin Looking),
         rpc'[h].pc \in Looking => rpc'[h].alone = rpc[h].alone,
         rpc'[h].pc = "send" => rpc'[h].alone,
         rpc'[h].alone => Knows(h)'
  PROVE  Undisturbed'
<1>1. ASSUME NEW g \in Handlers, g # h, rpc'[g].alone
      PROVE  /\ Knows(g)'
             /\ rpc'[g].pc \in Looking => \A k \in Handlers \ {g} : rpc'[k].pc \notin Looking
  <2>1. rpc'[g] = rpc[g]
    BY <1>1 DEF LoginsKept
  <2>2. Knows(g) /\ (rpc[g].pc \in Looking => \A k \in Handlers \ {g} : rpc[k].pc \notin Looking)
    BY <1>1, <2>1 DEF Undisturbed
  <2>3. Knows(g)'
    BY <1>1, <2>1, <2>2, KnowsKept
  <2>4. QED  BY <1>1, <2>1, <2>2, <2>3 DEF LoginsKept
<1>2. ASSUME rpc'[h].alone, rpc'[h].pc \in Looking
      PROVE  \A k \in Handlers \ {h} : rpc'[k].pc \notin Looking
  BY <1>2 DEF Undisturbed, LoginsKept
<1>3. \A g \in Handlers : rpc'[g].pc = "send" => rpc'[g].alone
  BY DEF Undisturbed, LoginsKept
<1>4. QED  BY <1>1, <1>2, <1>3 DEF Undisturbed

\* What a handler that is alone may be answered.
LEMMA RightAnswer ==
  ASSUME NEW u, NEW r \in Answers(u), r # Failure
  PROVE  /\ r.status = "tuples"
         /\ r.ids = <<>> <=> IdsOf(u) = {}
         /\ r.ids # <<>> => r.ids[1] \in IdsOf(u)
<1>1. CASE IdsOf(u) = {}
  BY <1>1 DEF Answers, Tuples
<1>2. CASE IdsOf(u) # {}
  <2>1. PICK i \in IdsOf(u) : r = Tuples(<<i>>)
    BY <1>2 DEF Answers
  <2>2. <<i>> # <<>> /\ <<i>>[1] = i
    OBVIOUS
  <2>3. QED  BY <1>2, <2>1, <2>2 DEF Tuples
<1>3. QED  BY <1>1, <1>2

\* A handler that is alone finds the answer it has received.
LEMMA FindsAnswer ==
  ASSUME NEW h \in Handlers, HasAnswer(h)
  PROVE  Found = {pg_result.result}
BY DEF HasAnswer, Found

LEMMA ReceiveRight ==
  ASSUME IInv, NEW h \in Handlers, ReceiveResult(h)
  PROVE  Undisturbed'
<1>1. PICK u \in rpc[h].crossed : \E r \in Answers(u) :
        /\ pg_result' = Live(r)
        /\ rpc' = [rpc EXCEPT ![h].pc = "status", ![h].failed = (r = Failure)]
  BY DEF ReceiveResult
<1>2. PICK r \in Answers(u) :
        /\ pg_result' = Live(r)
        /\ rpc' = [rpc EXCEPT ![h].pc = "status", ![h].failed = (r = Failure)]
  BY <1>1
<1>3. rpc[h].pc = "receive" /\ UNCHANGED <<rows, table>> /\ rpc \in [Handlers -> Logins]
  BY DEF ReceiveResult, At, database, IInv, Types, TypeOK
<1>4. /\ rpc'[h].pc = "status" /\ LoginsKept(h) /\ rpc'[h].user = rpc[h].user
      /\ rpc'[h].id = rpc[h].id /\ rpc'[h].alone = rpc[h].alone
      /\ rpc'[h].failed = (r = Failure)
  BY <1>2, <1>3, AfterReceive
<1>5. ASSUME rpc'[h].alone PROVE Knows(h)'
  <2>1. rpc[h].id = NoId /\ rpc[h].crossed = {rpc[h].user}
    BY <1>3, <1>4, <1>5 DEF IInv, Undisturbed, Knows
  <2>2. r \in Answers(rpc[h].user) /\ \A v : Answers(v)' = Answers(v)
    BY <1>3, <2>1, IdsKept
  <2>3. HasAnswer(h)'
    BY <1>2, <1>4, <2>2 DEF HasAnswer, Live
  <2>4. QED  BY <1>4, <2>1, <2>3 DEF Knows
<1>6. QED  BY <1>3, <1>4, <1>5, UndisturbedStep DEF IInv, Looking

LEMMA LookRight ==
  ASSUME IInv, NEW h \in Handlers, CheckStatus(h) \/ CountTuples(h) \/ GetValue(h)
  PROVE  Undisturbed'
<1>1. UNCHANGED <<rows, table, pg_result>> /\ rpc \in [Handlers -> Logins]
  BY DEF CheckStatus, CountTuples, GetValue, database, IInv, Types, TypeOK
<1>2. \A v : IdsOf(v)' = IdsOf(v) /\ Answers(v)' = Answers(v)
  BY <1>1, IdsKept
<1>. DEFINE r == pg_result.result
<1>3. ASSUME rpc[h].alone, rpc[h].pc \in {"status", "count", "value"}
      PROVE  /\ rpc[h].id = NoId /\ HasAnswer(h) /\ Found = {r} /\ r \in Answers(rpc[h].user)
             /\ r # Failure =>
                  /\ r.status = "tuples" /\ (r.ids = <<>> <=> IdsOf(rpc[h].user) = {})
                  /\ r.ids # <<>> => r.ids[1] \in IdsOf(rpc[h].user)
             /\ rpc[h].failed <=> r = Failure
             /\ rpc[h].pc \in {"count", "value"} => ~rpc[h].failed
  <2>1. rpc[h].id = NoId /\ HasAnswer(h) /\ (rpc[h].pc \in {"count", "value"} => ~rpc[h].failed)
    BY <1>3 DEF IInv, Undisturbed, Knows
  <2>2. QED  BY <2>1, FindsAnswer, RightAnswer DEF HasAnswer
<1>4. CASE CheckStatus(h)
  <2>1. PICK f \in Found : rpc' = [rpc EXCEPT ![h].pc = IF f.status = "tuples" THEN "count" ELSE "refuse"]
    BY <1>4 DEF CheckStatus, Goto
  <2>. DEFINE pc == IF f.status = "tuples" THEN "count" ELSE "refuse"
  <2>2. pc \in Looking /\ rpc[h].pc = "status"
    BY <1>4 DEF Looking, CheckStatus, At
  <2>3. /\ rpc'[h].pc = pc /\ LoginsKept(h) /\ rpc'[h].user = rpc[h].user
        /\ rpc'[h].id = rpc[h].id /\ rpc'[h].alone = rpc[h].alone
        /\ rpc'[h].failed = rpc[h].failed
    <3>1. rpc' = [rpc EXCEPT ![h].pc = pc]
      BY <2>1
    <3>. HIDE DEF pc
    <3>. QED  BY <1>1, <2>2, <3>1, AfterGoto
  <2>4. ASSUME rpc'[h].alone PROVE Knows(h)'
    <3>1. CASE r = Failure
      BY <1>3, <2>1, <2>2, <2>3, <2>4, <3>1 DEF Failure, Knows, NotFound
    <3>2. CASE r # Failure
      <4>1. rpc'[h].pc = "count"
        BY <1>3, <2>1, <2>2, <2>3, <2>4, <3>2
      <4>2. rpc'[h].id = NoId /\ ~rpc'[h].failed /\ HasAnswer(h)'
        BY <1>1, <1>2, <1>3, <2>2, <2>3, <2>4, <3>2 DEF HasAnswer
      <4>3. QED  BY <4>1, <4>2 DEF Knows
    <3>3. QED  BY <3>1, <3>2
  <2>5. QED  BY <1>1, <2>2, <2>3, <2>4, UndisturbedStep DEF IInv, Looking
<1>5. CASE CountTuples(h)
  <2>1. PICK f \in Found : rpc' = [rpc EXCEPT ![h].pc = IF f.ids = <<>> THEN "refuse" ELSE "value"]
    BY <1>5 DEF CountTuples, Goto
  <2>. DEFINE pc == IF f.ids = <<>> THEN "refuse" ELSE "value"
  <2>2. pc \in Looking /\ rpc[h].pc = "count"
    BY <1>5 DEF Looking, CountTuples, At
  <2>3. /\ rpc'[h].pc = pc /\ LoginsKept(h) /\ rpc'[h].user = rpc[h].user
        /\ rpc'[h].id = rpc[h].id /\ rpc'[h].alone = rpc[h].alone
        /\ rpc'[h].failed = rpc[h].failed
    <3>1. rpc' = [rpc EXCEPT ![h].pc = pc]
      BY <2>1
    <3>. HIDE DEF pc
    <3>. QED  BY <1>1, <2>2, <3>1, AfterGoto
  <2>4. ASSUME rpc'[h].alone PROVE Knows(h)'
    <3>1. rpc'[h].id = NoId /\ ~rpc'[h].failed /\ HasAnswer(h)'
      BY <1>1, <1>2, <1>3, <2>2, <2>3, <2>4 DEF HasAnswer
    <3>2. CASE r.ids = <<>>
      BY <1>2, <1>3, <2>1, <2>2, <2>3, <2>4, <3>1, <3>2 DEF Knows, NotFound
    <3>3. CASE r.ids # <<>>
      BY <1>2, <1>3, <2>1, <2>2, <2>3, <2>4, <3>1, <3>3 DEF Knows
    <3>4. QED  BY <3>2, <3>3
  <2>5. QED  BY <1>1, <2>2, <2>3, <2>4, UndisturbedStep DEF IInv, Looking
<1>6. CASE GetValue(h)
  <2>1. PICK f \in Found :
          f.ids # <<>> /\ rpc' = [rpc EXCEPT ![h].pc = "clear", ![h].id = f.ids[1]]
    BY <1>6 DEF GetValue
  <2>2. rpc[h].pc = "value" /\ f.ids[1] \in Nat
    <3>1. f \in Narrow
      BY <2>1, FoundNarrow DEF IInv, Types
    <3>2. QED  BY <1>6, <2>1, <3>1 DEF GetValue, At, Narrow, Results, Ids
  <2>3. /\ rpc'[h].pc = "clear" /\ LoginsKept(h) /\ rpc'[h].user = rpc[h].user
        /\ rpc'[h].id = f.ids[1] /\ rpc'[h].alone = rpc[h].alone
        /\ rpc'[h].failed = rpc[h].failed
    BY <1>1, <2>1, <2>2, AfterValue
  <2>4. ASSUME rpc'[h].alone PROVE Knows(h)'
    <3>1. f.ids[1] \in IdsOf(rpc[h].user)
      BY <1>3, <2>1, <2>2, <2>3, <2>4
    <3>2. IsFound(h)'
      BY <1>2, <1>3, <2>2, <2>3, <2>4, <3>1 DEF IsFound
    <3>3. QED  BY <2>3, <3>2 DEF Knows
  <2>5. QED  BY <1>1, <2>2, <2>3, <2>4, UndisturbedStep DEF IInv, Looking
<1>7. QED  BY <1>4, <1>5, <1>6

LEMMA ClearRight ==
  ASSUME IInv, NEW h \in Handlers, Clear(h)
  PROVE  Undisturbed' /\ \A g \in given' \ given : g[2] \in IdsOf(g[1])
<1>1. /\ rpc[h].pc \in {"clear", "refuse"} /\ rpc \in [Handlers -> Logins]
      /\ rpc' = [rpc EXCEPT ![h].pc = "reply"] /\ UNCHANGED <<rows, table>>
  BY DEF Clear, At, Goto, database, IInv, Types, TypeOK
<1>2. /\ rpc'[h].pc = "reply" /\ LoginsKept(h) /\ rpc'[h].user = rpc[h].user
      /\ rpc'[h].id = rpc[h].id /\ rpc'[h].alone = rpc[h].alone
      /\ rpc'[h].failed = rpc[h].failed
  BY <1>1, AfterGoto
<1>3. \A v : IdsOf(v)' = IdsOf(v)
  BY <1>1, IdsKept
<1>4. rpc[h].alone => (rpc[h].pc = "clear" /\ IsFound(h)) \/ (rpc[h].pc = "refuse" /\ NotFound(h))
  BY <1>1 DEF IInv, Undisturbed, Knows
<1>5. ASSUME rpc'[h].alone PROVE Knows(h)'
  <2>1. IsFound(h)' \/ NotFound(h)'
    BY <1>2, <1>3, <1>4, <1>5 DEF IsFound, NotFound
  <2>2. QED  BY <1>2, <2>1 DEF Knows
<1>6. Undisturbed'
  BY <1>1, <1>2, <1>5, UndisturbedStep DEF IInv, Looking
<1>7. ASSUME NEW g \in given' \ given PROVE g[2] \in IdsOf(g[1])
  <2>1. rpc[h].alone /\ rpc[h].id # NoId /\ g = <<rpc[h].user, rpc[h].id>>
    BY <1>7 DEF Clear
  <2>2. IsFound(h)
    BY <1>4, <2>1 DEF NotFound
  <2>3. QED  BY <2>1, <2>2 DEF IsFound
<1>8. QED  BY <1>6, <1>7

LEMMA SendRight ==
  ASSUME IInv, NEW h \in Handlers, SendQuery(h)
  PROVE  Undisturbed'
<1>1. rpc[h].pc = "send" /\ UNCHANGED <<rows, table, pg_result>>
  BY DEF SendQuery, At, database
<1>2. ASSUME NEW g \in Handlers, rpc'[g].alone
      PROVE  /\ Knows(g)'
             /\ rpc'[g].pc \in Looking => \A k \in Handlers \ {g} : rpc'[k].pc \notin Looking
  <2>1. CASE g = h
    <3>1. /\ rpc'[h].pc = "receive" /\ rpc'[h].id = rpc[h].id
          /\ rpc'[h].user = rpc[h].user /\ rpc'[h].crossed = {rpc[h].user}
          /\ \A k \in Handlers : rpc[k].pc \notin Looking
      BY <1>2, <2>1, AfterSend DEF IInv
    <3>2. rpc[h].id = NoId
      BY <1>1 DEF IInv, Undisturbed, Knows
    <3>3. Knows(h)'
      BY <3>1, <3>2 DEF Knows
    <3>4. \A k \in Handlers \ {h} : rpc'[k].pc = rpc[k].pc
      BY AfterSend DEF IInv
    <3>5. QED  BY <2>1, <3>1, <3>3, <3>4
  <2>2. CASE g # h
    <3>1. rpc[g].pc \notin Looking /\ rpc'[g] = rpc[g]
      BY <1>2, <2>2, AfterSend DEF IInv
    <3>2. Knows(g)'
      BY <1>1, <1>2, <3>1, KnowsKept DEF IInv, Undisturbed
    <3>3. QED  BY <3>1, <3>2
  <2>3. QED  BY <2>1, <2>2
<1>3. ASSUME NEW g \in Handlers, rpc'[g].pc = "send" PROVE rpc'[g].alone
  <2>1. rpc'[g] = rpc[g] \/ rpc[g].pc \in Looking
    BY <1>3, AfterSend DEF IInv
  <2>2. rpc[g].pc = "send" /\ rpc'[g] = rpc[g]
    BY <1>3, <2>1, AfterSend DEF IInv, Looking
  <2>3. QED  BY <2>2 DEF IInv, Undisturbed
<1>4. QED  BY <1>2, <1>3 DEF Undisturbed

LEMMA StepUndisturbed ==
  ASSUME IInv, [Next]_vars
  PROVE  Undisturbed'
<1>1. CASE main = "serve" /\ main' = "serve"
  <2>1. UNCHANGED <<rows, table>>
    BY <1>1, TableStep DEF IInv
  <2>2. ASSUME NEW h \in Handlers, NEW u \in Users, CheckIfRegistered(h, u)
        PROVE  Undisturbed'
    <3>1. /\ LoginsKept(h) /\ rpc'[h].pc \in {"send", "reply"} /\ rpc'[h].id = NoId
          /\ rpc'[h].pc = "reply" => rpc'[h].failed
          /\ rpc'[h].alone
      BY <2>2, AfterCheck DEF IInv, Types, TypeOK
    <3>2. Knows(h)'
      BY <3>1 DEF Knows, NotFound
    <3>3. QED
      BY <2>1, <2>2, <3>1, <3>2, UndisturbedStep DEF IInv, CheckIfRegistered, Looking
  <2>3. ASSUME NEW h \in Handlers, Reply(h) PROVE Undisturbed'
    <3>1. rpc'[h] = Idle /\ LoginsKept(h)
      BY <2>3, AfterIdle DEF Reply, IInv, Types, TypeOK
    <3>2. Knows(h)' /\ rpc'[h].pc \notin Looking /\ rpc'[h].pc # "send"
      BY <3>1 DEF Knows, Idle, Looking
    <3>3. QED  BY <2>1, <2>3, <3>1, <3>2, UndisturbedStep DEF IInv, Reply
  <2>4. CASE UNCHANGED vars
    <3>1. \A h \in Handlers : Knows(h) => Knows(h)'
      BY <2>1, <2>4, KnowsKept DEF vars
    <3>2. QED  BY <2>4, <3>1 DEF vars, IInv, Undisturbed
  <2>5. ~Starting /\ ~Crash
    BY <1>1 DEF Starting, Start, TryConnect, CreateUsersTableIfNotExist, RegisterNewUser, Crash
  <2>6. QED
    BY <2>2, <2>3, <2>4, <2>5, SendRight, ReceiveRight, LookRight, ClearRight
    DEF Next, FindUserByCreds
<1>2. CASE ~(main = "serve" /\ main' = "serve")
  <2>1. rpc' = [h \in Handlers |-> Idle]
    <3>1. CASE main' # "serve"
      BY <3>1, StepTypes DEF IInv, Types, Running
    <3>2. CASE main # "serve" /\ main' = "serve"
      <4>1. Starting
        BY <3>2 DEF Next, vars, Starting, Start, TryConnect, CreateUsersTableIfNotExist, Crash,
           CheckIfRegistered, FindUserByCreds, SendQuery, ReceiveResult, CheckStatus,
           CountTuples, GetValue, Clear, Reply
      <4>2. rpc' = rpc
        BY <4>1 DEF Starting, Start, TryConnect, CreateUsersTableIfNotExist, RegisterNewUser
      <4>3. QED  BY <3>2, <4>2 DEF IInv, Types, Running
    <3>3. QED  BY <1>2, <3>1, <3>2
  <2>2. \A h \in Handlers : rpc'[h] = Idle
    BY <2>1
  <2>3. \A h \in Handlers : Knows(h)' /\ rpc'[h].pc \notin Looking /\ rpc'[h].pc # "send"
    BY <2>2 DEF Knows, Idle, Looking
  <2>4. QED  BY <2>3 DEF Undisturbed
<1>3. QED  BY <1>1, <1>2

LEMMA StepGiven ==
  ASSUME IInv, [Next]_vars
  PROVE  GivenInTable'
<1>1. \A g \in given' \ given : g[2] \in IdsOf(g[1])
  <2>1. CASE \E h \in Handlers : Clear(h)
    BY <2>1, ClearRight
  <2>2. CASE given' = given
    BY <2>2
  <2>3. (\E h \in Handlers : Clear(h)) \/ given' = given
    BY DEF Next, vars, Starting, Start, TryConnect, CreateUsersTableIfNotExist, Crash,
       RegisterNewUser, CheckIfRegistered, FindUserByCreds, SendQuery, ReceiveResult,
       CheckStatus, CountTuples, GetValue, Reply
  <2>4. QED  BY <2>1, <2>2, <2>3
<1>2. \A u : IdsOf(u) \subseteq IdsOf(u)'
  BY TableStep, IdsKept DEF IInv
<1>3. QED  BY <1>1, <1>2 DEF IInv, GivenInTable

LEMMA LookupInvariant == Spec => []IInv
<1>1. Init => IInv
  BY InitTypes, InitRight DEF IInv
<1>2. IInv /\ [Next]_vars => IInv'
  BY StepTypes, TableStep, StepUndisturbed, StepGiven DEF IInv
<1>3. QED  BY <1>1, <1>2, PTL DEF Spec

(* The answer to a login that nobody disturbed is right, for any number of handlers and
   starts, and whatever other logins do before and after it: a result that was freed or
   replaced does not come back, and a login whose query failed, or that found no
   connection, is refused (AuthentificationService.cpp:18-21, PsqlManager.cpp:84-109). *)
THEOREM AloneIsAnsweredRight == Spec => []UndisturbedIsRight
<1>1. IInv => UndisturbedIsRight
  BY DEF IInv, Undisturbed, Knows, NotFound, IsFound, UndisturbedIsRight
<1>2. QED  BY <1>1, LookupInvariant, PTL

(* Registering the predefined users again at every start changes nobody's id, although a
   refused row uses up a number: the logins that ran undisturbed, in any number of runs of
   the server, were told one id to a user and one user to an id
   (ServerManager.cpp:25-36, PsqlManager.cpp:57-81). *)
THEOREM IdsAreForLife == Spec => []OneIdForLife
<1>1. IInv => OneIdForLife
  <2>1. ASSUME IInv, NEW a \in given, NEW b \in given
        PROVE  a[1] = b[1] <=> a[2] = b[2]
    <3>1. PICK r \in rows : r.user = a[1] /\ r.id = a[2]
      BY <2>1 DEF IInv, GivenInTable, IdsOf
    <3>2. PICK s \in rows : s.user = b[1] /\ s.id = b[2]
      BY <2>1 DEF IInv, GivenInTable, IdsOf
    <3>3. QED  BY <2>1, <3>1, <3>2 DEF IInv, OneRowEach
  <2>2. QED  BY <2>1 DEF OneIdForLife
<1>2. QED  BY <1>1, LookupInvariant, PTL
================================================================================
