# simple_messenger in TLA+

This directory models the messenger of this repository in TLA+, checks small
instances of it with TLC, and proves theorems about the models, for every value
of their constants, with TLAPS. `PROJECT.json` is the index: the components, the
runs, the lines of source each definition models, the mutants that show each
property can fail, the hazards, the findings and the theorems.

    tlc -workers 2 -config MCThreadManager.cfg MCThreadManager     # one run
    tlapm ThreadManagerProofs.tla                                  # one proof module

## 1. The system

| Part | State it keeps | Operations | Who uses it |
|---|---|---|---|
| `CircularBuffer` (`common/utilities`) | slots, `begin_pos`, `end_pos`, `size`, two mutexes | `push`, `pop`, `is_empty`, `is_full`, `operator[]`, a move constructor | task queue, post boxes, UDP queues |
| `ThreadManager` (`common/thread_manager`) | task queue, worker threads, mutex and condition variable, `is_running` | `schedule_task`, the worker loop, the destructor | TCP logins |
| `GrpcEndpointServer` (`server_app/endpoint`) | `post_box`: a map from user id to a 32-slot ring, `post_box_mtx` | `acceptConnection`, `receiveMessage`, `streamIncomingMessages`, each in a gRPC thread | clients, by RPC |
| `AuthentificationService`, `PsqlManager` | one libpq connection, one `pg_result`; the table `users` in PostgreSQL | the constructor's registrations, `checkIfRegistered`, `findUserByCreds` | `acceptConnection`; the TCP login |
| client (`client_app`) | user id, text buffer, a listener and a sender thread | log in, send what is typed until "exit", show what the stream brings | its user |
| message processing (`common/message_processor`) | none | an envelope to protobuf and back; time stamps | every endpoint |
| UDP endpoints (`common/endpoint`) | three queues and one output buffer per endpoint, a sender and a listener thread | `sendEnvelope`, `tryReceiveEnvelope`, retransmission, the destructor | `ServerManager::checkMail` |
| TCP login (`ServerTcpEndpoint`, `TcpEndpointBase`) | `client_info_storage`, `cis_mutex` | accept, authenticate in a pool task, look a client up | `ServerManager` |
| `ServerManager` | the two older endpoints | start, `runEventLoop` (gRPC), `findOnlineClient`, `checkMail` | `main` |
| singletons, logger, build scripts | one object each; none; none | - | everybody |

How they interact. A client logs in by RPC; the server looks the credentials up in
the database and gives the user a post box. The client's sender thread sends each
line by RPC, which a handler pushes to the recipient's box; its listener thread
keeps one stream open, whose handler polls the box every 200 ms. The text "exit"
erases the sender's box, the stream finds its user offline and ends, and so does
the client. Since the event loop became gRPC, nothing in the program drives the
TCP login, the UDP endpoints and `checkMail`; they are complete, and compiled. There a
main thread was to accept connections, each a task of the pool that authenticates one
client and enters it in `client_info_storage`, and to relay envelopes that came over
UDP to the address the recipient logged in from.

What is hard here:

- *Concurrency.* Handlers look a box up under `post_box_mtx` and use it without;
  the ring counts under one mutex and is asked under another; two threads fill
  one UDP output buffer; logins share one `pg_result`; the relay reads a vector the
  logins make grow.
- *Failure.* A datagram or its acknowledgement is lost, late or doubled; `Write`
  to a client that has gone fails unnoticed; the database fails, and the server
  starts again over the same table; a login request comes in part, or never.
- *Ordering and timeouts.* A stale acknowledgement meets a retransmission; two
  streams empty one box; a new login comes between a logout and the next poll.
- *Limits.* Full queues drop, refuse, spin or sleep, each component in its own way.
- *Termination.* Destructors join threads that sleep, poll or wait; a client joins
  a thread that waits for the server.

What makes each part correct:

- ring: linearizable to a bounded FIFO; pool: each task runs once, in order, even
  at shutdown, and no wakeup is lost;
- gRPC server: mail goes only to its user, in order, is neither doubled nor lost
  while the box lives, and is refused only for lack of space;
- authentification: one id per account for life, and one's own;
- client and server: what is typed is shown once, as typed, in order, and in the
  end; "exit" ends the client;
- UDP: acknowledged means read by the addressee; every wait ends;
- TCP login: accepted means that the credentials came, and online; every connection is
  closed, and mail goes to its recipient.

## 2. The modules

| Module | Models | MC module and runs | Proofs |
|---|---|---|---|
| `BoundedFifo` | what a ring promises: calls that take effect at one instant | property of `circular_buffer` | in `CircularBufferProofs` |
| `CircularBuffer` | `CircularBuffer.hpp`, statement by statement | `circular_buffer` | `CircularBufferProofs` |
| `ThreadManager` | the pool | `thread_pool` | `ThreadManagerProofs` |
| `GrpcServer` | post boxes and RPC handlers | `grpc_order`, `grpc_logout`, `grpc_recycled` | `GrpcServerProofs`, `GrpcMailProofs` |
| `MessageProcessing` | conversions, as operators | through `messenger` | - |
| `PostOffice` | what the messenger promises its users | property of `messenger` | in `MessengerProofs` |
| `Messenger` | client processes composed with `GrpcServer` | `messenger` | `MessengerProofs` |
| `UdpEndpoint` | the UDP endpoints and a network | `udp_stream`, `udp_server` | `UdpEndpointProofs` |
| `Authentification` | start of the server, database, concurrent logins | `auth_logins`, `auth_concurrent` | `AuthentificationProofs` |
| `TcpLogin` | TCP login and mail relay, composed with `ThreadManager` | `tcp_login`, `tcp_torn` | `TcpLoginProofs` |

**CircularBuffer.** A thread's `pc` stands between two statements; `rw_mtx` is a
variable, `ronly_mtx` needs none because what it guards is one read. `Linearizable`
says that the ring implements `BoundedFifo`: the refinement mapping reads the queue
off the positions, and a `push` takes effect when `size` is incremented.
`operator[]`, which nothing calls, is left out (see section 6).

**ThreadManager.** A worker tests the wait's predicate and goes to sleep in one
step, as the mutex makes it. `schedule_task` on a full queue sleeps with the mutex
released and tries again; `notify_all` is a step of its own, after the push. The
destructor sets `is_running`, notifies and joins. Spurious wakeups are allowed.

**GrpcServer.** `rpc[h]` holds the handler's next step and locals. What holds
`post_box_mtx` is one step; the `operator[]`, `push`, `pop` and `Write` that follow
it without the mutex are one step each. A post box is the FIFO that `CircularBuffer`
is shown to implement. The map's node is explicit: `post_box[u]` names it, a handler
keeps the one it found, and an erased node may still be in a handler's hand.
`Abort` is what undefined behaviour may come to: a lookup racing with a change of
the map, or a use of an erased entry, either goes on as modelled or ends the
process. `Recycle` says whether the heap gives out memory a node has lived in; when
it does, a new box starts with the counters left there, because the ring's move
constructor sets none. The runs of this module have `Recycle = TRUE`, as the code does; `messenger`
has `FALSE`. A stream looks at no result of `Write`.

**Messenger.** Extends `GrpcServer`: a client's action includes the start of the
handler's call, the handler's last step includes the reply. gRPC gives every call a
thread, so the handlers are one for each client's calls and one for its stream; the
stream's handler outlives the client. `wire[c]` is what was written and not read. A
user may start several clients, at once or in turn, and a client may be killed.
Each text really goes through the four conversions (`MessageProcessing`), with
zero-terminated payloads of fixed size.

**PostOffice.** The stage of every message (unsent, sent, refused, waiting, shown, lost),
what each screen has shown, and the users whose delivery is no longer promised. It has
no queue: a waiting message may be shown at any time on a screen of its recipient, but
not before an older one of its sender, not twice, not after it was lost and not in
another wording; and mail is lost only if something has disturbed its recipient.
`Messenger` maps to it: the stage follows from the places a message is in (boxes, a
stream's hand, the wire, screens), and a user is disturbed after a logout, the death of
a client, or the server's.

**UdpEndpoint.** Sender, listener and application thread of every endpoint.
`sendDataGram` sets the shared buffer's type, its stamp and its payload, and then sends what
is there, four steps that two threads may interleave; "payload" stands for all that
`putEnvToProtoBuf` converts after the stamp. An acknowledgement's payload is empty. `read`
records who has read which stamp with which payload. `checkAckQueue` looks at one
acknowledgement per attempt, and puts one that does not match back, in a second
step. `storeEnvToInQueue` and `storeTstampToAckQueue` are a push that may fail and a
pop of the oldest, in turn.

**Authentification.** The constructor of `ServerManager` registers the predefined
users at every start, any part of which may fail; the table and its SERIAL counter
survive a crash, and a refused insertion uses up an id. A lookup is six steps that
share `pg_result`. A freed result may still read as it was, or as one being received.
A login is marked `alone` when it overlaps no other; `UndisturbedIsRight` and `OneIdForLife`
are about those, `GrantedIsOwn`, which the code violates, about all. Credentials are a model
value, and a lookup finds a row by equality: that the query's text is the credentials put
between quotes as they are (`PsqlManager.cpp:85-87`) is left out.

**TcpLogin.** Extends `ThreadManager`: a task is a connection, the one caller is the main
thread, which accepts, looks mail up and calls the destructor, one at a time. A worker
that has taken a task goes through `authentifyClient` (receive, look up, answer, register,
close); only `Close` returns to the pool. `request[c]` is what one `recv` finds: nothing
yet, a part that breaks off in the header or the credentials, enough to hold them, or the end of
the connection. What has not come reads as zeros, and an envelope has nothing but zeros behind the
password, so "enough" is as good as the whole and a part is not. A lookup starts with
`StartLookup` and ends with `FindUserByCreds`, and those that overlap share one result: each may
find what any of them has asked for, or was offered (`login[w].met`), or none, since the database
may fail. That is what `Authentification` shows of `pg_result`, seen from here; that libpq may
end the process over it is not in this module. `told[c]` is the id in the answer, and `mixed`
the connections whose lookups overlapped another. `findOnlineClient` holds no mutex:
`lookup.seen` is the vector it began to walk over, and `lookup.moved` that a login has
made the vector move since. With `Torn`, an entry may then be gone when it is read, or
its address when it is copied; a walk from the old block towards the new one's end is
left out. An entry is never removed, so when a user logs in from a second place mail goes
on to the first; and the sender has its acknowledgement before the recipient is looked up.

### Abstractions

- A message, task or item is a model value; only `MessageProcessing` looks at texts.
- UDP stamps are unique. In the code they are microseconds in 32 bits, which wrap
  after 71 minutes; the hazard is listed and not modelled yet.
- Memory in which no post box has lived yet reads as zeros when a node is built there; what
  else the heap may have used it for is left out, so that the uninitialised counters show
  only what an earlier box has left.
- Sleeps and poll periods are steps that may take any time.
- Socket and file errors, logging, and output are left out. So are words longer than
  the client's buffer, which `scanf` writes past its end.
- `History` variables (`fate`, `accepted`, `status`, `typed`, ...) never guard an
  action that models code, except that a message is sent once under one name.

## 3. The runs

Twelve: seven must pass, five must find the one property they check violated.

| Run | Question | Bounds |
|---|---|---|
| `circular_buffer` | Is the ring a FIFO under every interleaving? | 2 threads, 2 items, 3 slots: it wraps, fills and empties, with both threads inside calls |
| `thread_pool` | Order, completeness, wakeups, termination | 2 workers, 2 callers, 4 tasks, queue of 2: callers must wait for room, workers must sleep, and the destructor may come with tasks queued |
| `grpc_order` | Is mail accounted for? Who takes it from a user, its order, the way out of the box | 1 user, 3 messages, a box of 2, 2 handlers, 2 nodes whose memory is used again |
| `grpc_logout` | Is a user offline after a logout? **No** | 1 user, 1 message, 2 handlers, 2 nodes |
| `grpc_recycled` | Is only a full box full? **No** | 1 user, 2 messages, 1 handler, 2 nodes |
| `messenger` | End to end: is it a post office? Whose mail, shown once, as typed, in order, in the end | 2 clients, 2 users, 2 words and "exit", 1 client that may be killed |
| `udp_stream` | Retransmission, full queues, destructors, termination | 2 messages, queues of 1, 2 attempts, acknowledgements looked at twice, 1 datagram in flight, which may arrive again and again |
| `udp_server` | Does acknowledged mean read when both ends send? **No** | 2 endpoints, a message each way |
| `auth_logins` | Right answers, and refusals, over crashes and failures | 3 accounts of which 2 are registered, 2 handlers, 2 starts |
| `auth_concurrent` | Does a login get its own id? **No** | the same, 1 start, and no crossed answers in libpq: `pg_result` alone suffices |
| `tcp_login` | Who is accepted, by which credentials, who is online, does every connection and the server end? | 3 connections, of two users and one that is silent, 2 workers, a pool queue of 1, 2 places in the kernel's queue, 1 envelope: the main thread must wait for room, and two logins look up and register at once |
| `tcp_torn` | Does relayed mail reach its recipient? **No** | the same |

Two workers with one silent client is the boundary of `LoginsEnd`: as many silent clients
as workers stop every login. `udp_stream` sends one way only, so that the buffer is never
shared; `udp_server` sends both ways, and one message each is enough to mix a datagram.
`RefusedOnlyWhenFull` and `RelayedToRecipient` are in no passing run: without the memory that is
used again, or given up by a vector that has moved, each would only repeat a guard of the model, and
with it the code violates them. What holds of the same places with such memory, `MailAccounted` and
`LostOnlyByLogout`, `OnlineByLogin` and `AcceptedIsOnline`, is checked with it. In `grpc_order` the
one user's logouts are the only ones; with two users and memory used again, one user's stream could pop
the other's mail, which is why the theorem about `LostOnlyByLogout` stops at the first logout of
anybody.

Named bounds: `Nodes` (the heap: enough that a free one is always left), `Limit` (words
typed at a client), `MaxStarts`, `InFlight`, `Attempts`, `AckLife`, `maxTcpConnections`
and the queue capacities. The code makes 5 attempts, looks 3 times at an acknowledgement,
has 8 places in the kernel's queue, 32 in a post box and 4 in the task queue and the UDP
queues; the actions only compare with "full", "empty" and "last", which the small values
reach at once. The runs with symmetry check safety only.
Deadlock is checked where the system has no end or a modelled one (`circular_buffer`,
`thread_pool`, `tcp_login`, `tcp_torn`); elsewhere everybody may have gone home, or the process been aborted.

### Fairness

Weak fairness of each thread's own steps (in `tcp_login` one condition for each worker, on
all it does in the pool and in a login together), and of nothing else: the operating system
runs every thread, and the code's sleeps, polls and calls return. No fairness on
what users, callers, the application, the network, crashes or spurious wakeups do.
`thread_pool` further assumes that a task returns. Under it TLC shows that tasks
start, `schedule_task` and the pool's destructor return, waiting mail leaves a box
that is being streamed, accepted mail is shown, "exit" ends the client, a UDP message
is acknowledged or given up, the listener finds room, and the UDP threads end. In
`tcp_login` a client that is not `Silent` sends its request or closes once it is
connected; of silent clients nothing is assumed, and `recv` waits for them. It also assumes a main
thread that goes on calling `tryAcceptConnection` and `checkMail` (`WF(MainStep)`): the loop
that did is not in the source any more, `runEventLoop` (`ServerManager.cpp:97-107`) now waits
for the gRPC server. So `LoginsEnd` is about the endpoint as a loop would drive it;
`ShutdownUnlessHeld` needs the workers and the destructor only.

Three of these carry a condition the code needs. `IsDelivered` and the second half
of `ShownOnceNoneLost` are about a recipient whose session is undisturbed: nobody
logged that user out, and no client of that user was killed. A killed client leaves
its stream behind, which goes on emptying the box into nothing, so the user's next
client shows only part of the mail. `ExitEndsClient` excuses a client whose user is
online again: by a new login that comes before the stream's next poll, or by the
race of `grpc_logout`; that client stays, reading.

## 4. The proofs

For all values of the constants, from the assumptions named in the modules:

| Theorem | States | Assumes |
|---|---|---|
| `RingTypes`, `RingIsConsistent` | types; positions, counter and slots agree at every statement; one thread is inside | |
| `RingImplementsFifo` | the ring refines `BoundedFifo` | |
| `PoolTypes`, `PoolStartsInOrder`, `PoolLosesNoWakeup`, `PoolFinishesItsWork` | the pool's four safety properties | |
| `TypesAreCorrect`, `NobodyOnlineWithoutLogin` | the gRPC server: types and capacity; no entry without a login | |
| `MailIsAccountedFor` | an accepted envelope is in one place until it is written or lost with its box | |
| `MailLostOnlyByLogout` | accepted mail is in its recipient's box, or with the recipient's stream | nobody has logged out |
| `MailStaysWithItsUser`, `MailComesInOrder` | mail only for its user; in the order it was accepted | `~Recycle`, or nobody has logged out |
| `MessengerRunsTheServer` | clients and server together implement the server's specification | |
| `MessengerTypes`, `ShownIsTyped`, `ShownAsTypedInOrder`, `OnceAndNotLost` | types; what is shown is what was typed, in order, once, and none is lost to an undisturbed user | `~Recycle` |
| `MessengerIsAPostOffice` | clients and server together refine `PostOffice` | `~Recycle` |
| `LookupTypes`, `IdsAreForLife`, `AloneIsAnsweredRight` | types; to logins nobody overlaps, one id to an account, for life; such a login is told its own id, or refused for want of a row, an answer or a connection | |
| `UdpTypes` | types and capacities of every endpoint | |
| `OneWayAcknowledgedIsRead` | acknowledged means read, with its payload, for one endpoint | it is sent nothing, and sends to endpoints that send nothing |
| `AcknowledgedIsRead` | the same for all endpoints | none both sends and is sent |
| `LoginUsesThePool`, `LoginTypesAreCorrect` | the TCP login implements the pool's specification; types | |
| `OnlyCredentialsGrant` | accepted only as a user whose credentials came complete, and as its own if its lookup overlapped no other | |
| `EveryEntryByLogin`, `AcceptedGetsOnline`, `ServerClosesAll` | an entry for an acceptance of its own; "accepted" means online; a stopped server leaves no connection open | |

`~Recycle` is not a property of the code but of its luck with the heap: run `grpc_recycled`
shows what a ring built in recycled memory does. The server's theorems therefore say what
holds with every heap, which is until the first logout, too; those of the messenger are about
heaps without reuse only. That nobody both sends and is sent is not so in the program's
design either, where the server acknowledges and relays; `udp_server` shows what happens there.

*Ring.* `RingConsistent` is inductive together with the types: `end_pos` is `size` slots
past `begin_pos`, or one more while the owner of `rw_mtx` stands between moving a position
and counting; what the owner has checked still holds. The refinement then follows
statement by statement.

*Pool.* `StartedInOrder` and `NoLostWakeup` are close to inductive.
`AllDoneAtEnd` needs `Accounted`, that a started task is finished or in the hands of a
worker that runs, and `Shutdown`, that a worker has exited only from the empty queue of a
stopped pool, to which nobody is adding.

*gRPC server.* The invariant `Apart` says of every node who it is for: whoever reaches it,
through the map or through a reference a handler kept, is one and the same user, and what it
holds is that user's mail. It holds as long as no memory is used again (`NoReuse`): with
`Recycle`, until somebody logs out, for until then a free node has never been written to
(`Clean`), and a new box starts empty although the constructor leaves its counters as they are. After that a reference kept
over the logout can point into the box of the next user to log in. `MailLostOnlyByLogout` follows
mail from the push to the write in the same states: a second login finds the entry there. `MailAccounted` counts places, for which
`Tracked` says that there is one copy of an envelope, in a cell or in a hand, if and only if its
fate is "queued"; and `SentOnce`, that the call which delivers an envelope is the only one. It
needs no assumption on the heap. `InOrder` is about a user's first session, during which
`OneEntry` leaves the user one entry, and every handler that has found an entry of that user's
has found that one; it stands on `NoReuse` too.

*Messenger.* A client's step is a step of the server or leaves it alone, given that a client
calls only for a user, and sends only to a recipient, that it has (`ClientsOK`); so the server's
invariants may be used, and its theorems hold of the messenger: `OwnMail` and
`OnlineOnlyAfterLogin` among them, which run `messenger` checks. `ThreadsOK` says for whom
each handler runs: a stream for its client's user, and while the server is up its client is
reading or dead. `Numbered`: messages are numbered as they are typed, and the
one being delivered is its sender's latest. `SeenOnce`: a message that was written is on one wire or
on one screen, or belongs to a user one of whose clients was killed (`Orphaned`).
Order across sessions is the hard one, since a logout may leave a stream, or a pusher, with
an erased entry in its hand. `InSequence` says that every cell is in order; that what a stream may still
pop from an erased entry comes before what waits in the user's new one; that a sender who is about to
push to an erased entry has nothing in the new one, its calls being one at a time; and that
everything popped for a client comes before what waits where its stream reads.

*Post office.* The refinement adds `Boxed`, that mail waits in its recipient's entry until a
logout, and `StagesOK`, that a message's stage is one of the places it can be in. Each step then moves at
most one message a stage on, or loses some; what is lost (with a cell that is built
anew, on the wire of a client that is killed, or written for a dead one) is
a disturbed user's.

*Authentification.* Rows are unique in both columns, ids in use are below the counter, and
rows are never removed (`OneRowEach`, `GivenInTable`), whatever part of a start fails. `Undisturbed`
says that a handler marked alone has no company between sending its query and reading the
result, and that from the moment the result is received, and until it is freed, `pg_result`
holds the answer to the handler's own query; after that what it said is in the handler's hand.

*UDP.* `AckMeansRead` is not inductive, since the buffer may at any moment hold the
other thread's fields, in any mixture. The invariant `Traced` says where it does not: an endpoint
that is sent nothing acknowledges nothing, so its sender thread has the buffer to itself and what it
sends is whole; one that sends nothing puts only acknowledgements there, of what it has read. Between
such two (`Ways`), every datagram, queue and buffer holds mail with its own payload, or the
acknowledgement of mail that was read so. Of the other endpoints it says no more than their
types: they may mix what they like, to each other.

*TCP login.* Each step is one of the pool's or leaves the pool alone, so `LSpec => Spec` and
the pool's invariants may be used. `GrantedByCredentials` needs `Grounds`: everything that a running lookup
may find, and everything a worker is about to answer, is granted already; and what has been granted stays so
(`GrantsKept`), for requests are not taken back, and a lookup that was disturbed has been. A lookup that
begins among others offers them its user and is offered theirs, and all of them are `mixed` from then on.
`AcceptedIsOnline` needs `RegistersTold`, that the worker that is about to register does so for
the user it has told, and that entries stay.
`NoneLeftOpen` needs `InHand`: an open connection is being scheduled, queued, or in
the hands of a worker that runs; at the end the pool's `Shutdown` excludes all three.
`OnlineByLogin` compares two counts. Between them stands the set `Registered`, of the connections
that were accepted and are not about to register: `Register` adds one entry and one such connection,
and nothing else touches either. That no connection is counted twice comes from the pool,
where a task is queued once and run by one worker (`ScheduledOnce`, `RunOnce`); that what is registered was
told from `Answered`; and that the sets can be counted, though there may be
infinitely many tasks, from `Connections`: at any time finitely many clients have connected.

Only model-checked: everything temporal beyond invariance (liveness under fairness,
`ENABLED`), which the prover does not reach, that is `TasksStart`, `SchedulingEnds`, `ShutdownEnds`,
`MailIsCollected`, `IsDelivered`, `ExitEndsClient`, `SendingEnds`, `StoringEnds`, `ThreadsEnd`,
`LoginsEnd` and `ShutdownUnlessHeld`; and the findings, which are counterexamples. Every invariant that a
passing run checks is stated by a theorem, and so are the refinements; `LostOnlyByLogout`, `OwnMail`,
`InOrder` and `AckMeansRead`, and those of the messenger, under the conditions in the table. No module declares a
RECURSIVE operator, so that each can be proved about; what a definition computes by induction
over data is out of reach of the installed provers.

## 5. Findings

1. `GrpcServer.cpp:67`, `:100` (`grpc_logout`). A message or a stream that passed its
   check before a logout has `operator[]` create the user's box again. The user is
   online without a client, and the client's stream never ends.
2. `CircularBuffer.hpp:27` (`grpc_recycled`). The move constructor initialises neither
   positions nor `size`. A box built in recycled memory may start full.
3. `UdpEndpointBase.cpp:79` (`udp_server`). Sender thread and application fill one
   buffer without a lock: between two endpoints that both send, a message can go out with an
   acknowledgement's empty payload, and is acknowledged; with two peers, one can be sent, and
   acknowledge, another's message.
4. `PsqlManager.cpp:89` (`auth_concurrent`). Two logins at once share `pg_result`: one
   is granted the other's id.
5. `ServerManager.cpp:58` (`tcp_torn`). `findOnlineClient` walks the vector of clients
   online without `cis_mutex` while a login may make it move: mail can go to nobody.

Seen while modelling, and not the subject of a run: the repository's README offers
the client ids 0 to 2, but the server registers only the first two of the three
accounts the client knows.

## 6. Not modelled

- *`operator[]` of the ring*: nothing calls it and nothing says what it promises. It wraps at
  `size` where the ring wraps at its capacity, so it would find a wrong slot of many rings and divide by
  zero on an empty one (`CircularBuffer.hpp:46`).
- *The text of the SQL queries*: put together from the credentials by concatenation
  (`PsqlManager.cpp:57-59, 85-87`). In the models credentials are values that equal a row's or do not.
- *Singletons*: wrappers round one object, created before any thread uses it.
- *Logger*: writes text nobody reads back. *Build and deployment*: scripts.
- *gRPC, libpq, PostgreSQL, the heap, the network*: external, modelled by what the
  code may rely on; a broken connection between two live processes is left out, and so
  are socket resets.
- *UDP, two things*: that a message whose acknowledgement was lost is read twice, which
  nothing in the code forbids (`read` is a set); and the width of the time stamps.

## 7. Plan

Done, in this order: the ring and its abstract FIFO; the gRPC server; the pool; the
UDP endpoints; authentification; the clients over the server; the TCP login with the
relay; the post office; a theorem for every invariant, and the refinements. Next:

1. What survives `Recycle`, in which a stream may write what nobody sent: that no message is
   shown twice ought to, for `MailIsAccountedFor` does.
2. Abstract specifications, with refinement proofs, of the UDP endpoints (a lossy
   channel with acknowledgements) and of the login (a table of users).
3. 32-bit time stamps in `UdpEndpoint`: which properties survive a repeated stamp.
