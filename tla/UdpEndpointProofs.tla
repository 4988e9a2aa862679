--------------------------- MODULE UdpEndpointProofs ---------------------------
(***************************************************************************)
(* Proofs about UdpEndpoint.  The inductive invariant follows each message *)
(* on its way.  In general it says little: two threads fill the output     *)
(* buffer of an endpoint and mix what they put there.  But an endpoint     *)
(* that is sent nothing acknowledges nothing, so that its sender has the   *)
(* buffer to itself; and one that sends nothing has only acknowledgements  *)
(* to put there.  Between such two, mail goes out whole, and an            *)
(* acknowledgement of m means that To[m] has read it.                      *)
(***************************************************************************)
EXTENDS UdpEndpoint, TLAPS

Own(e) == {m \in Msgs : From[m] = e}

\* Nobody sends to e, and those e sends to send nothing.
OneWay(e) ==
  /\ \A m \in Msgs : To[m] # e
  /\ \A m, k \in Msgs : From[m] = e => From[k] # To[m]
Ways == {e \in Endpoints : OneWay(e)}

ReadWhole(m) == <<To[m], m, m>> \in read

MailFor(e) ==
  {x \in Mail : /\ e \notin Ways
                /\ x.from \in Ways => /\ x.payload = x.stamp
                                      /\ From[x.stamp] = x.from /\ To[x.stamp] = e}
ReceiptsFor(e) ==
  {a \in Receipts : e \in Ways => ReadWhole(a.stamp)}
DatagramsFor(e) ==
  {d \in [type : Types, stamp : Msgs, payload : Stamps, from : Endpoints, to : Endpoints] :
     /\ d.to = e
     /\ e \in Ways => d.type = "ack" /\ ReadWhole(d.stamp)
     /\ d.from \in Ways => /\ d.type = "user" /\ d.payload = d.stamp
                           /\ From[d.stamp] = d.from /\ To[d.stamp] = e}

Filling == {"type", "stamp", "payload", "sendto"}

QueuesTraced(e) ==
  /\ inQueue[e] \in Seq(MailFor(e))
  /\ outQueue[e] \in Seq(Own(e))
  /\ ackQueue[e] \in Seq(ReceiptsFor(e))

SenderTraced(e) ==
  /\ pc[e]["sender"] \in {"wait", "exited", "check", "pushback"} \cup Filling
  /\ pc[e]["sender"] \notin {"wait", "exited"} =>
       /\ Sending(e) \in Own(e)
       /\ out[e]["sender"].type = "user" /\ out[e]["sender"].payload = Sending(e)
       /\ out[e]["sender"].to = To[Sending(e)]
  /\ pc[e]["sender"] = "pushback" => held[e] \in ReceiptsFor(e)

\* What e's application acknowledges has come from the one it is about to tell.
AppTraced(e) ==
  LET env == out[e]["app"]
  IN  /\ pc[e]["app"] \in {"wait"} \cup Filling
      /\ pc[e]["app"] # "wait" =>
           /\ e \notin Ways
           /\ env.type = "ack" /\ env.stamp \in Msgs /\ env.to \in Endpoints
           /\ env.to \in Ways => /\ ReadWhole(env.stamp)
                                 /\ From[env.stamp] = env.to /\ To[env.stamp] = e

\* Thread t has e's buffer to itself.
Alone(e, t) == IF t = "sender" THEN e \in Ways ELSE Own(e) = {}

Filled(e, t) ==
  /\ pc[e][t] \in {"stamp", "payload", "sendto"} => proto[e].type = out[e][t].type
  /\ pc[e][t] \in {"payload", "sendto"} => proto[e].stamp = out[e][t].stamp
  /\ pc[e][t] = "sendto" => proto[e].payload = out[e][t].payload

BufferTraced(e) ==
  \A t \in {"sender", "app"} :
    /\ pc[e][t] \in {"payload", "sendto"} => proto[e].stamp \in Msgs
    /\ Alone(e, t) => Filled(e, t)

ListenerTraced(e) ==
  /\ pc[e]["listener"] \in {"wait", "exited", "store", "drop"}
  /\ pc[e]["listener"] \in {"store", "drop"} => incoming[e] \in DatagramsFor(e)

NetTraced == \A d \in net : d \in DatagramsFor(d.to)

Traced ==
  /\ \A e \in Endpoints : /\ QueuesTraced(e) /\ SenderTraced(e) /\ AppTraced(e)
                          /\ BufferTraced(e) /\ ListenerTraced(e)
  /\ NetTraced

IInv == TypeOK /\ Traced

--------------------------------------------------------------------------------
\* A function of two arguments, changed at one place.
LEMMA NestedExcept ==
  ASSUME NEW S, NEW T, NEW V, NEW f \in [S -> [T -> V]], NEW s \in S, NEW t \in T, NEW v \in V
  PROVE  [f EXCEPT ![s][t] = v] \in [S -> [T -> V]]
  OBVIOUS

LEMMA SeqGrows ==
  ASSUME NEW S, NEW T, S \subseteq T, NEW q \in Seq(S)
  PROVE  q \in Seq(T)
  OBVIOUS

\* Who sends one way is written to by nobody, and writes to nobody who sends.
LEMMA WaysLead ==
  \A m \in Msgs : /\ From[m] \in Endpoints /\ To[m] \in Endpoints
                  /\ To[m] \notin Ways
                  /\ From[m] \in Ways => Own(To[m]) = {}
  BY AddressAssumption DEF Ways, OneWay, Own

\* Reading a message unreads none.
LEMMA KnowledgeGrows ==
  ASSUME read \subseteq read', NEW e \in Endpoints
  PROVE  /\ MailFor(e) \subseteq MailFor(e)'
         /\ ReceiptsFor(e) \subseteq ReceiptsFor(e)'
         /\ DatagramsFor(e) \subseteq DatagramsFor(e)'
  BY DEF ReadWhole, MailFor, ReceiptsFor, DatagramsFor, Ways, OneWay

LEMMA Sets ==
  ASSUME NEW e \in Endpoints
  PROVE  /\ Own(e) \subseteq Msgs
         /\ MailFor(e) \subseteq Mail /\ ReceiptsFor(e) \subseteq Receipts
         /\ DatagramsFor(e) \subseteq Datagrams
<1>1. Own(e) \subseteq Msgs /\ MailFor(e) \subseteq Mail /\ ReceiptsFor(e) \subseteq Receipts
  BY DEF Own, MailFor, ReceiptsFor
<1>2. DatagramsFor(e) \subseteq
        [type : Types, stamp : Msgs, payload : Stamps, from : Endpoints, to : Endpoints]
  BY DEF DatagramsFor
<1>3. [type : Types, stamp : Msgs, payload : Stamps, from : Endpoints, to : Endpoints]
        \subseteq Datagrams
  BY DEF Datagrams, Stamps
<1>4. QED  BY <1>1, <1>2, <1>3

LEMMA InitIInv == Init => IInv
<1> SUFFICES ASSUME Init PROVE IInv
  OBVIOUS
<1> USE DEF Init
<1>1. TypeOK
  <2>1. <<>> \in QueuesOf(Mail) /\ <<>> \in QueuesOf(Msgs) /\ <<>> \in QueuesOf(Receipts)
    BY BoundsAssumption DEF QueuesOf
  <2>2. QueuesOK /\ HistoryOK
    BY <2>1 DEF QueuesOK, HistoryOK, Statuses
  <2>3. ThreadsOK
    BY BoundsAssumption DEF ThreadsOK, Places
  <2>4. EnvelopesOK
    BY DEF EnvelopesOK, Contents, Addressed, Datagrams, Types, Stamps, Nothing, NoDatagram
  <2>5. QED  BY <2>2, <2>3, <2>4 DEF TypeOK
<1>2. ASSUME NEW e \in Endpoints PROVE QueuesTraced(e)
  BY DEF QueuesTraced
<1>3. ASSUME NEW e \in Endpoints
      PROVE  SenderTraced(e) /\ AppTraced(e) /\ ListenerTraced(e) /\ BufferTraced(e)
  BY DEF SenderTraced, AppTraced, ListenerTraced, BufferTraced, Filled, Threads, Filling
<1>4. NetTraced
  BY DEF NetTraced
<1>5. QED  BY <1>1, <1>2, <1>3, <1>4 DEF IInv, Traced

--------------------------------------------------------------------------------
(* Types. *)

LEMMA QueueTypes ==
  ASSUME NEW S, NEW q \in QueuesOf(S)
  PROVE  /\ q # <<>> => Head(q) \in S /\ Tail(q) \in QueuesOf(S)
         /\ Rest(q) \in QueuesOf(S)
         /\ HasRoom(q) => \A x \in S : Append(q, x) \in QueuesOf(S)
<1>1. q \in Seq(S) /\ Len(q) <= QueueSize /\ QueueSize \in Nat
  BY BoundsAssumption DEF QueuesOf
<1>2. q # <<>> => Head(q) \in S /\ Tail(q) \in Seq(S) /\ Len(Tail(q)) = Len(q) - 1
  BY <1>1
<1>3. q # <<>> => Head(q) \in S /\ Tail(q) \in QueuesOf(S)
  BY <1>1, <1>2 DEF QueuesOf
<1>4. HasRoom(q) => \A x \in S : Append(q, x) \in QueuesOf(S)
  <2> SUFFICES ASSUME HasRoom(q), NEW x \in S PROVE Append(q, x) \in QueuesOf(S)
    OBVIOUS
  <2>1. Append(q, x) \in Seq(S) /\ Len(Append(q, x)) = Len(q) + 1
    BY <1>1
  <2>2. QED  BY <1>1, <2>1 DEF QueuesOf, HasRoom
<1>5. QED  BY <1>3, <1>4 DEF Rest

LEMMA GotoTypes ==
  ASSUME TypeOK, NEW e \in Endpoints, NEW t \in Threads, NEW at \in Places, Goto(e, t, at)
  PROVE  pc' \in [Endpoints -> [Threads -> Places]]
<1>1. pc \in [Endpoints -> [Threads -> Places]]
  BY DEF TypeOK, ThreadsOK
<1>2. QED  BY <1>1, NestedExcept DEF Goto

LEMMA OutTypes ==
  ASSUME TypeOK, NEW e \in Endpoints, NEW t \in {"sender", "app"}, NEW x \in Addressed,
         out' = [out EXCEPT ![e][t] = x]
  PROVE  out' \in [Endpoints -> [{"sender", "app"} -> Addressed]]
<1>1. out \in [Endpoints -> [{"sender", "app"} -> Addressed]]
  BY DEF TypeOK, EnvelopesOK
<1>2. QED  BY <1>1, NestedExcept

\* What the sender leaves behind when it turns from one attempt to the next.
LEMMA NextAttemptTypes ==
  ASSUME TypeOK, NEW e \in Endpoints, SenderTraced(e),
         pc[e]["sender"] \in {"check", "pushback"},
         NextAttempt(e) \/ SendingReturns(e, "acked")
  PROVE  /\ attempt' \in [Endpoints -> 0 .. Attempts - 1]
         /\ out' \in [Endpoints -> [{"sender", "app"} -> Addressed]]
         /\ status' \in [Msgs -> Statuses]
         /\ pc' \in [Endpoints -> [Threads -> Places]]
<1>1. /\ attempt \in [Endpoints -> 0 .. Attempts - 1]
      /\ out \in [Endpoints -> [{"sender", "app"} -> Addressed]]
      /\ status \in [Msgs -> Statuses]
  BY DEF TypeOK, ThreadsOK, EnvelopesOK, HistoryOK
<1>2. Nothing \in Addressed /\ "sender" \in Threads /\ Again(e) \in Places /\ "type" \in Places
  BY DEF Nothing, Addressed, Types, Stamps, Threads, Places, Again
<1>3. Sending(e) \in Msgs
  BY DEF SenderTraced, Own
<1>4. CASE SendingReturns(e, "acked") \/ SendingReturns(e, "abandoned")
  <2>1. attempt' \in [Endpoints -> 0 .. Attempts - 1]
    BY <1>1, <1>4, BoundsAssumption DEF SendingReturns
  <2>2. out' \in [Endpoints -> [{"sender", "app"} -> Addressed]]
    BY <1>2, <1>4, OutTypes DEF SendingReturns
  <2>3. status' \in [Msgs -> Statuses]
    BY <1>1, <1>3, <1>4 DEF SendingReturns, Statuses
  <2>4. pc' \in [Endpoints -> [Threads -> Places]]
    BY <1>2, <1>4, GotoTypes DEF SendingReturns
  <2>5. QED  BY <2>1, <2>2, <2>3, <2>4
<1>5. CASE /\ attempt[e] + 1 < Attempts
           /\ attempt' = [attempt EXCEPT ![e] = @ + 1]
           /\ Goto(e, "sender", "type")
           /\ UNCHANGED <<out, status>>
  <2>1. attempt[e] + 1 \in 0 .. Attempts - 1
    BY <1>1, <1>5, BoundsAssumption
  <2>2. attempt' \in [Endpoints -> 0 .. Attempts - 1]
    BY <1>1, <1>5, <2>1
  <2>3. pc' \in [Endpoints -> [Threads -> Places]]
    BY <1>2, <1>5, GotoTypes
  <2>4. QED  BY <1>1, <1>5, <2>2, <2>3
<1>6. QED  BY <1>4, <1>5 DEF NextAttempt

LEMMA NextTypes == IInv /\ [Next]_vars => TypeOK'
<1> SUFFICES ASSUME TypeOK, Traced, [Next]_vars PROVE TypeOK'
  BY DEF IInv
<1>a. /\ inQueue \in [Endpoints -> QueuesOf(Mail)]
      /\ outQueue \in [Endpoints -> QueuesOf(Msgs)]
      /\ ackQueue \in [Endpoints -> QueuesOf(Receipts)]
  BY DEF TypeOK, QueuesOK
<1>b. /\ isRunning \in [Endpoints -> BOOLEAN]
      /\ proto \in [Endpoints -> Contents]
      /\ out \in [Endpoints -> [{"sender", "app"} -> Addressed]]
      /\ held \in [Endpoints -> Receipts \cup {NoAck}]
      /\ incoming \in [Endpoints -> Datagrams]
      /\ net \subseteq Datagrams
  BY DEF TypeOK, ThreadsOK, EnvelopesOK
<1>c. status \in [Msgs -> Statuses] /\ read \subseteq Endpoints \X Msgs \X Stamps
  BY DEF TypeOK, HistoryOK
<1>d. {"sender", "app"} \subseteq Threads /\ "listener" \in Threads /\ Nothing \in Addressed
  BY DEF Threads, Nothing, Addressed, Types, Stamps
<1> USE DEF queues, history
<1>1. ASSUME NEW m \in Msgs, SendEnvelope(m) PROVE TypeOK'
  <2>1. outQueue' \in [Endpoints -> QueuesOf(Msgs)]
    <3>1. From[m] \in Endpoints /\ outQueue[From[m]] \in QueuesOf(Msgs)
      BY <1>a, WaysLead
    <3>2. HasRoom(outQueue[From[m]]) => Append(outQueue[From[m]], m) \in QueuesOf(Msgs)
      BY <3>1, QueueTypes
    <3>3. outQueue' = outQueue
          \/ /\ HasRoom(outQueue[From[m]])
             /\ outQueue' = [outQueue EXCEPT ![From[m]] = Append(outQueue[From[m]], m)]
      BY <1>1, <1>a, <3>1 DEF SendEnvelope
    <3>4. QED  BY <1>a, <3>1, <3>2, <3>3
  <2>2. status' \in [Msgs -> Statuses]
    BY <1>1, <1>c DEF SendEnvelope, Statuses
  <2>3. QED
    BY <1>1, <2>1, <2>2 DEF SendEnvelope, TypeOK, QueuesOK, ThreadsOK, EnvelopesOK, HistoryOK
<1>2. ASSUME NEW e \in Endpoints, NEW t \in {"sender", "app"}, Transmit(e, t)
      PROVE  TypeOK'
  <2>1. out[e][t] \in Addressed /\ proto[e] \in Contents /\ t \in Threads
    BY <1>b, <1>d
  <2>2. CASE SetType(e, t)
    <3>1. [proto[e] EXCEPT !.type = out[e][t].type] \in Contents
      BY <2>1 DEF Contents, Addressed
    <3>2. proto' \in [Endpoints -> Contents]
      BY <1>b, <2>2, <3>1 DEF SetType
    <3>3. pc' \in [Endpoints -> [Threads -> Places]]
      BY <2>1, <2>2, GotoTypes DEF SetType, Places
    <3>4. QED
      BY <2>2, <3>2, <3>3 DEF SetType, TypeOK, QueuesOK, ThreadsOK, EnvelopesOK, HistoryOK
  <2>3. CASE SetStamp(e, t)
    <3>1. [proto[e] EXCEPT !.stamp = out[e][t].stamp] \in Contents
      BY <2>1 DEF Contents, Addressed
    <3>2. proto' \in [Endpoints -> Contents]
      BY <1>b, <2>3, <3>1 DEF SetStamp
    <3>3. pc' \in [Endpoints -> [Threads -> Places]]
      BY <2>1, <2>3, GotoTypes DEF SetStamp, Places
    <3>4. QED
      BY <2>3, <3>2, <3>3 DEF SetStamp, TypeOK, QueuesOK, ThreadsOK, EnvelopesOK, HistoryOK
  <2>4. CASE SetPayload(e, t)
    <3>1. [proto[e] EXCEPT !.payload = out[e][t].payload] \in Contents
      BY <2>1 DEF Contents, Addressed
    <3>2. proto' \in [Endpoints -> Contents]
      BY <1>b, <2>4, <3>1 DEF SetPayload
    <3>3. pc' \in [Endpoints -> [Threads -> Places]]
      BY <2>1, <2>4, GotoTypes DEF SetPayload, Places
    <3>4. QED
      BY <2>4, <3>2, <3>3 DEF SetPayload, TypeOK, QueuesOK, ThreadsOK, EnvelopesOK, HistoryOK
  <2>5. CASE SendTo(e, t)
    <3>1. [type |-> proto[e].type, stamp |-> proto[e].stamp, payload |-> proto[e].payload,
           from |-> e, to |-> out[e][t].to] \in Datagrams
      BY <2>1 DEF Contents, Addressed, Datagrams
    <3>2. net' \subseteq Datagrams
      BY <1>b, <2>5, <3>1 DEF SendTo
    <3>3. pc' \in [Endpoints -> [Threads -> Places]]
      <4>1. Goto(e, t, "check") \/ Goto(e, t, "wait")
        BY <2>5 DEF SendTo
      <4>2. QED  BY <2>1, <4>1, GotoTypes DEF Places
    <3>4. out' \in [Endpoints -> [{"sender", "app"} -> Addressed]]
      <4>1. out' = out \/ out' = [out EXCEPT ![e][t] = Nothing]
        BY <2>5 DEF SendTo
      <4>2. QED  BY <1>b, <1>d, <4>1, OutTypes
    <3>5. QED
      BY <2>5, <3>2, <3>3, <3>4
      DEF SendTo, TypeOK, QueuesOK, ThreadsOK, EnvelopesOK, HistoryOK
  <2>6. QED  BY <1>2, <2>2, <2>3, <2>4, <2>5 DEF Transmit
<1>3. ASSUME NEW e \in Endpoints, NEW t \in Threads, Exit(e, t) PROVE TypeOK'
  <2>1. pc' \in [Endpoints -> [Threads -> Places]]
    BY <1>3, GotoTypes DEF Exit, Places
  <2>2. QED
    BY <1>3, <2>1 DEF Exit, TypeOK, QueuesOK, ThreadsOK, EnvelopesOK, HistoryOK
<1>4. ASSUME NEW e \in Endpoints, SendEnvFromOutQueue(e) PROVE TypeOK'
  <2> DEFINE m == Head(outQueue[e])
  <2>1. m \in Msgs /\ Tail(outQueue[e]) \in QueuesOf(Msgs)
    BY <1>4, <1>a, QueueTypes DEF SendEnvFromOutQueue
  <2>2. [type |-> "user", stamp |-> m, payload |-> m, to |-> To[m]] \in Addressed
    BY <2>1, WaysLead DEF Addressed, Types, Stamps
  <2>3. pc' \in [Endpoints -> [Threads -> Places]]
    BY <1>4, <1>d, GotoTypes DEF SendEnvFromOutQueue, SendDataGram, Places
  <2>4. out' \in [Endpoints -> [{"sender", "app"} -> Addressed]]
    BY <1>4, <2>2, OutTypes DEF SendEnvFromOutQueue, SendDataGram
  <2>5. outQueue' \in [Endpoints -> QueuesOf(Msgs)]
    BY <1>4, <1>a, <2>1 DEF SendEnvFromOutQueue
  <2>6. status' \in [Msgs -> Statuses]
    BY <1>4, <1>c, <2>1 DEF SendEnvFromOutQueue, Statuses
  <2>7. QED
    BY <1>4, <2>3, <2>4, <2>5, <2>6
    DEF SendEnvFromOutQueue, TypeOK, QueuesOK, ThreadsOK, EnvelopesOK, HistoryOK
<1>5. ASSUME NEW e \in Endpoints, CheckAckQueue(e) PROVE TypeOK'
  <2> DEFINE a == Head(ackQueue[e])
  <2>1. ackQueue[e] # <<>> => a \in Receipts /\ Tail(ackQueue[e]) \in QueuesOf(Receipts)
    BY <1>a, QueueTypes
  <2>2. ackQueue' \in [Endpoints -> QueuesOf(Receipts)]
    BY <1>5, <1>a, <2>1 DEF CheckAckQueue
  <2>3. held' \in [Endpoints -> Receipts \cup {NoAck}]
    <3>1. CASE held' = held
      BY <1>b, <3>1
    <3>2. CASE /\ ackQueue[e] # <<>> /\ a.counter > 1
               /\ held' = [held EXCEPT ![e] = [a EXCEPT !.counter = @ - 1]]
      <4>1. [a EXCEPT !.counter = @ - 1] \in Receipts
        BY <2>1, <3>2, BoundsAssumption DEF Receipts
      <4>2. QED  BY <1>b, <3>2, <4>1
    <3>3. QED  BY <1>5, <3>1, <3>2 DEF CheckAckQueue
  <2>4. /\ attempt' \in [Endpoints -> 0 .. Attempts - 1]
        /\ out' \in [Endpoints -> [{"sender", "app"} -> Addressed]]
        /\ status' \in [Msgs -> Statuses]
        /\ pc' \in [Endpoints -> [Threads -> Places]]
    <3>1. pc[e]["sender"] = "check"
      BY <1>5 DEF CheckAckQueue
    <3>2. CASE NextAttempt(e) \/ SendingReturns(e, "acked")
      BY <3>1, <3>2, NextAttemptTypes DEF Traced
    <3>3. CASE Goto(e, "sender", "pushback") /\ UNCHANGED <<attempt, out, status>>
      <4>1. pc' \in [Endpoints -> [Threads -> Places]]
        BY <3>3, <1>d, GotoTypes DEF Places
      <4>2. QED  BY <3>3, <4>1 DEF TypeOK, ThreadsOK, EnvelopesOK, HistoryOK
    <3>4. QED  BY <1>5, <3>2, <3>3 DEF CheckAckQueue
  <2>5. QED
    BY <1>5, <2>2, <2>3, <2>4
    DEF CheckAckQueue, TypeOK, QueuesOK, ThreadsOK, EnvelopesOK, HistoryOK
<1>6. ASSUME NEW e \in Endpoints, PushBack(e) PROVE TypeOK'
  <2>1. held[e] \in Receipts
    BY <1>6, Sets DEF PushBack, Traced, SenderTraced
  <2>2. ackQueue' \in [Endpoints -> QueuesOf(Receipts)]
    <3>1. HasRoom(ackQueue[e]) => Append(ackQueue[e], held[e]) \in QueuesOf(Receipts)
      BY <1>a, <2>1, QueueTypes
    <3>2. QED  BY <1>6, <1>a, <3>1 DEF PushBack
  <2>3. held' \in [Endpoints -> Receipts \cup {NoAck}]
    BY <1>6, <1>b DEF PushBack
  <2>4. /\ attempt' \in [Endpoints -> 0 .. Attempts - 1]
        /\ out' \in [Endpoints -> [{"sender", "app"} -> Addressed]]
        /\ status' \in [Msgs -> Statuses]
        /\ pc' \in [Endpoints -> [Threads -> Places]]
    BY <1>6, NextAttemptTypes DEF PushBack, Traced
  <2>5. QED
    BY <1>6, <2>2, <2>3, <2>4
    DEF PushBack, TypeOK, QueuesOK, ThreadsOK, EnvelopesOK, HistoryOK
<1>7. ASSUME NEW e \in Endpoints, RecvDataGram(e) PROVE TypeOK'
  <2>1. pc' \in [Endpoints -> [Threads -> Places]]
    BY <1>7, <1>d, GotoTypes DEF RecvDataGram, Places
  <2>2. incoming' \in [Endpoints -> Datagrams] /\ net' \subseteq Datagrams
    BY <1>7, <1>b DEF RecvDataGram
  <2>3. QED
    BY <1>7, <2>1, <2>2
    DEF RecvDataGram, TypeOK, QueuesOK, ThreadsOK, EnvelopesOK, HistoryOK
<1>8. ASSUME NEW e \in Endpoints, StoreTstampToAckQueue(e) \/ StoreEnvToInQueue(e)
      PROVE  TypeOK'
  <2>1. /\ incoming[e].stamp \in Msgs /\ incoming[e].from \in Endpoints
        /\ incoming[e].payload \in Stamps
    BY <1>8 DEF StoreTstampToAckQueue, StoreEnvToInQueue, Traced, ListenerTraced, DatagramsFor
  <2>2. pc' \in [Endpoints -> [Threads -> Places]]
    <3>1. Goto(e, "listener", Again(e)) \/ Goto(e, "listener", "drop")
      BY <1>8 DEF StoreTstampToAckQueue, StoreEnvToInQueue, Stored
    <3>2. QED  BY <3>1, <1>d, GotoTypes DEF Again, Places
  <2>3. incoming' \in [Endpoints -> Datagrams]
    <3>1. incoming' = incoming \/ incoming' = [incoming EXCEPT ![e] = NoDatagram]
      BY <1>8 DEF StoreTstampToAckQueue, StoreEnvToInQueue, Stored
    <3>2. NoDatagram \in Datagrams
      BY DEF NoDatagram, Datagrams, Types, Stamps
    <3>3. QED  BY <1>b, <3>1, <3>2
  <2>4. ackQueue' \in [Endpoints -> QueuesOf(Receipts)]
    <3>1. [stamp |-> incoming[e].stamp, counter |-> AckLife] \in Receipts
      BY <2>1, BoundsAssumption DEF Receipts
    <3>2. HasRoom(ackQueue[e]) =>
            Append(ackQueue[e], [stamp |-> incoming[e].stamp, counter |-> AckLife])
              \in QueuesOf(Receipts)
      BY <1>a, <3>1, QueueTypes
    <3>3. QED  BY <1>8, <1>a, <3>2 DEF StoreTstampToAckQueue, StoreEnvToInQueue
  <2>5. inQueue' \in [Endpoints -> QueuesOf(Mail)]
    <3> DEFINE env == [stamp |-> incoming[e].stamp, payload |-> incoming[e].payload,
                       from |-> incoming[e].from]
    <3>1. env \in Mail
      BY <2>1 DEF Mail
    <3>2. HasRoom(inQueue[e]) => Append(inQueue[e], env) \in QueuesOf(Mail)
      BY <1>a, <3>1, QueueTypes
    <3>3. QED  BY <1>8, <1>a, <3>2 DEF StoreTstampToAckQueue, StoreEnvToInQueue
  <2>6. UNCHANGED <<outQueue, proto, isRunning, out, attempt, held, net, status, read>>
    BY <1>8 DEF StoreTstampToAckQueue, StoreEnvToInQueue
  <2>7. QED
    BY <2>2, <2>3, <2>4, <2>5, <2>6 DEF TypeOK, QueuesOK, ThreadsOK, EnvelopesOK, HistoryOK
<1>9. ASSUME NEW e \in Endpoints, DropEarliest(e) PROVE TypeOK'
  <2>1. pc' \in [Endpoints -> [Threads -> Places]]
    BY <1>9, <1>d, GotoTypes DEF DropEarliest, Places
  <2>2. Rest(ackQueue[e]) \in QueuesOf(Receipts) /\ Rest(inQueue[e]) \in QueuesOf(Mail)
    BY <1>a, QueueTypes
  <2>3. ackQueue' \in [Endpoints -> QueuesOf(Receipts)]
        /\ inQueue' \in [Endpoints -> QueuesOf(Mail)]
    BY <1>9, <1>a, <2>2 DEF DropEarliest
  <2>4. QED
    BY <1>9, <2>1, <2>3 DEF DropEarliest, TypeOK, QueuesOK, ThreadsOK, EnvelopesOK, HistoryOK
<1>10. ASSUME NEW e \in Endpoints, TryReceiveEnvelope(e) PROVE TypeOK'
  <2> DEFINE d == Head(inQueue[e])
  <2>1. d \in Mail /\ Tail(inQueue[e]) \in QueuesOf(Mail)
    BY <1>10, <1>a, QueueTypes DEF TryReceiveEnvelope
  <2>2. [type |-> "ack", stamp |-> d.stamp, payload |-> NoMsg, to |-> d.from] \in Addressed
    BY <2>1 DEF Mail, Addressed, Types, Stamps
  <2>3. pc' \in [Endpoints -> [Threads -> Places]]
    BY <1>10, <1>d, GotoTypes DEF TryReceiveEnvelope, SendDataGram, Places
  <2>4. out' \in [Endpoints -> [{"sender", "app"} -> Addressed]]
    BY <1>10, <2>2, OutTypes DEF TryReceiveEnvelope, SendDataGram
  <2>5. inQueue' \in [Endpoints -> QueuesOf(Mail)]
    BY <1>10, <1>a, <2>1 DEF TryReceiveEnvelope
  <2>6. read' \subseteq Endpoints \X Msgs \X Stamps
    BY <1>10, <1>c, <2>1 DEF TryReceiveEnvelope, Mail
  <2>7. QED
    BY <1>10, <2>3, <2>4, <2>5, <2>6
    DEF TryReceiveEnvelope, TypeOK, QueuesOK, ThreadsOK, EnvelopesOK, HistoryOK
<1>11. ASSUME NEW e \in Endpoints, Stop(e) PROVE TypeOK'
  <2>1. isRunning' \in [Endpoints -> BOOLEAN]
    BY <1>11, <1>b DEF Stop
  <2>2. QED
    BY <1>11, <2>1 DEF Stop, TypeOK, QueuesOK, ThreadsOK, EnvelopesOK, HistoryOK
<1>12. CASE UNCHANGED vars
  BY <1>12 DEF vars, TypeOK, QueuesOK, ThreadsOK, EnvelopesOK, HistoryOK
<1>13. QED
  BY <1>1, <1>2, <1>3, <1>4, <1>5, <1>6, <1>7, <1>8, <1>9, <1>10, <1>11, <1>12
  DEF Next, SenderStep, ListenerStep, AppStep, Threads

--------------------------------------------------------------------------------
(* Traces.  Each part of Traced speaks of one thread of one endpoint. *)

LEMMA GotoEffect ==
  ASSUME TypeOK, NEW e \in Endpoints, NEW t \in Threads, NEW at, Goto(e, t, at)
  PROVE  /\ pc'[e][t] = at
         /\ \A f \in Endpoints, u \in Threads : f # e \/ u # t => pc'[f][u] = pc[f][u]
<1>1. pc \in [Endpoints -> [Threads -> Places]]
  BY DEF TypeOK, ThreadsOK
<1>2. QED  BY <1>1 DEF Goto

LEMMA OutEffect ==
  ASSUME TypeOK, NEW e \in Endpoints, NEW t \in {"sender", "app"}, NEW x,
         out' = [out EXCEPT ![e][t] = x]
  PROVE  /\ out'[e][t] = x
         /\ \A f \in Endpoints, u \in {"sender", "app"} :
              f # e \/ u # t => out'[f][u] = out[f][u]
<1>1. out \in [Endpoints -> [{"sender", "app"} -> Addressed]]
  BY DEF TypeOK, EnvelopesOK
<1>2. QED  BY <1>1

LEMMA SeqFacts ==
  ASSUME NEW S, NEW q \in Seq(S)
  PROVE  /\ q # <<>> => Head(q) \in S /\ Tail(q) \in Seq(S)
         /\ Rest(q) \in Seq(S)
         /\ \A x \in S : Append(q, x) \in Seq(S)
  BY DEF Rest

\* A step keeps the part of Traced whose variables it leaves alone.
LEMMA Kept ==
  ASSUME Traced, read \subseteq read', NEW e \in Endpoints
  PROVE  /\ (/\ inQueue'[e] = inQueue[e] /\ outQueue'[e] = outQueue[e]
             /\ ackQueue'[e] = ackQueue[e]) => QueuesTraced(e)'
         /\ (/\ pc'[e]["sender"] = pc[e]["sender"] /\ out'[e]["sender"] = out[e]["sender"]
             /\ held'[e] = held[e]) => SenderTraced(e)'
         /\ (pc'[e]["app"] = pc[e]["app"] /\ out'[e]["app"] = out[e]["app"]) => AppTraced(e)'
         /\ (/\ proto'[e] = proto[e]
             /\ \A t \in {"sender", "app"} :
                  pc'[e][t] \in {"stamp", "payload", "sendto"} =>
                    pc'[e][t] = pc[e][t] /\ out'[e][t] = out[e][t]) => BufferTraced(e)'
         /\ (pc'[e]["listener"] = pc[e]["listener"] /\ incoming'[e] = incoming[e])
              => ListenerTraced(e)'
         /\ net' \subseteq net => NetTraced'
<1> USE KnowledgeGrows
<1>1. /\ QueuesTraced(e) /\ SenderTraced(e) /\ AppTraced(e)
      /\ BufferTraced(e) /\ ListenerTraced(e) /\ NetTraced
  BY DEF Traced
<1>2. Own(e)' = Own(e) /\ Ways' = Ways
  BY DEF Own, Ways, OneWay
<1>3. ASSUME inQueue'[e] = inQueue[e], outQueue'[e] = outQueue[e], ackQueue'[e] = ackQueue[e]
      PROVE  QueuesTraced(e)'
  <2>1. inQueue[e] \in Seq(MailFor(e)') /\ ackQueue[e] \in Seq(ReceiptsFor(e)')
    BY <1>1, SeqGrows DEF QueuesTraced
  <2>2. QED  BY <1>1, <1>2, <1>3, <2>1 DEF QueuesTraced
<1>4. ASSUME pc'[e]["sender"] = pc[e]["sender"], out'[e]["sender"] = out[e]["sender"],
             held'[e] = held[e]
      PROVE  SenderTraced(e)'
  BY <1>1, <1>2, <1>4 DEF SenderTraced, Sending
<1>5. ASSUME pc'[e]["app"] = pc[e]["app"], out'[e]["app"] = out[e]["app"]
      PROVE  AppTraced(e)'
  BY <1>1, <1>2, <1>5 DEF AppTraced, ReadWhole
<1>6. ASSUME proto'[e] = proto[e],
             \A t \in {"sender", "app"} :
               pc'[e][t] \in {"stamp", "payload", "sendto"} =>
                 pc'[e][t] = pc[e][t] /\ out'[e][t] = out[e][t]
      PROVE  BufferTraced(e)'
  <2>1. ASSUME NEW t \in {"sender", "app"}
        PROVE  /\ pc'[e][t] \in {"payload", "sendto"} => proto'[e].stamp \in Msgs
               /\ Alone(e, t) => Filled(e, t)'
    BY <1>1, <1>6 DEF BufferTraced, Filled
  <2>2. \A t \in {"sender", "app"} : Alone(e, t)' = Alone(e, t)
    BY <1>2 DEF Alone
  <2>3. QED  BY <2>1, <2>2 DEF BufferTraced
<1>7. ASSUME pc'[e]["listener"] = pc[e]["listener"], incoming'[e] = incoming[e]
      PROVE  ListenerTraced(e)'
  BY <1>1, <1>7 DEF ListenerTraced
<1>8. ASSUME net' \subseteq net PROVE NetTraced'
  <2> SUFFICES ASSUME NEW d \in net' PROVE d \in DatagramsFor(d.to)'
    BY DEF NetTraced
  <2>1. d \in DatagramsFor(d.to)
    BY <1>1, <1>8 DEF NetTraced
  <2>2. d.to \in Endpoints
    BY <2>1 DEF DatagramsFor
  <2>3. QED  BY <2>1, <2>2, KnowledgeGrows
<1>9. QED  BY <1>3, <1>4, <1>5, <1>6, <1>7, <1>8

\* One lemma for each thread.  The application's calls:
LEMMA SendEnvelopeTraced ==
  ASSUME TypeOK, Traced, NEW m \in Msgs, SendEnvelope(m)
  PROVE  Traced'
<1> DEFINE e == From[m]
<1>1. e \in Endpoints /\ m \in Own(e)
  BY WaysLead DEF Own
<1>2. UNCHANGED <<inQueue, ackQueue, proto, pc, out, held, incoming, net, read>>
  BY DEF SendEnvelope
<1>3. ASSUME NEW f \in Endpoints PROVE QueuesTraced(f)'
  <2>1. outQueue \in [Endpoints -> QueuesOf(Msgs)]
    BY DEF TypeOK, QueuesOK
  <2>2. CASE outQueue'[f] = outQueue[f]
    BY <1>2, <2>2, Kept
  <2>3. CASE f = e /\ outQueue'[f] = Append(outQueue[e], m)
    <3>1. QueuesTraced(f)
      BY DEF Traced
    <3>2. outQueue'[f] \in Seq(Own(f))
      BY <1>1, <2>3, <3>1, SeqFacts DEF QueuesTraced
    <3>3. Own(f)' = Own(f) /\ MailFor(f)' = MailFor(f) /\ ReceiptsFor(f)' = ReceiptsFor(f)
      BY <1>2 DEF Own, MailFor, ReceiptsFor, ReadWhole, Ways, OneWay
    <3>4. QED  BY <1>2, <3>1, <3>2, <3>3 DEF QueuesTraced
  <2>4. QED  BY <1>1, <2>1, <2>2, <2>3 DEF SendEnvelope
<1>4. ASSUME NEW f \in Endpoints
      PROVE  SenderTraced(f)' /\ AppTraced(f)' /\ BufferTraced(f)' /\ ListenerTraced(f)'
  BY <1>2, Kept
<1>5. NetTraced'
  BY <1>1, <1>2, Kept
<1>6. QED  BY <1>3, <1>4, <1>5 DEF Traced

LEMMA TryReceiveEnvelopeTraced ==
  ASSUME TypeOK, Traced, NEW e \in Endpoints, TryReceiveEnvelope(e)
  PROVE  Traced'
<1> DEFINE d == Head(inQueue[e])
<1>1. QueuesTraced(e) /\ inQueue \in [Endpoints -> QueuesOf(Mail)]
  BY DEF Traced, TypeOK, QueuesOK
<1>2. d \in MailFor(e) /\ Tail(inQueue[e]) \in Seq(MailFor(e))
  BY <1>1, SeqFacts DEF QueuesTraced, TryReceiveEnvelope
<1>3. /\ UNCHANGED <<outQueue, ackQueue, proto, held, incoming, net>>
      /\ inQueue' = [inQueue EXCEPT ![e] = Tail(@)]
      /\ read' = read \cup {<<e, d.stamp, d.payload>>}
      /\ Goto(e, "app", "type")
      /\ out' = [out EXCEPT ![e]["app"] = [type |-> "ack", stamp |-> d.stamp,
                                          payload |-> NoMsg, to |-> d.from]]
  BY DEF TryReceiveEnvelope, SendDataGram
<1>4. read \subseteq read'
  BY <1>3
<1>5. \A f \in Endpoints : /\ pc'[f]["sender"] = pc[f]["sender"]
                           /\ pc'[f]["listener"] = pc[f]["listener"]
                           /\ pc'[f]["app"] = IF f = e THEN "type" ELSE pc[f]["app"]
  BY <1>3, GotoEffect DEF Threads
<1>6. /\ \A f \in Endpoints : /\ out'[f]["sender"] = out[f]["sender"]
                              /\ f # e => out'[f]["app"] = out[f]["app"]
      /\ out'[e]["app"] = [type |-> "ack", stamp |-> d.stamp, payload |-> NoMsg,
                           to |-> d.from]
  <2> DEFINE x == [type |-> "ack", stamp |-> d.stamp, payload |-> NoMsg, to |-> d.from]
  <2>1. out' = [out EXCEPT ![e]["app"] = x]
    BY <1>3
  <2> HIDE DEF x
  <2>2. out'[e]["app"] = x /\ \A f \in Endpoints, u \in {"sender", "app"} :
                                f # e \/ u # "app" => out'[f][u] = out[f][u]
    BY <2>1, OutEffect
  <2>3. QED  BY <2>2 DEF x
<1>7. ASSUME NEW f \in Endpoints PROVE QueuesTraced(f)'
  <2>1. CASE f # e
    BY <1>1, <1>3, <1>4, <2>1, Kept
  <2>2. CASE f = e
    <3>1. inQueue'[e] = Tail(inQueue[e])
      BY <1>1, <1>3
    <3>2. /\ inQueue'[e] \in Seq(MailFor(e)')
          /\ ackQueue[e] \in Seq(ReceiptsFor(e)')
      BY <1>1, <1>2, <1>4, <3>1, KnowledgeGrows, SeqGrows DEF QueuesTraced
    <3>3. Own(e)' = Own(e)
      BY DEF Own
    <3>4. QED  BY <1>1, <1>3, <2>2, <3>2, <3>3 DEF QueuesTraced
  <2>3. QED  BY <2>1, <2>2
<1>8. ASSUME NEW f \in Endpoints
      PROVE  SenderTraced(f)' /\ BufferTraced(f)' /\ ListenerTraced(f)'
  BY <1>3, <1>4, <1>5, <1>6, Kept
<1>9. ASSUME NEW f \in Endpoints PROVE AppTraced(f)'
  <2>1. CASE f # e
    BY <1>4, <1>5, <1>6, <2>1, Kept
  <2>2. CASE f = e
    <3>1. d.stamp \in Msgs /\ d.from \in Endpoints /\ e \notin Ways
      BY <1>2 DEF MailFor, Mail
    <3>2. d.from \in Ways => /\ From[d.stamp] = d.from /\ To[d.stamp] = e
                            /\ <<e, d.stamp, d.stamp>> \in read'
      BY <1>2, <1>3 DEF MailFor
    <3>3. Ways' = Ways
      BY DEF Ways, OneWay
    <3>4. QED
      BY <1>5, <1>6, <2>2, <3>1, <3>2, <3>3 DEF AppTraced, Filling, ReadWhole
  <2>3. QED  BY <2>1, <2>2
<1>10. NetTraced'
  BY <1>3, <1>4, Kept
<1>11. QED  BY <1>7, <1>8, <1>9, <1>10 DEF Traced

\* Where a thread has the buffer to itself, the other one is not filling it.
LEMMA Exclusive ==
  ASSUME Traced, NEW e \in Endpoints, NEW t \in {"sender", "app"}, NEW u \in {"sender", "app"},
         pc[e][t] \in Filling, Alone(e, u)
  PROVE  t = u
<1>1. SenderTraced(e) /\ AppTraced(e)
  BY DEF Traced
<1>2. Own(e) = {} => pc[e]["sender"] \notin Filling
  BY <1>1 DEF SenderTraced, Filling
<1>3. e \in Ways => pc[e]["app"] \notin Filling
  BY <1>1 DEF AppTraced, Filling
<1>4. QED  BY <1>2, <1>3 DEF Alone

\* Both threads that send, filling the buffer and handing it to sendto.
LEMMA TransmitTraced ==
  ASSUME TypeOK, Traced, NEW e \in Endpoints, NEW t \in {"sender", "app"}, Transmit(e, t)
  PROVE  Traced'
<1> USE DEF queues, history
<1>1. /\ SenderTraced(e) /\ AppTraced(e) /\ BufferTraced(e)
      /\ proto \in [Endpoints -> Contents] /\ out[e][t] \in Addressed
      /\ t \in Threads /\ t # "listener"
  BY DEF Traced, TypeOK, EnvelopesOK, Threads
<1>2. pc[e][t] \in Filling
  BY DEF Transmit, SetType, SetStamp, SetPayload, SendTo, Filling
<1>3. out[e][t].stamp \in Msgs /\ out[e][t].to \in Endpoints
  BY <1>1, <1>2, WaysLead DEF SenderTraced, AppTraced, Filling, Sending, Own
<1>4. /\ UNCHANGED <<inQueue, outQueue, ackQueue, held, incoming, read>>
      /\ \E at \in Places : Goto(e, t, at)
  BY <1>1 DEF Transmit, SetType, SetStamp, SetPayload, SendTo, Places
<1>5. ASSUME NEW f \in Endpoints PROVE QueuesTraced(f)' /\ ListenerTraced(f)'
  BY <1>1, <1>4, GotoEffect, Kept DEF Threads
<1>6. \/ /\ UNCHANGED <<out, net>>
         /\ \E at \in {"stamp", "payload", "sendto"} : Goto(e, t, at)
      \/ SendTo(e, t)
  BY DEF Transmit, SetType, SetStamp, SetPayload
<1>7. ASSUME NEW f \in Endpoints, NEW u \in {"sender", "app"}, f # e \/ u # t
      PROVE  pc'[f][u] = pc[f][u] /\ out'[f][u] = out[f][u]
  <2>1. pc'[f][u] = pc[f][u]
    BY <1>1, <1>4, <1>7, GotoEffect DEF Threads
  <2>2. out' = out \/ out' = [out EXCEPT ![e][t] = Nothing]
    BY <1>6 DEF SendTo
  <2>3. QED  BY <1>7, <2>1, <2>2, OutEffect
<1>8. ASSUME NEW f \in Endpoints PROVE SenderTraced(f)'
  <2>1. CASE f # e \/ t = "app"
    BY <1>4, <1>7, <2>1, Kept
  <2>2. CASE f = e /\ t = "sender"
    <3>1. out' = out /\ pc'[e]["sender"] \in {"stamp", "payload", "sendto", "check"}
      BY <1>1, <1>6, <2>2, GotoEffect DEF SendTo
    <3>2. Own(e)' = Own(e)
      BY DEF Own
    <3>3. QED
      BY <1>1, <1>2, <2>2, <3>1, <3>2 DEF SenderTraced, Sending, Filling
  <2>3. QED  BY <2>1, <2>2
<1>9. ASSUME NEW f \in Endpoints PROVE AppTraced(f)'
  <2>1. CASE f # e \/ t = "sender"
    BY <1>4, <1>7, <2>1, Kept
  <2>2. CASE f = e /\ t = "app"
    <3>1. Ways' = Ways /\ \A m : ReadWhole(m)' = ReadWhole(m)
      BY <1>4 DEF Ways, OneWay, ReadWhole
    <3>2. CASE out' = out /\ pc'[e]["app"] \in {"stamp", "payload", "sendto"}
      BY <1>1, <1>2, <2>2, <3>1, <3>2 DEF AppTraced, Filling
    <3>3. CASE pc'[e]["app"] = "wait"
      BY <2>2, <3>3 DEF AppTraced
    <3>4. QED  BY <1>1, <1>6, <2>2, <3>2, <3>3, GotoEffect DEF SendTo
  <2>3. QED  BY <2>1, <2>2
<1>10. ASSUME NEW f \in Endpoints PROVE BufferTraced(f)'
  <2>1. CASE f # e
    <3>1. proto'[f] = proto[f]
      BY <1>1, <2>1 DEF Transmit, SetType, SetStamp, SetPayload, SendTo
    <3>2. QED  BY <1>4, <1>7, <2>1, <3>1, Kept
  <2>2. CASE f = e
    <3>1. /\ SetStamp(e, t) => proto'[e].stamp = out[e][t].stamp
          /\ ~SetStamp(e, t) => proto'[e].stamp = proto[e].stamp
      BY <1>1 DEF Transmit, SetType, SetStamp, SetPayload, SendTo, Contents
    <3>2. ASSUME NEW u \in {"sender", "app"}, pc'[e][u] \in {"payload", "sendto"}
          PROVE  proto'[e].stamp \in Msgs
      <4>1. CASE SetStamp(e, t)
        BY <1>3, <3>1, <4>1
      <4>2. CASE ~SetStamp(e, t) /\ u # t
        BY <1>1, <1>7, <3>1, <3>2, <4>2 DEF BufferTraced
      <4>3. CASE ~SetStamp(e, t) /\ u = t
        <5>1. pc[e][t] \in {"payload", "sendto"}
          BY <1>1, <3>2, <4>3, GotoEffect DEF Transmit, SetType, SetPayload, SendTo
        <5>2. QED  BY <1>1, <3>1, <4>3, <5>1 DEF BufferTraced
      <4>4. QED  BY <4>1, <4>2, <4>3
    <3>3. ASSUME Alone(e, t) PROVE Filled(e, t)'
      <4>1. Filled(e, t)
        BY <1>1, <3>3 DEF BufferTraced
      <4>2. CASE SetType(e, t)
        BY <1>1, <4>2, GotoEffect DEF SetType, Filled, Contents
      <4>3. CASE SetStamp(e, t)
        BY <1>1, <4>1, <4>3, GotoEffect DEF SetStamp, Filled, Contents
      <4>4. CASE SetPayload(e, t)
        BY <1>1, <4>1, <4>4, GotoEffect DEF SetPayload, Filled, Contents
      <4>5. CASE SendTo(e, t)
        BY <1>1, <4>5, GotoEffect DEF SendTo, Filled
      <4>6. QED  BY <4>2, <4>3, <4>4, <4>5 DEF Transmit
    <3>4. \A u \in {"sender", "app"} : Alone(e, u) => u = t
      BY <1>2, Exclusive
    <3>5. \A u \in {"sender", "app"} : Alone(e, u)' = Alone(e, u)
      BY DEF Alone, Ways, OneWay, Own
    <3>6. QED  BY <2>2, <3>2, <3>3, <3>4, <3>5 DEF BufferTraced
  <2>3. QED  BY <2>1, <2>2
<1>11. NetTraced'
  <2>1. CASE net' \subseteq net
    BY <1>4, <2>1, Kept
  <2>2. CASE ~(net' \subseteq net)
    <3> DEFINE d == [type |-> proto[e].type, stamp |-> proto[e].stamp,
                     payload |-> proto[e].payload, from |-> e, to |-> out[e][t].to]
    <3>1. net' = net \cup {d} /\ pc[e][t] = "sendto"
      BY <1>6, <2>2 DEF SendTo
    <3>2. proto[e].stamp \in Msgs /\ proto[e].type \in Types /\ proto[e].payload \in Stamps
      BY <1>1, <3>1 DEF BufferTraced, Contents
    <3>3. Alone(e, t) => /\ proto[e].type = out[e][t].type
                         /\ proto[e].stamp = out[e][t].stamp
                         /\ proto[e].payload = out[e][t].payload
      BY <1>1, <3>1 DEF BufferTraced, Filled
    <3>4. /\ d \in [type : Types, stamp : Msgs, payload : Stamps, from : Endpoints, to : Endpoints]
          /\ d.from = e /\ d.to = out[e][t].to
      BY <1>3, <3>2
    <3>5. Alone(e, t) => /\ d.type = out[e][t].type
                         /\ d.stamp = out[e][t].stamp /\ d.payload = out[e][t].payload
      BY <3>3
    <3> HIDE DEF d
    <3>6. d \in DatagramsFor(d.to)
      <4>1. CASE t = "sender"
        <5>1. /\ out[e][t].to \notin Ways /\ From[out[e][t].stamp] = e
              /\ out[e][t].to = To[out[e][t].stamp]
              /\ out[e][t].type = "user" /\ out[e][t].payload = out[e][t].stamp
          BY <1>1, <1>2, <4>1, WaysLead DEF SenderTraced, Sending, Own, Filling
        <5>2. e \in Ways => Alone(e, t)
          BY <4>1 DEF Alone
        <5>3. QED  BY <3>4, <3>5, <5>1, <5>2 DEF DatagramsFor
      <4>2. CASE t = "app"
        <5>1. /\ e \notin Ways
              /\ out[e][t].type = "ack"
              /\ out[e][t].to \in Ways => /\ ReadWhole(out[e][t].stamp)
                                         /\ From[out[e][t].stamp] = out[e][t].to
                                         /\ To[out[e][t].stamp] = e
          BY <1>1, <1>2, <4>2 DEF AppTraced, Filling
        <5>2. out[e][t].to \in Ways => Alone(e, t)
          BY <1>3, <4>2, <5>1, WaysLead DEF Alone
        <5>3. QED  BY <3>4, <3>5, <5>1, <5>2 DEF DatagramsFor
      <4>3. QED  BY <4>1, <4>2
    <3>7. \A x \in net : x \in DatagramsFor(x.to)
      BY DEF Traced, NetTraced
    <3>8. \A x \in net' : x \in DatagramsFor(x.to) /\ x.to \in Endpoints
      BY <3>1, <3>6, <3>7 DEF DatagramsFor
    <3>9. QED  BY <1>4, <3>8, KnowledgeGrows DEF NetTraced
  <2>3. QED  BY <2>1, <2>2
<1>12. QED  BY <1>5, <1>8, <1>9, <1>10, <1>11 DEF Traced

\* The sender thread.
LEMMA SendEnvFromOutQueueTraced ==
  ASSUME TypeOK, Traced, NEW e \in Endpoints, SendEnvFromOutQueue(e)
  PROVE  Traced'
<1> DEFINE m == Head(outQueue[e])
           x == [type |-> "user", stamp |-> m, payload |-> m, to |-> To[m]]
<1>1. /\ UNCHANGED <<inQueue, ackQueue, proto, held, incoming, net, read>>
      /\ outQueue' = [outQueue EXCEPT ![e] = Tail(@)] /\ outQueue[e] # <<>>
      /\ Goto(e, "sender", "type")
      /\ out' = [out EXCEPT ![e]["sender"] = x]
  BY DEF SendEnvFromOutQueue, SendDataGram
<1>2. QueuesTraced(e) /\ outQueue \in [Endpoints -> QueuesOf(Msgs)]
  BY DEF Traced, TypeOK, QueuesOK
<1>3. m \in Own(e) /\ Tail(outQueue[e]) \in Seq(Own(e))
  BY <1>1, <1>2, SeqFacts DEF QueuesTraced
<1>4. \A f \in Endpoints : /\ pc'[f]["app"] = pc[f]["app"]
                           /\ pc'[f]["listener"] = pc[f]["listener"]
                           /\ pc'[f]["sender"] = IF f = e THEN "type" ELSE pc[f]["sender"]
  BY <1>1, GotoEffect DEF Threads
<1>5. /\ out'[e]["sender"] = x
      /\ \A f \in Endpoints : /\ out'[f]["app"] = out[f]["app"]
                              /\ f # e => out'[f]["sender"] = out[f]["sender"]
  <2> HIDE DEF x
  <2>1. QED  BY <1>1, OutEffect
<1>6. Own(e)' = Own(e) /\ MailFor(e)' = MailFor(e) /\ ReceiptsFor(e)' = ReceiptsFor(e)
  BY <1>1 DEF Own, MailFor, ReceiptsFor, ReadWhole, Ways, OneWay
<1>7. ASSUME NEW f \in Endpoints PROVE QueuesTraced(f)'
  <2>1. CASE f # e
    BY <1>1, <1>2, <2>1, Kept
  <2>2. CASE f = e
    BY <1>1, <1>2, <1>3, <1>6, <2>2 DEF QueuesTraced
  <2>3. QED  BY <2>1, <2>2
<1>8. ASSUME NEW f \in Endpoints PROVE SenderTraced(f)'
  <2>1. CASE f # e
    BY <1>1, <1>4, <1>5, <2>1, Kept
  <2>2. CASE f = e
    BY <1>3, <1>4, <1>5, <1>6, <2>2 DEF SenderTraced, Sending, Filling
  <2>3. QED  BY <2>1, <2>2
<1>9. ASSUME NEW f \in Endpoints
      PROVE  AppTraced(f)' /\ BufferTraced(f)' /\ ListenerTraced(f)'
  BY <1>1, <1>4, <1>5, Kept
<1>10. NetTraced'
  BY <1>1, Kept
<1>11. QED  BY <1>7, <1>8, <1>9, <1>10 DEF Traced

\* checkAckQueue, from the removal of an acknowledgement or from its return to the queue.
LEMMA CheckTraced ==
  ASSUME TypeOK, Traced, NEW e \in Endpoints, CheckAckQueue(e) \/ PushBack(e)
  PROVE  Traced'
<1> DEFINE a == Head(ackQueue[e])
<1>1. /\ UNCHANGED <<inQueue, outQueue, proto, incoming, net, read>>
      /\ pc[e]["sender"] \in {"check", "pushback"}
  BY DEF CheckAckQueue, PushBack
<1>2. /\ QueuesTraced(e) /\ SenderTraced(e)
      /\ ackQueue \in [Endpoints -> QueuesOf(Receipts)]
      /\ held \in [Endpoints -> Receipts \cup {NoAck}]
  BY DEF Traced, TypeOK, QueuesOK, EnvelopesOK
<1>3. /\ ackQueue[e] # <<>> => a \in ReceiptsFor(e) /\ Tail(ackQueue[e]) \in Seq(ReceiptsFor(e))
      /\ pc[e]["sender"] = "pushback" => held[e] \in ReceiptsFor(e)
  BY <1>2, SeqFacts DEF QueuesTraced, SenderTraced
<1>4. Own(e)' = Own(e) /\ MailFor(e)' = MailFor(e) /\ ReceiptsFor(e)' = ReceiptsFor(e)
  BY <1>1 DEF Own, MailFor, ReceiptsFor, ReadWhole, Ways, OneWay
<1>5. \/ /\ out' = out
         /\ \/ Goto(e, "sender", "type")
            \/ /\ Goto(e, "sender", "pushback") /\ CheckAckQueue(e) /\ ackQueue[e] # <<>>
               /\ a.counter > 1 /\ held' = [held EXCEPT ![e] = [a EXCEPT !.counter = @ - 1]]
      \/ /\ out' = [out EXCEPT ![e]["sender"] = Nothing]
         /\ Goto(e, "sender", Again(e))
  BY DEF CheckAckQueue, PushBack, NextAttempt, SendingReturns
<1>6. /\ \A f \in Endpoints : /\ pc'[f]["app"] = pc[f]["app"]
                              /\ pc'[f]["listener"] = pc[f]["listener"]
                              /\ f # e => pc'[f]["sender"] = pc[f]["sender"]
      /\ pc'[e]["sender"] \in {"type", "pushback", "wait", "exited"}
  <2>1. PICK at \in {"type", "pushback", "wait", "exited"} : Goto(e, "sender", at)
    BY <1>5 DEF Again
  <2>2. QED  BY <2>1, GotoEffect DEF Threads
<1>7. \A f \in Endpoints : /\ out'[f]["app"] = out[f]["app"]
                           /\ f # e => out'[f]["sender"] = out[f]["sender"]
  BY <1>5, OutEffect
<1>8. ASSUME NEW f \in Endpoints PROVE QueuesTraced(f)'
  <2>1. CASE f # e
    <3>1. ackQueue'[f] = ackQueue[f]
      BY <1>2, <2>1 DEF CheckAckQueue, PushBack
    <3>2. QED  BY <1>1, <3>1, Kept
  <2>2. CASE f = e
    <3>1. ackQueue'[e] \in Seq(ReceiptsFor(e))
      <4>1. ackQueue[e] \in Seq(ReceiptsFor(e))
        BY <1>2 DEF QueuesTraced
      <4>2. CASE CheckAckQueue(e)
        BY <1>2, <1>3, <4>1, <4>2 DEF CheckAckQueue
      <4>3. CASE PushBack(e)
        <5>1. Append(ackQueue[e], held[e]) \in Seq(ReceiptsFor(e))
          BY <1>3, <4>1, <4>3, SeqFacts DEF PushBack
        <5>2. QED  BY <1>2, <4>1, <4>3, <5>1 DEF PushBack
      <4>4. QED  BY <4>2, <4>3
    <3>2. QED  BY <1>1, <1>2, <1>4, <2>2, <3>1 DEF QueuesTraced
  <2>3. QED  BY <2>1, <2>2
<1>9. ASSUME NEW f \in Endpoints PROVE SenderTraced(f)'
  <2>1. CASE f # e
    <3>1. held'[f] = held[f]
      BY <1>2, <2>1 DEF CheckAckQueue, PushBack
    <3>2. QED  BY <1>1, <1>6, <1>7, <2>1, <3>1, Kept
  <2>2. CASE f = e
    <3>1. pc'[e]["sender"] \in {"type", "pushback"} => out' = out
      BY <1>5, GotoEffect DEF Again, Threads
    <3>2. pc'[e]["sender"] = "pushback" => held'[e] \in ReceiptsFor(e)
      <4> SUFFICES ASSUME pc'[e]["sender"] = "pushback" PROVE held'[e] \in ReceiptsFor(e)
        OBVIOUS
      <4>1. /\ ackQueue[e] # <<>> /\ a.counter > 1
            /\ held' = [held EXCEPT ![e] = [a EXCEPT !.counter = @ - 1]]
        BY <1>5, GotoEffect DEF Again, Threads
      <4>2. a \in ReceiptsFor(e) /\ a \in Receipts
        BY <1>3, <4>1 DEF ReceiptsFor
      <4>3. /\ [a EXCEPT !.counter = @ - 1] \in Receipts
            /\ [a EXCEPT !.counter = @ - 1].stamp = a.stamp
        BY <4>1, <4>2, BoundsAssumption DEF Receipts
      <4>4. [a EXCEPT !.counter = @ - 1] \in ReceiptsFor(e)
        BY <4>2, <4>3 DEF ReceiptsFor
      <4>5. QED  BY <1>2, <4>1, <4>4
    <3>3. QED
      BY <1>1, <1>2, <1>4, <1>6, <2>2, <3>1, <3>2 DEF SenderTraced, Sending, Filling
  <2>3. QED  BY <2>1, <2>2
<1>10. ASSUME NEW f \in Endpoints
       PROVE  AppTraced(f)' /\ BufferTraced(f)' /\ ListenerTraced(f)'
  <2>1. \A u \in {"sender", "app"} : pc'[f][u] = "sendto" => pc[f][u] = "sendto"
    BY <1>6
  <2>2. QED  BY <1>1, <1>6, <1>7, <2>1, Kept
<1>11. NetTraced'
  BY <1>1, Kept
<1>12. QED  BY <1>8, <1>9, <1>10, <1>11 DEF Traced

\* The listener thread.
LEMMA RecvDataGramTraced ==
  ASSUME TypeOK, Traced, NEW e \in Endpoints, RecvDataGram(e)
  PROVE  Traced'
<1>1. /\ UNCHANGED <<inQueue, outQueue, ackQueue, proto, out, held, read>>
      /\ net' \subseteq net
      /\ Goto(e, "listener", "store")
  BY DEF RecvDataGram, queues, history
<1>2. PICK d \in net : d.to = e /\ incoming' = [incoming EXCEPT ![e] = d]
  BY DEF RecvDataGram
<1>3. incoming \in [Endpoints -> Datagrams] /\ d \in DatagramsFor(e)
  BY <1>2 DEF TypeOK, EnvelopesOK, Traced, NetTraced
<1>4. \A f \in Endpoints : /\ pc'[f]["sender"] = pc[f]["sender"]
                           /\ pc'[f]["app"] = pc[f]["app"]
                           /\ pc'[f]["listener"] = IF f = e THEN "store" ELSE pc[f]["listener"]
  BY <1>1, GotoEffect DEF Threads
<1>5. ASSUME NEW f \in Endpoints
      PROVE  QueuesTraced(f)' /\ SenderTraced(f)' /\ AppTraced(f)' /\ BufferTraced(f)'
  BY <1>1, <1>4, Kept
<1>6. ASSUME NEW f \in Endpoints PROVE ListenerTraced(f)'
  <2>1. CASE f # e
    BY <1>1, <1>2, <1>3, <1>4, <2>1, Kept
  <2>2. CASE f = e
    <3>1. DatagramsFor(e)' = DatagramsFor(e)
      BY <1>1 DEF DatagramsFor, ReadWhole, Ways, OneWay
    <3>2. QED  BY <1>2, <1>3, <1>4, <2>2, <3>1 DEF ListenerTraced
  <2>3. QED  BY <2>1, <2>2
<1>7. NetTraced'
  BY <1>1, Kept
<1>8. QED  BY <1>5, <1>6, <1>7 DEF Traced

LEMMA StoreTraced ==
  ASSUME TypeOK, Traced, NEW e \in Endpoints,
         StoreTstampToAckQueue(e) \/ StoreEnvToInQueue(e) \/ DropEarliest(e)
  PROVE  Traced'
<1>1. /\ UNCHANGED <<outQueue, proto, out, held, net, read>>
      /\ pc[e]["listener"] \in {"store", "drop"}
  BY DEF StoreTstampToAckQueue, StoreEnvToInQueue, DropEarliest, history
<1>2. /\ QueuesTraced(e) /\ ListenerTraced(e)
      /\ ackQueue \in [Endpoints -> QueuesOf(Receipts)]
      /\ inQueue \in [Endpoints -> QueuesOf(Mail)]
      /\ incoming \in [Endpoints -> Datagrams]
  BY DEF Traced, TypeOK, QueuesOK, EnvelopesOK
<1>3. \/ incoming' = incoming /\ (Goto(e, "listener", "drop") \/ Goto(e, "listener", "store"))
      \/ incoming' = [incoming EXCEPT ![e] = NoDatagram] /\ Goto(e, "listener", Again(e))
  BY DEF StoreTstampToAckQueue, StoreEnvToInQueue, DropEarliest, Stored
<1>4. /\ \A f \in Endpoints : /\ pc'[f]["sender"] = pc[f]["sender"]
                              /\ pc'[f]["app"] = pc[f]["app"]
                              /\ f # e => pc'[f]["listener"] = pc[f]["listener"]
      /\ pc'[e]["listener"] \in {"store", "drop", "wait", "exited"}
  <2>1. PICK at \in {"store", "drop", "wait", "exited"} : Goto(e, "listener", at)
    BY <1>3 DEF Again
  <2>2. QED  BY <2>1, GotoEffect DEF Threads
<1>5. incoming[e] \in DatagramsFor(e)
  BY <1>1, <1>2 DEF ListenerTraced
<1>6. [stamp |-> incoming[e].stamp, counter |-> AckLife] \in ReceiptsFor(e)
  BY <1>5, BoundsAssumption DEF DatagramsFor, ReceiptsFor, Receipts
<1> DEFINE env == [stamp |-> incoming[e].stamp, payload |-> incoming[e].payload,
                   from |-> incoming[e].from]
<1>7. incoming[e].type = "user" => env \in MailFor(e)
  BY <1>5 DEF DatagramsFor, MailFor, Mail
<1>8. ASSUME NEW f \in Endpoints PROVE QueuesTraced(f)'
  <2>1. CASE f # e
    <3>1. inQueue'[f] = inQueue[f] /\ ackQueue'[f] = ackQueue[f]
      BY <1>2, <2>1 DEF StoreTstampToAckQueue, StoreEnvToInQueue, DropEarliest
    <3>2. QED  BY <1>1, <3>1, Kept
  <2>2. CASE f = e
    <3>1. inQueue[e] \in Seq(MailFor(e)) /\ ackQueue[e] \in Seq(ReceiptsFor(e))
      BY <1>2 DEF QueuesTraced
    <3>2. ackQueue'[e] \in Seq(ReceiptsFor(e))
      <4>1. /\ Rest(ackQueue[e]) \in Seq(ReceiptsFor(e))
            /\ Append(ackQueue[e], [stamp |-> incoming[e].stamp, counter |-> AckLife])
                 \in Seq(ReceiptsFor(e))
        BY <1>6, <3>1, SeqFacts
      <4>2. QED
        BY <1>2, <3>1, <4>1 DEF StoreTstampToAckQueue, StoreEnvToInQueue, DropEarliest
    <3>3. inQueue'[e] \in Seq(MailFor(e))
      <4>1. /\ Rest(inQueue[e]) \in Seq(MailFor(e))
            /\ incoming[e].type = "user" => Append(inQueue[e], env) \in Seq(MailFor(e))
        BY <1>7, <3>1, SeqFacts
      <4>2. QED
        BY <1>2, <3>1, <4>1 DEF StoreTstampToAckQueue, StoreEnvToInQueue, DropEarliest
    <3>4. Own(e)' = Own(e) /\ MailFor(e)' = MailFor(e) /\ ReceiptsFor(e)' = ReceiptsFor(e)
      BY <1>1 DEF Own, MailFor, ReceiptsFor, ReadWhole, Ways, OneWay
    <3>5. QED  BY <1>1, <1>2, <2>2, <3>2, <3>3, <3>4 DEF QueuesTraced
  <2>3. QED  BY <2>1, <2>2
<1>9. ASSUME NEW f \in Endpoints
      PROVE  SenderTraced(f)' /\ AppTraced(f)' /\ BufferTraced(f)'
  BY <1>1, <1>4, Kept
<1>10. ASSUME NEW f \in Endpoints PROVE ListenerTraced(f)'
  <2>1. CASE f # e
    BY <1>1, <1>2, <1>3, <1>4, <2>1, Kept
  <2>2. CASE f = e
    <3>1. pc'[e]["listener"] \in {"store", "drop"} => incoming' = incoming
      BY <1>3, GotoEffect DEF Again, Threads
    <3>2. DatagramsFor(e)' = DatagramsFor(e)
      BY <1>1 DEF DatagramsFor, ReadWhole, Ways, OneWay
    <3>3. QED  BY <1>4, <1>5, <2>2, <3>1, <3>2 DEF ListenerTraced
  <2>3. QED  BY <2>1, <2>2
<1>11. NetTraced'
  BY <1>1, Kept
<1>12. QED  BY <1>8, <1>9, <1>10, <1>11 DEF Traced

LEMMA ExitTraced ==
  ASSUME TypeOK, Traced, NEW e \in Endpoints, NEW t \in Threads, Exit(e, t)
  PROVE  Traced'
<1>1. /\ UNCHANGED <<inQueue, outQueue, ackQueue, proto, out, held, incoming, net, read>>
      /\ t # "app" /\ Goto(e, t, "exited")
  BY DEF Exit, queues, history
<1>2. \A f \in Endpoints, u \in Threads :
        pc'[f][u] = IF f = e /\ u = t THEN "exited" ELSE pc[f][u]
  BY <1>1, GotoEffect
<1>3. ASSUME NEW f \in Endpoints
      PROVE  QueuesTraced(f)' /\ AppTraced(f)' /\ BufferTraced(f)'
  BY <1>1, <1>2, Kept DEF Threads
<1>4. ASSUME NEW f \in Endpoints PROVE SenderTraced(f)'
  <2>1. CASE pc'[f]["sender"] = pc[f]["sender"]
    BY <1>1, <2>1, Kept
  <2>2. CASE pc'[f]["sender"] = "exited"
    BY <2>2 DEF SenderTraced
  <2>3. QED  BY <1>2, <2>1, <2>2 DEF Threads
<1>5. ASSUME NEW f \in Endpoints PROVE ListenerTraced(f)'
  <2>1. CASE pc'[f]["listener"] = pc[f]["listener"]
    BY <1>1, <2>1, Kept
  <2>2. CASE pc'[f]["listener"] = "exited"
    BY <2>2 DEF ListenerTraced
  <2>3. QED  BY <1>2, <2>1, <2>2 DEF Threads
<1>6. NetTraced'
  BY <1>1, Kept
<1>7. QED  BY <1>3, <1>4, <1>5, <1>6 DEF Traced

LEMMA NextTraced == IInv /\ [Next]_vars => Traced'
<1> SUFFICES ASSUME TypeOK, Traced, [Next]_vars PROVE Traced'
  BY DEF IInv
<1>1. CASE \E m \in Msgs : SendEnvelope(m)
  BY <1>1, SendEnvelopeTraced
<1>2. ASSUME NEW e \in Endpoints, SenderStep(e) PROVE Traced'
  BY <1>2, ExitTraced, SendEnvFromOutQueueTraced, TransmitTraced, CheckTraced
  DEF SenderStep, Threads
<1>3. ASSUME NEW e \in Endpoints, ListenerStep(e) PROVE Traced'
  BY <1>3, ExitTraced, RecvDataGramTraced, StoreTraced DEF ListenerStep, Threads
<1>4. CASE UNCHANGED <<inQueue, outQueue, ackQueue, proto, pc, out, held, incoming, net, read>>
  <2>1. ASSUME NEW f \in Endpoints
        PROVE  /\ QueuesTraced(f)' /\ SenderTraced(f)' /\ AppTraced(f)'
               /\ BufferTraced(f)' /\ ListenerTraced(f)'
    BY <1>4, Kept
  <2>2. NetTraced'
    <3>1. Ways' = Ways /\ \A m : ReadWhole(m)' = ReadWhole(m)
      BY <1>4 DEF Ways, OneWay, ReadWhole
    <3>2. \A f : DatagramsFor(f)' = DatagramsFor(f)
      BY <3>1 DEF DatagramsFor
    <3>3. QED  BY <1>4, <3>2 DEF Traced, NetTraced
  <2>3. QED  BY <2>1, <2>2 DEF Traced
<1>5. ASSUME NEW e \in Endpoints, AppStep(e) PROVE Traced'
  <2>1. CASE Stop(e)
    BY <1>4, <2>1 DEF Stop, queues, history
  <2>2. QED  BY <1>5, <2>1, TryReceiveEnvelopeTraced, TransmitTraced DEF AppStep
<1>6. CASE UNCHANGED vars
  BY <1>4, <1>6 DEF vars
<1>7. QED  BY <1>1, <1>2, <1>3, <1>5, <1>6 DEF Next

(* In every reachable state the variables have their types, no queue exceeds its
   capacity, and every time stamp is where its history lets it be. *)
THEOREM UdpInvariant == Spec => []IInv
<1>1. Init => IInv
  BY InitIInv
<1>2. IInv /\ [Next]_vars => IInv'
  BY NextTypes, NextTraced DEF IInv
<1>3. QED  BY <1>1, <1>2, PTL DEF Spec

(* The queues of an endpoint stay within messageQueueSize, and its buffers, datagrams
   and threads are what TypeOK says they are (UdpEndpointBase.hpp, CircularBuffer.hpp). *)
THEOREM UdpTypes == Spec => []TypeOK
<1>1. IInv => TypeOK
  BY DEF IInv
<1>2. QED  BY <1>1, UdpInvariant, PTL

--------------------------------------------------------------------------------
LEMMA NextAcknowledged ==
  ASSUME NEW c \in Ways, IInv, AckMeansReadFor(c), [Next]_vars
  PROVE  AckMeansReadFor(c)'
<1> SUFFICES ASSUME NEW m \in Msgs, From[m] = c, status'[m] = "acked"
             PROVE  <<To[m], m, m>> \in read'
  BY DEF AckMeansReadFor
<1>1. status \in [Msgs -> Statuses]
  BY DEF IInv, TypeOK, HistoryOK
<1>2. read \subseteq read'
  BY DEF Next, SenderStep, ListenerStep, AppStep, SendEnvelope, Exit, Transmit, SetType,
     SetStamp, SetPayload, SendTo, SendEnvFromOutQueue, CheckAckQueue, PushBack, RecvDataGram,
     StoreTstampToAckQueue, StoreEnvToInQueue, DropEarliest, TryReceiveEnvelope, Stop,
     history, vars
<1>3. CASE status[m] = "acked"
  BY <1>2, <1>3 DEF AckMeansReadFor
<1>4. CASE \E e \in Endpoints : /\ CheckAckQueue(e) /\ ackQueue[e] # <<>>
                                /\ IsAckFor(Head(ackQueue[e]), Sending(e))
                                /\ Sending(e) = m
  <2>1. PICK e \in Endpoints : /\ CheckAckQueue(e) /\ ackQueue[e] # <<>>
                               /\ Head(ackQueue[e]).stamp = m /\ Sending(e) = m
    BY <1>4 DEF IsAckFor
  <2>2. Head(ackQueue[e]) \in ReceiptsFor(e) /\ From[m] = e
    BY <2>1, SeqFacts DEF CheckAckQueue, IInv, Traced, QueuesTraced, SenderTraced, Own
  <2>3. ReadWhole(m)
    BY <2>1, <2>2 DEF ReceiptsFor
  <2>4. QED  BY <1>2, <2>3 DEF ReadWhole
<1>5. QED
  <2>1. CASE status' = status
    BY <1>3, <2>1
  <2>2. ASSUME NEW n \in Msgs, NEW s \in Statuses \ {"acked"},
               status' = [status EXCEPT ![n] = s]
        PROVE  status[m] = "acked"
    BY <1>1, <2>2
  <2>3. ASSUME NEW n \in Msgs, SendEnvelope(n) PROVE status[m] = "acked"
    BY <1>1, <2>3 DEF SendEnvelope
  <2>4. ASSUME NEW e \in Endpoints, SendEnvFromOutQueue(e) PROVE status[m] = "acked"
    BY <1>1, <2>4 DEF SendEnvFromOutQueue
  <2>5. ASSUME NEW e \in Endpoints, NextAttempt(e) PROVE status[m] = "acked"
    BY <1>1, <2>5 DEF NextAttempt, SendingReturns
  <2>6. ASSUME NEW e \in Endpoints, PushBack(e) PROVE status[m] = "acked"
    BY <2>5, <2>6 DEF PushBack
  <2>7. ASSUME NEW e \in Endpoints, CheckAckQueue(e) PROVE <<To[m], m, m>> \in read'
    <3>1. CASE NextAttempt(e)
      BY <1>3, <2>5, <3>1
    <3>2. CASE status' = status
      BY <2>1, <3>2
    <3>3. CASE /\ ackQueue[e] # <<>> /\ IsAckFor(Head(ackQueue[e]), Sending(e))
               /\ SendingReturns(e, "acked")
      <4>1. CASE Sending(e) = m
        BY <1>4, <2>7, <3>3, <4>1
      <4>2. CASE Sending(e) # m
        BY <1>1, <1>3, <3>3, <4>2 DEF SendingReturns
      <4>3. QED  BY <4>1, <4>2
    <3>4. QED  BY <2>7, <3>1, <3>2, <3>3 DEF CheckAckQueue
  <2>8. QED
    BY <1>3, <2>1, <2>3, <2>4, <2>6, <2>7
    DEF Next, SenderStep, ListenerStep, AppStep, Exit, Transmit, SetType, SetStamp, SetPayload,
        SendTo,
        RecvDataGram, StoreTstampToAckQueue, StoreEnvToInQueue, DropEarliest,
        TryReceiveEnvelope, Stop, history, vars

(* An endpoint that is sent nothing, and sends only to endpoints that send nothing,
   takes no acknowledgement for that of a message its addressee has not read, with the
   payload it was given: for any number of messages, any queue sizes and attempts,
   whatever the other endpoints do to each other, and over a network that loses,
   delays, reorders and duplicates (UdpEndpointBase.cpp:78-123, 150-165).  Traffic both
   ways, between two endpoints only, is enough for the contrary. *)
THEOREM OneWayAcknowledgedIsRead ==
  \A c \in Endpoints : OneWay(c) => (Spec => []AckMeansReadFor(c))
<1> SUFFICES ASSUME NEW c \in Endpoints, OneWay(c) PROVE Spec => []AckMeansReadFor(c)
  OBVIOUS
<1>1. Init => AckMeansReadFor(c)
  BY DEF Init, AckMeansReadFor
<1>2. IInv /\ AckMeansReadFor(c) /\ [Next]_vars => AckMeansReadFor(c)'
  BY NextAcknowledged DEF Ways
<1>3. QED  BY <1>1, <1>2, UdpInvariant, PTL DEF Spec

(* Where no endpoint both sends messages and is sent some, AckMeansRead holds of all: a
   server that only notifies its clients, or clients that only report to it
   (UdpEndpointBase.cpp:78-123, 150-165). *)
THEOREM AcknowledgedIsRead ==
  (\A m, k \in Msgs : From[m] # To[k]) => (Spec => []AckMeansRead)
<1> SUFFICES ASSUME \A m, k \in Msgs : From[m] # To[k] PROVE Spec => []AckMeansRead
  OBVIOUS
<1>1. Init => AckMeansRead
  BY DEF Init, AckMeansRead, AckMeansReadFor
<1>2. IInv /\ AckMeansRead /\ [Next]_vars => AckMeansRead'
  <2> SUFFICES ASSUME IInv, AckMeansRead, [Next]_vars, NEW e \in Endpoints
               PROVE  AckMeansReadFor(e)'
    BY DEF AckMeansRead
  <2>1. CASE Own(e) = {}
    BY <2>1 DEF Own, AckMeansReadFor
  <2>2. CASE Own(e) # {}
    <3>1. e \in Ways
      BY <2>2 DEF Own, Ways, OneWay
    <3>2. QED  BY <3>1, NextAcknowledged DEF AckMeansRead
  <2>3. QED  BY <2>1, <2>2
<1>3. QED  BY <1>1, <1>2, UdpInvariant, PTL DEF Spec
================================================================================
