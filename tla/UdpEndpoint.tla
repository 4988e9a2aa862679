------------------------------ MODULE UdpEndpoint ------------------------------
(***************************************************************************)
(* common/endpoint/UdpEndpointBase: endpoints that exchange envelopes over *)
(* UDP and retransmit until they are acknowledged.  In each endpoint run   *)
(* the sender thread, the listener thread and the application's thread,    *)
(* which share three queues and one output buffer.                         *)
(*                                                                         *)
(* A message is known by its time stamp, here the message itself: no two   *)
(* stamps are equal.  Its payload, which stands for all that is converted  *)
(* after the stamp (data type, ids and text), is the message as well; an   *)
(* acknowledgement's is empty.  The queues are the FIFOs that module       *)
(* CircularBuffer shows the ring to implement.  The network loses, delays, *)
(* reorders and duplicates datagrams.                                      *)
(***************************************************************************)
EXTENDS Naturals, Sequences, FiniteSets

CONSTANTS Endpoints, Msgs,
          From, To,         \* who sends each message, and to whom
          QueueSize,        \* messageQueueSize
          Attempts,         \* how often a message is sent before it is given up
          AckLife,          \* ExpiringAck::counter of a new acknowledgement
          Destroyed,        \* the endpoints whose destructor may be called
          InFlight,         \* bound: how many datagrams the network holds at once
          Duplicates,       \* may a datagram arrive more than once?
          NoMsg,            \* no stamp, and the payload of an acknowledgement
          NoEndpoint

ASSUME AddressAssumption ==
  /\ From \in [Msgs -> Endpoints] /\ To \in [Msgs -> Endpoints]
  /\ \A m \in Msgs : From[m] # To[m]
ASSUME BoundsAssumption ==
  /\ QueueSize \in Nat \ {0} /\ Attempts \in Nat \ {0} /\ AckLife \in Nat \ {0}
  /\ Duplicates \in BOOLEAN
ASSUME NoMsgAssumption == NoMsg \notin Msgs

VARIABLES inQueue,   \* inQueue[e]: messages received, with their sender's address
          outQueue,  \* outQueue[e]: messages to send
          ackQueue,  \* ackQueue[e]: acknowledgements received, each with its counter
          proto,     \* proto[e]: proto_message_buffer_out, which buffer_out follows
          isRunning,
          pc,        \* pc[e][t]: what thread t of endpoint e does next
          out,       \* out[e][t]: the envelope t is sending, and its addressee
          attempt,   \* attempt[e]: the sender's loop counter
          held,      \* held[e]: the acknowledgement the sender is about to put back
          incoming,  \* incoming[e]: the datagram the listener holds
          net        \* the datagrams on their way

(* History: what each message's sender knows of it, and who has read what, with which
   stamp and payload. *)
VARIABLES status, read

queues == <<inQueue, outQueue, ackQueue>>
history == <<status, read>>
vars == <<inQueue, outQueue, ackQueue, proto, isRunning, pc, out, attempt, held, incoming,
          net, status, read>>

Threads == {"sender", "listener", "app"}
Types == {"user", "ack"}

\* The contents of out, held and incoming when they are not in use.
Nothing == [type |-> "user", stamp |-> NoMsg, payload |-> NoMsg, to |-> NoEndpoint]
NoAck == [stamp |-> NoMsg, counter |-> 0]
NoDatagram == [type |-> "user", stamp |-> NoMsg, payload |-> NoMsg,
               from |-> NoEndpoint, to |-> NoEndpoint]

Init ==
  /\ inQueue = [e \in Endpoints |-> <<>>]
  /\ outQueue = [e \in Endpoints |-> <<>>]
  /\ ackQueue = [e \in Endpoints |-> <<>>]
  /\ proto = [e \in Endpoints |-> [type |-> "user", stamp |-> NoMsg, payload |-> NoMsg]]
  /\ isRunning = [e \in Endpoints |-> TRUE]
  /\ pc = [e \in Endpoints |-> [t \in Threads |-> "wait"]]
  /\ out = [e \in Endpoints |-> [t \in {"sender", "app"} |-> Nothing]]
  /\ attempt = [e \in Endpoints |-> 0]
  /\ held = [e \in Endpoints |-> NoAck]
  /\ incoming = [e \in Endpoints |-> NoDatagram]
  /\ net = {}
  /\ status = [m \in Msgs |-> "new"]
  /\ read = {}

Goto(e, t, at) == pc' = [pc EXCEPT ![e][t] = at]

\* The next iteration of repeatingSend or repeatingListen, or its end.
Again(e) == IF isRunning[e] THEN "wait" ELSE "exited"

HasRoomMutant(q) == Len(q) <= QueueSize
HasRoom(q) == Len(q) < QueueSize

Sending(e) == out[e]["sender"].stamp

--------------------------------------------------------------------------------
(* sendDataGram, by the sender for a message and by the application for an
   acknowledgement.  Both fill the same buffer, field by field, and then send what
   is in it. *)

SendDataGram(e, t, env) ==
  /\ out' = [out EXCEPT ![e][t] = env]
  /\ Goto(e, t, "type")

SetType(e, t) ==
  /\ pc[e][t] = "type"
  /\ proto' = [proto EXCEPT ![e].type = out[e][t].type]
  /\ Goto(e, t, "stamp")
  /\ UNCHANGED <<queues, isRunning, out, attempt, held, incoming, net, history>>

SetStamp(e, t) ==
  /\ pc[e][t] = "stamp"
  /\ proto' = [proto EXCEPT ![e].stamp = out[e][t].stamp]
  /\ Goto(e, t, "payload")
  /\ UNCHANGED <<queues, isRunning, out, attempt, held, incoming, net, history>>

SetPayload(e, t) ==
  /\ pc[e][t] = "payload"
  /\ proto' = [proto EXCEPT ![e].payload = out[e][t].payload]
  /\ Goto(e, t, "sendto")
  /\ UNCHANGED <<queues, isRunning, out, attempt, held, incoming, net, history>>

SendTo(e, t) ==
  /\ pc[e][t] = "sendto"
  /\ \/ net' = net
     \/ /\ Cardinality(net) < InFlight
        /\ net' = net \cup {[type |-> proto[e].type, stamp |-> proto[e].stamp,
                             payload |-> proto[e].payload, from |-> e, to |-> out[e][t].to]}
  /\ \/ t = "sender" /\ Goto(e, t, "check") /\ out' = out
     \/ t = "app" /\ Goto(e, t, "wait") /\ out' = [out EXCEPT ![e][t] = Nothing]
  /\ UNCHANGED <<queues, proto, isRunning, attempt, held, incoming, history>>

--------------------------------------------------------------------------------
(* The application, one thread: sendEnvelope, tryReceiveEnvelope, the destructor. *)

\* A full outQueue drops the message, and nobody is told.
SendEnvelope(m) ==
  LET e == From[m]
  IN  /\ pc[e]["app"] = "wait" /\ isRunning[e]
      /\ status[m] = "new"
      /\ IF HasRoom(outQueue[e])
         THEN /\ outQueue' = [outQueue EXCEPT ![e] = Append(@, m)]
              /\ status' = [status EXCEPT ![m] = "queued"]
         ELSE /\ status' = [status EXCEPT ![m] = "refused"]
              /\ outQueue' = outQueue
      /\ UNCHANGED <<inQueue, ackQueue, proto, isRunning, pc, out, attempt, held, incoming,
                     net, read>>

TryReceiveEnvelope(e) ==
  LET d == Head(inQueue[e])
  IN  /\ pc[e]["app"] = "wait" /\ isRunning[e]
      /\ inQueue[e] # <<>>
      /\ inQueue' = [inQueue EXCEPT ![e] = Tail(@)]
      /\ read' = read \cup {<<e, d.stamp, d.payload>>}
      /\ SendDataGram(e, "app", [type |-> "ack", stamp |-> d.stamp, payload |-> NoMsg,
                                 to |-> d.from])
      /\ UNCHANGED <<outQueue, ackQueue, proto, isRunning, attempt, held, incoming, net, status>>

Stop(e) ==
  /\ e \in Destroyed
  /\ pc[e]["app"] = "wait" /\ isRunning[e]
  /\ isRunning' = [isRunning EXCEPT ![e] = FALSE]
  /\ UNCHANGED <<queues, proto, pc, out, attempt, held, incoming, net, history>>

--------------------------------------------------------------------------------
\* A thread that has not tested isRunning again since the destructor cleared it.
ExitMutant(e, t) ==
  /\ t = "sender" /\ pc[e][t] = "wait"
  /\ ~isRunning[e]
  /\ Goto(e, t, "exited")
  /\ UNCHANGED <<queues, proto, isRunning, out, attempt, held, incoming, net, history>>
Exit(e, t) ==
  /\ t # "app" /\ pc[e][t] = "wait"
  /\ ~isRunning[e]
  /\ Goto(e, t, "exited")
  /\ UNCHANGED <<queues, proto, isRunning, out, attempt, held, incoming, net, history>>

(* The sender thread: sendEnvFromOutQueue, once every millisecond. *)
SendEnvFromOutQueue(e) ==
  LET m == Head(outQueue[e])
  IN  /\ pc[e]["sender"] = "wait"
      /\ outQueue[e] # <<>>
      /\ outQueue' = [outQueue EXCEPT ![e] = Tail(@)]
      /\ status' = [status EXCEPT ![m] = "sending"]
      /\ SendDataGram(e, "sender", [type |-> "user", stamp |-> m, payload |-> m, to |-> To[m]])
      /\ UNCHANGED <<inQueue, ackQueue, proto, isRunning, attempt, held, incoming, net, read>>

(* sendEnvFromOutQueue returns, with the message acknowledged or given up. *)
SendingReturns(e, s) ==
  /\ status' = [status EXCEPT ![Sending(e)] = s]
  /\ out' = [out EXCEPT ![e]["sender"] = Nothing]
  /\ attempt' = [attempt EXCEPT ![e] = 0]
  /\ Goto(e, "sender", Again(e))

\* No acknowledgement this time: try again, or give the message up.
NextAttemptMutant(e) ==
  /\ Goto(e, "sender", "type")
  /\ UNCHANGED <<attempt, out, status>>
NextAttempt(e) ==
  \/ /\ attempt[e] + 1 < Attempts
     /\ attempt' = [attempt EXCEPT ![e] = @ + 1]
     /\ Goto(e, "sender", "type")
     /\ UNCHANGED <<out, status>>
  \/ /\ attempt[e] + 1 = Attempts
     /\ SendingReturns(e, "abandoned")

\* checkAckQueue, after a sleep: one acknowledgement is looked at each time.
IsAckForMutant(a, m) == TRUE
IsAckFor(a, m) == a.stamp = m

CheckAckQueue(e) ==
  LET a == Head(ackQueue[e])
  IN  /\ pc[e]["sender"] = "check"
      /\ \/ /\ ackQueue[e] = <<>>
            /\ NextAttempt(e)
            /\ UNCHANGED <<ackQueue, held>>
         \/ /\ ackQueue[e] # <<>>
            /\ ackQueue' = [ackQueue EXCEPT ![e] = Tail(@)]
            /\ \/ /\ IsAckFor(a, Sending(e))
                  /\ SendingReturns(e, "acked")
                  /\ held' = held
               \/ /\ ~IsAckFor(a, Sending(e)) /\ a.counter > 1
                  /\ held' = [held EXCEPT ![e] = [a EXCEPT !.counter = @ - 1]]
                  /\ Goto(e, "sender", "pushback")
                  /\ UNCHANGED <<attempt, out, status>>
               \/ /\ ~IsAckFor(a, Sending(e)) /\ a.counter = 1
                  /\ NextAttempt(e)
                  /\ held' = held
      /\ UNCHANGED <<inQueue, outQueue, proto, isRunning, incoming, net, read>>

\* The listener may have filled the queue: then the acknowledgement is lost.
PushBack(e) ==
  /\ pc[e]["sender"] = "pushback"
  /\ ackQueue' = IF HasRoom(ackQueue[e])
                 THEN [ackQueue EXCEPT ![e] = Append(@, held[e])] ELSE ackQueue
  /\ held' = [held EXCEPT ![e] = NoAck]
  /\ NextAttempt(e)
  /\ UNCHANGED <<inQueue, outQueue, proto, isRunning, incoming, net, read>>

--------------------------------------------------------------------------------
(* The listener thread: poll for 100 ms, receive, store. *)

RecvDataGram(e) ==
  /\ pc[e]["listener"] = "wait"
  /\ \E d \in net :
       /\ d.to = e
       /\ incoming' = [incoming EXCEPT ![e] = d]
       /\ \/ net' = net \ {d}
          \/ Duplicates /\ net' = net
  /\ Goto(e, "listener", "store")
  /\ UNCHANGED <<queues, proto, isRunning, out, attempt, held, history>>

\* storeTstampToAckQueue and storeEnvToInQueue: push until there is room, dropping
\* the oldest entry each time there is none.
Stored(e) ==
  /\ incoming' = [incoming EXCEPT ![e] = NoDatagram]
  /\ Goto(e, "listener", Again(e))

StoreTstampToAckQueue(e) ==
  LET ack == [stamp |-> incoming[e].stamp, counter |-> AckLife]
  IN  /\ pc[e]["listener"] = "store" /\ incoming[e].type = "ack"
      /\ \/ /\ HasRoom(ackQueue[e])
            /\ ackQueue' = [ackQueue EXCEPT ![e] = Append(@, ack)]
            /\ Stored(e)
         \/ /\ ~HasRoom(ackQueue[e])
            /\ Goto(e, "listener", "drop")
            /\ UNCHANGED <<ackQueue, incoming>>
      /\ UNCHANGED <<inQueue, outQueue, proto, isRunning, out, attempt, held, net, history>>

StoreEnvToInQueue(e) ==
  LET env == [stamp |-> incoming[e].stamp, payload |-> incoming[e].payload,
              from |-> incoming[e].from]
  IN  /\ pc[e]["listener"] = "store" /\ incoming[e].type = "user"
      /\ \/ /\ HasRoom(inQueue[e])
            /\ inQueue' = [inQueue EXCEPT ![e] = Append(@, env)]
            /\ Stored(e)
         \/ /\ ~HasRoom(inQueue[e])
            /\ Goto(e, "listener", "drop")
            /\ UNCHANGED <<inQueue, incoming>>
      /\ UNCHANGED <<outQueue, ackQueue, proto, isRunning, out, attempt, held, net, history>>

RestMutant(q) == q
Rest(q) == IF q = <<>> THEN q ELSE Tail(q)

DropEarliest(e) ==
  /\ pc[e]["listener"] = "drop"
  /\ \/ /\ incoming[e].type = "ack"
        /\ ackQueue' = [ackQueue EXCEPT ![e] = Rest(@)]
        /\ inQueue' = inQueue
     \/ /\ incoming[e].type = "user"
        /\ inQueue' = [inQueue EXCEPT ![e] = Rest(@)]
        /\ ackQueue' = ackQueue
  /\ Goto(e, "listener", "store")
  /\ UNCHANGED <<outQueue, proto, isRunning, out, attempt, held, incoming, net, history>>

--------------------------------------------------------------------------------
Transmit(e, t) == SetType(e, t) \/ SetStamp(e, t) \/ SetPayload(e, t) \/ SendTo(e, t)

SenderStep(e) ==
  Exit(e, "sender") \/ SendEnvFromOutQueue(e) \/ Transmit(e, "sender")
  \/ CheckAckQueue(e) \/ PushBack(e)

ListenerStep(e) ==
  Exit(e, "listener") \/ RecvDataGram(e)
  \/ StoreTstampToAckQueue(e) \/ StoreEnvToInQueue(e) \/ DropEarliest(e)

AppStep(e) == TryReceiveEnvelope(e) \/ Stop(e) \/ Transmit(e, "app")

Next ==
  \/ \E m \in Msgs : SendEnvelope(m)
  \/ \E e \in Endpoints : SenderStep(e) \/ ListenerStep(e) \/ AppStep(e)

Spec == Init /\ [][Next]_vars

(* Every thread runs and every sleep, poll and sendto returns; nothing promises that
   the application calls, or that a datagram arrives. *)
FairSpec ==
  /\ Spec
  /\ \A e \in Endpoints : WF_vars(SenderStep(e)) /\ WF_vars(ListenerStep(e))
                          /\ WF_vars(Transmit(e, "app"))

--------------------------------------------------------------------------------
Stamps == Msgs \cup {NoMsg}
Contents == [type : Types, stamp : Stamps, payload : Stamps]
Addressed == [type : Types, stamp : Stamps, payload : Stamps, to : Endpoints \cup {NoEndpoint}]
Datagrams == [type : Types, stamp : Stamps, payload : Stamps,
              from : Endpoints \cup {NoEndpoint}, to : Endpoints \cup {NoEndpoint}]
Mail == [stamp : Msgs, payload : Stamps, from : Endpoints]
Receipts == [stamp : Msgs, counter : 1 .. AckLife]
Places == {"wait", "exited", "type", "stamp", "payload", "sendto", "check", "pushback",
           "store", "drop"}
Statuses == {"new", "refused", "queued", "sending", "acked", "abandoned"}

QueuesOf(S) == {q \in Seq(S) : Len(q) <= QueueSize}

QueuesOK ==
  /\ inQueue \in [Endpoints -> QueuesOf(Mail)]
  /\ outQueue \in [Endpoints -> QueuesOf(Msgs)]
  /\ ackQueue \in [Endpoints -> QueuesOf(Receipts)]

ThreadsOK ==
  /\ pc \in [Endpoints -> [Threads -> Places]]
  /\ isRunning \in [Endpoints -> BOOLEAN]
  /\ attempt \in [Endpoints -> 0 .. Attempts - 1]

EnvelopesOK ==
  /\ proto \in [Endpoints -> Contents]
  /\ out \in [Endpoints -> [{"sender", "app"} -> Addressed]]
  /\ held \in [Endpoints -> Receipts \cup {NoAck}]
  /\ incoming \in [Endpoints -> Datagrams]
  /\ net \subseteq Datagrams

HistoryOK ==
  /\ status \in [Msgs -> Statuses]
  /\ read \subseteq Endpoints \X Msgs \X Stamps

(* Every variable has its type, and no queue exceeds its capacity. *)
TypeOK == QueuesOK /\ ThreadsOK /\ EnvelopesOK /\ HistoryOK

(* A message whose sender has had an acknowledgement has been read by the one it was
   addressed to, with its own payload, however datagrams were delayed or doubled and
   whatever the sender and the application did to the buffer they share
   (UdpEndpointBase.cpp:78-123, 150-165: "ACK received!"). *)
AckMeansReadFor(e) ==
  \A m \in Msgs : From[m] = e /\ status[m] = "acked" => <<To[m], m, m>> \in read
AckMeansRead == \A e \in Endpoints : AckMeansReadFor(e)

(* Every message queued is acknowledged or given up: the sender thread never stays
   with one (UdpEndpointBase.cpp:89-106). *)
SendingEnds ==
  \A m \in Msgs :
    status[m] \in {"queued", "sending"} ~>
      status[m] \in {"acked", "abandoned"} \/ ~isRunning[From[m]]

(* The listener's search for room ends, in the endpoints that send, whose sender puts
   acknowledgements back into the queue it makes room in (UdpEndpointBase.cpp:61-76,
   118-121). *)
StoringEnds ==
  \A e \in {From[m] : m \in Msgs} :
    pc[e]["listener"] = "drop" ~> pc[e]["listener"] \in {"wait", "exited"}

(* The destructor returns: both threads come to an end (UdpEndpointBase.cpp:23-27). *)
ThreadsEnd ==
  \A e \in Destroyed :
    ~isRunning[e] ~> pc[e]["sender"] = "exited" /\ pc[e]["listener"] = "exited"
================================================================================
