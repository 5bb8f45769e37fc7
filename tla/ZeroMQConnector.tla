-------------------------- MODULE ZeroMQConnector --------------------------
(***************************************************************************)
(* The backend for hosted targets (communication/xpcc/backend/zeromq): a   *)
(* background thread moves messages from the socket to a bounded queue,    *)
(* the main thread (Dispatcher::update) looks at the front of the queue    *)
(* and drops it when it is done.                                           *)
(*                                                                         *)
(* Every access to the queue holds queueMutex and is one step.  What       *)
(* getPacket returns is a reference that is used without the mutex.  The   *)
(* sockets and the other programs that use them are external.              *)
(***************************************************************************)
EXTENDS Integers, Sequences, FiniteSets, SequencesExt

CONSTANTS
    Message,        \* the messages of an execution
    Bytes,          \* Bytes[m]: size of m on the socket
    Foreign,        \* messages that are not sent by a ZeroMQConnector
    maxQueueSize,   \* capacity of the queue of the reader
    Undefined,      \* what is read through a reference that is not valid any more
    MaxRestarts     \* bound: how often the reader is started again

headerSize == 5
maxPayloadSize == 65529

\* maxQueueSize is 1000 in the connector: pop_front needs at least one packet.
ASSUME ReaderAssumption ==
    /\ Bytes \in [Message -> Nat]
    /\ maxQueueSize \in Nat \ {0}
    /\ Undefined \notin Message
    /\ MaxRestarts \in Nat

VARIABLES
    inbox,          \* messages in the socket of the reader
    receiver,       \* where the background thread is
    stopThread,
    queue,
    main,           \* where the main thread is
    reference,      \* what its reference to the packet header is good for
    payload,        \* its copy of the payload
    restarts,
    sent,           \* history: messages that were put on the socket
    handled,        \* history: what the dispatcher has handled
    lost,           \* history: packets popped because the queue was full
    overruns,       \* history: those the main thread was working on
    skipped         \* history: packets dropped instead of the one that was handled

thread == <<inbox, receiver, queue>>
update == <<main, reference, payload, handled, skipped>>
history == <<sent, lost, overruns>>
vars == <<thread, stopThread, update, restarts, history>>

-----------------------------------------------------------------------------
(* sendPacket of another program.  It checks the size of the payload; a   *)
(* message the socket has no room for never comes to be here, and the      *)
(* sender does not notice (send, dont_block).                              *)

SendPacket(m) ==
    /\ ~Contains(sent, m)
    /\ m \in Foreign \/ Bytes[m] - headerSize <= maxPayloadSize
    /\ inbox' = Append(inbox, m) /\ sent' = Append(sent, m)
    /\ UNCHANGED <<receiver, stopThread, queue, update, restarts, lost, overruns>>

-----------------------------------------------------------------------------
(* receiveThread                                                           *)

CheckStop ==
    /\ receiver = "check"
    /\ receiver' = IF stopThread THEN "returned" ELSE "receive"
    /\ UNCHANGED <<inbox, queue, stopThread, update, restarts, history>>

HasPacketSize(m) == Bytes[m] \in headerSize .. headerSize + maxPayloadSize

\* Mutant: off by one.
QueueIsFull_Bug == Len(queue) > maxQueueSize

QueueIsFull == Len(queue) >= maxQueueSize

\* Mutant: the newest packet comes first.
Store_Bug(m) == <<m>> \o (IF QueueIsFull THEN Tail(queue) ELSE queue)

\* The queue with m: a full queue gives up its oldest packet.
Store(m) == Append(IF QueueIsFull THEN Tail(queue) ELSE queue, m)

\* The thread takes message after message without looking at stopThread.
ReadPacket ==
    /\ receiver = "receive" /\ inbox # <<>>
    /\ inbox' = Tail(inbox)
    /\ IF HasPacketSize(Head(inbox))
       THEN /\ queue' = Store(Head(inbox))
            /\ lost' = IF QueueIsFull THEN lost \cup {Head(queue)} ELSE lost
            /\ IF QueueIsFull /\ reference = "front"
               THEN reference' = "dangling" /\ overruns' = overruns + 1
               ELSE UNCHANGED <<reference, overruns>>
       ELSE UNCHANGED <<queue, reference, lost, overruns>>
    /\ UNCHANGED <<receiver, stopThread, main, payload, handled, skipped, restarts, sent>>

NoMessage ==
    /\ receiver = "receive" /\ inbox = <<>>
    /\ receiver' = "poll"
    /\ UNCHANGED <<inbox, queue, stopThread, update, restarts, history>>

\* Mutant: poll waits for a message without a timeout.
Poll_Bug ==
    /\ receiver = "poll" /\ inbox # <<>>
    /\ receiver' = "check"
    /\ UNCHANGED <<inbox, queue, stopThread, update, restarts, history>>

\* A message has come or PollTimeoutMs are over.
Poll ==
    /\ receiver = "poll"
    /\ receiver' = "check"
    /\ UNCHANGED <<inbox, queue, stopThread, update, restarts, history>>

-----------------------------------------------------------------------------
(* Dispatcher::update                                                      *)

IsPacketAvailable ==
    /\ main = "idle" /\ queue # <<>>
    /\ main' = "header"
    /\ UNCHANGED <<thread, stopThread, reference, payload, handled, skipped,
                   restarts, history>>

GetPacketHeader ==
    /\ main = "header"
    /\ main' = "payload" /\ reference' = "front"
    /\ UNCHANGED <<thread, stopThread, payload, handled, skipped, restarts, history>>

\* Mutant: the newest packet is taken.
GetPacketPayload_Bug ==
    /\ main = "payload"
    /\ main' = "handle" /\ payload' = Last(queue)
    /\ UNCHANGED <<thread, stopThread, reference, handled, skipped, restarts, history>>

GetPacketPayload ==
    /\ main = "payload"
    /\ main' = "handle" /\ payload' = Head(queue)
    /\ UNCHANGED <<thread, stopThread, reference, handled, skipped, restarts, history>>

\* The header is read through the reference, the payload from the copy.
HandlePacket ==
    /\ main = "handle"
    /\ main' = "drop"
    /\ handled' = Append(handled,
           [header |-> IF reference = "front" THEN Head(queue) ELSE Undefined,
            payload |-> payload])
    /\ UNCHANGED <<thread, stopThread, reference, payload, skipped, restarts, history>>

\* Mutant: the dispatcher does not ask again whether there is a packet.
DropPacket_Bug ==
    /\ main = "drop"
    /\ main' = "header" /\ reference' = "none" /\ queue' = Tail(queue)
    /\ UNCHANGED <<inbox, receiver, stopThread, payload, handled, skipped,
                   restarts, history>>

\* Mutant: the dispatcher drops all that came in meanwhile.
DropPacket_Bug2 ==
    /\ main = "drop"
    /\ main' = "idle" /\ reference' = "none" /\ queue' = <<>>
    /\ skipped' = skipped + Len(SelectSeq(queue, LAMBDA p : p # payload))
    /\ UNCHANGED <<inbox, receiver, stopThread, payload, handled,
                   restarts, history>>

DropPacket ==
    /\ main = "drop"
    /\ main' = "idle" /\ reference' = "none"
    /\ IF queue = <<>>
       THEN UNCHANGED <<queue, skipped>>
       ELSE /\ queue' = Tail(queue)
            /\ skipped' = IF Head(queue) = payload THEN skipped ELSE skipped + 1
    /\ UNCHANGED <<inbox, receiver, stopThread, payload, handled, restarts, history>>

-----------------------------------------------------------------------------
(* start and stop.  The constructor of the connector starts the reader,    *)
(* the destructor stops it and closes the sockets.                         *)

Stop(next) ==
    /\ main = "idle"
    /\ main' = next
    /\ stopThread' = TRUE
    /\ UNCHANGED <<thread, reference, payload, handled, skipped, restarts, history>>

\* start stops a thread that runs, first.
StopToStart ==
    /\ restarts < MaxRestarts
    /\ Stop("start")

StopToClose == Stop("close")

\* Mutant: the flag is not reset.
Start_Bug ==
    /\ main = "start" /\ receiver = "returned"
    /\ main' = "idle" /\ receiver' = "check" /\ restarts' = restarts + 1
    /\ UNCHANGED <<stopThread, inbox, queue, reference, payload, handled, skipped, history>>

\* join has returned.
Start ==
    /\ main = "start" /\ receiver = "returned"
    /\ main' = "idle" /\ receiver' = "check" /\ restarts' = restarts + 1
    /\ stopThread' = FALSE
    /\ UNCHANGED <<inbox, queue, reference, payload, handled, skipped, history>>

Close ==
    /\ main = "close" /\ receiver = "returned"
    /\ main' = "closed"
    /\ UNCHANGED <<thread, stopThread, reference, payload, handled, skipped, restarts,
                   history>>

-----------------------------------------------------------------------------
Init ==
    /\ inbox = <<>> /\ sent = <<>>
    /\ receiver = "check" /\ stopThread = FALSE
    /\ queue = <<>>
    /\ main = "idle" /\ reference = "none" /\ payload = Undefined
    /\ restarts = 0
    /\ handled = <<>> /\ lost = {} /\ overruns = 0 /\ skipped = 0

ReceiveThread == CheckStop \/ ReadPacket \/ NoMessage \/ Poll

Update ==
    IsPacketAvailable \/ GetPacketHeader \/ GetPacketPayload \/ HandlePacket \/ DropPacket

Next ==
    \/ \E m \in Message : SendPacket(m)
    \/ ReceiveThread
    \/ Update
    \/ StopToStart \/ StopToClose \/ Start \/ Close

Spec == Init /\ [][Next]_vars

\* Both threads run: the operating system schedules the one, and the main loop of the
\* program calls Dispatcher::update in the other.
FairSpec ==
    /\ Spec
    /\ WF_vars(ReceiveThread)
    /\ WF_vars(Update) /\ WF_vars(Start \/ Close)

-----------------------------------------------------------------------------
(* Properties                                                              *)

TypeOK ==
    /\ inbox \in Seq(Message) /\ sent \in Seq(Message)
    /\ receiver \in {"check", "receive", "poll", "returned"}
    /\ stopThread \in BOOLEAN
    /\ queue \in Seq(Message) /\ Len(queue) <= maxQueueSize
    /\ main \in {"idle", "header", "payload", "handle", "drop", "start", "close", "closed"}
    /\ reference \in {"none", "front", "dangling"}
    /\ payload \in Message \cup {Undefined}
    /\ handled \in Seq([header : Message \cup {Undefined}, payload : Message])
    /\ restarts \in 0 .. MaxRestarts
    /\ lost \subseteq Message /\ overruns \in Nat /\ skipped \in Nat

\* getPacket never looks at an empty queue: what isPacketAvailable has said still holds
\* when the dispatcher asks for the header and then, with the mutex released in
\* between, for the payload, though the reader drops packets, too.
FrontExists == main \in {"header", "payload"} => queue # <<>>

\* What was handled with the header of one packet and the payload of another.
Mixed == {i \in DOMAIN handled : handled[i].header # handled[i].payload}

\* Header and payload that the dispatcher handles together are from one packet, although
\* it asks for them one after the other and reads the header without the mutex.  A packet
\* that is popped from a full queue while the dispatcher refers to it (getPacket) spoils
\* one handling at most, and nothing that comes later.
HeaderMeetsPayload == Cardinality(Mixed) <= overruns

\* dropPacket drops the packet that was handled.  Each packet that is dropped in its
\* place is due to one that readPacket has dropped from a full queue, meanwhile.
DropsWhatWasHandled == skipped <= overruns

\* No packet is handled twice and none overtakes another, whatever is lost.
HandledInOrder ==
    \A i, j \in DOMAIN handled : i < j =>
        \E k, l \in DOMAIN sent :
            k < l /\ sent[k] = handled[i].payload /\ sent[l] = handled[j].payload

Handled(m) == \E i \in DOMAIN handled : handled[i].payload = m

\* Every packet of a legal size on the socket is handled in the end, also when the
\* reader is started again, unless it is dropped from a full queue, another one is
\* dropped in its place, or the program ends.
PacketIsHandled ==
    <>[](\/ main \in {"close", "closed"}
         \/ skipped > 0
         \/ \A i \in DOMAIN sent :
                HasPacketSize(sent[i]) => Handled(sent[i]) \/ sent[i] \in lost)

\* stop returns: poll ends after PollTimeoutMs, and the thread then sees the flag.  This
\* needs the messages on the socket to come to an end.
StopReturns == main \in {"start", "close"} ~> main \in {"idle", "closed"}
=============================================================================
