-------------------------------- MODULE Rpr --------------------------------
(***************************************************************************)
(* The resilient packet ring (communication/rpr): stations in a ring, each *)
(* wired to the next.  A station passes on every frame that is not from    *)
(* itself and not only for itself, byte by byte as it comes in; it sends   *)
(* its own messages between two frames and keeps those that come in the    *)
(* middle of one.                                                          *)
(*                                                                         *)
(* A station runs Node::update and the user program in one thread.  The    *)
(* wires are external.  The bytes of a frame are grouped into the parts    *)
(* the receiver tells apart; the escape bytes, which keep the delimiters   *)
(* out of the other parts, are left out, and so is the loss of one.        *)
(***************************************************************************)
EXTENDS Integers, Sequences, FiniteSets, SequencesExt

CONSTANTS
    Station,        \* the stations
    Following,      \* Following[n]: the station that n writes to
    Address,        \* Address[n], Group[n]: 15 bit addresses set by initialize
    Group,
    Message,        \* the messages of an execution
    Type,           \* Type[m]: "UNICAST", "MULTICAST" or "BROADCAST"
    Script,         \* Script[n]: the messages n sends, in this order
    Source,         \* Source[m]: the station that sends m
    Destination,    \* Destination[m]: the address m is sent to
    Listener,       \* Listener[n]: the callbacks of n, by type and source
    QueueSize,      \* capacity of messagesToSend and of receivedMessages
    Octet,          \* the values of the bytes behind the addresses
    Lossy,          \* bound: the stations on whose wire bytes may be lost
    MaxLosses       \* bound: how many

ADDRESS_VALUE == 32767  \* 0x7fff
ADDRESS_ANY == 65535    \* 0xffff

MessageType == {"UNICAST", "MULTICAST", "BROADCAST"}

ASSUME RingAssumption ==
    /\ IsFiniteSet(Station)
    /\ Following \in [Station -> Station]
    /\ \A n \in Station : \E p \in Station : Following[p] = n
    /\ Address \in [Station -> 0 .. ADDRESS_VALUE]
    /\ Group \in [Station -> 0 .. ADDRESS_VALUE]

ASSUME MessageAssumption ==
    /\ Type \in [Message -> MessageType]
    /\ Script \in [Station -> Seq(Message)]
    /\ Source \in [Message -> Station]
    /\ \A n \in Station : \A i \in DOMAIN Script[n] : Source[Script[n][i]] = n
    /\ Destination \in [Message -> 0 .. ADDRESS_VALUE]
    /\ Octet \subseteq 0 .. 255

\* Each message a program sends is one of its own, even if what it says was said before.
DistinctMessages == \A n \in Station : IsInjective(Script[n])

\* A multicast to the broadcast address is a broadcast on the wire.
GroupsAreNotAll ==
    \A m \in Message : Type[m] = "MULTICAST" => Destination[m] # ADDRESS_VALUE

ASSUME BoundAssumption == QueueSize \in Nat \ {0} /\ MaxLosses \in Nat

\* The wire that ends at n begins at this station.
Preceding(n) == CHOOSE p \in Station : Following[p] = n

VARIABLES
    link,               \* link[n]: bytes between n and Following[n]
    updating,           \* updating[n]: Interface::update is in its loop
    status,             \* status[n]: the four flags
    length,             \* bytes of the frame that were received
    receiveBuffer,      \* type and source of the frame that is received
    crc,                \* the parts the check sequence covers so far
    messagesToSend, receivedMessages,   \* the two queues
    todo,               \* todo[n]: the messages the program of n has still to send
    losses,             \* bytes lost so far
    sent,               \* history: sent[n], the messages n sent that were not refused
    written,            \* history: written[n], the messages n put on its wire
    refused,            \* history: <<n, m>> if a queue of n was full for m
    handled             \* history: handled[n], the messages given to callbacks

reception == <<status, length, receiveBuffer, crc>>
queues    == <<messagesToSend, receivedMessages>>
history   == <<sent, written, refused, handled>>
vars      == <<link, updating, reception, queues, todo, losses, history>>

-----------------------------------------------------------------------------
(* Frames.  size is the number of bytes, one for the command and two for   *)
(* the check sequence.                                                     *)

Start == [part |-> "start"]
End == [part |-> "end"]

\* The destination on the wire: the I/G bit and 15 bits.
Wire(m) ==
    IF Type[m] = "BROADCAST" THEN [group |-> TRUE, address |-> ADDRESS_VALUE]
    ELSE [group |-> Type[m] = "MULTICAST", address |-> Destination[m]]

Header(m) == [part |-> "header", size |-> 4, destination |-> Wire(m),
              source |-> Address[Source[m]]]
Payload(m) == [part |-> "payload", size |-> 1, value |-> m]
Check(m) == [part |-> "check", size |-> 2, value |-> <<Header(m), Payload(m)>>]

Frame == [m \in Message |-> <<Start, Header(m), Payload(m), Check(m), End>>]

\* The four bytes of the addresses on the wire, each address with the low byte first.
AddressBytes(header) ==
    <<header.destination.address % 256,
      header.destination.address \div 256 + (IF header.destination.group THEN 128 ELSE 0),
      header.source % 256, header.source \div 256>>

\* What four bytes are read as where no header was written.  A station looks at 15 bits
\* of the source.
MisreadHeader(bytes) ==
    [part |-> "misread", size |-> 4,
     destination |-> [group |-> bytes[2] >= 128,
                      address |-> (bytes[2] % 128) * 256 + bytes[1]],
     source |-> (bytes[4] % 128) * 256 + bytes[3]]

\* A byte of the addresses is missing: those behind it move up, and the next byte of
\* the frame becomes the last of the source address.
Misread(header) ==
    {MisreadHeader(Append(RemoveAt(AddressBytes(header), k), next)) :
         k \in 1 .. 4, next \in Octet}

MisreadHeaders ==
    [part : {"misread"}, size : {4},
     destination : [group : BOOLEAN, address : 0 .. ADDRESS_VALUE],
     source : 0 .. ADDRESS_VALUE]

\* Half of a check sequence.
Torn == [part |-> "torn", size |-> 1]

Part ==
    (UNION {ToSet(Frame[m]) : m \in Message}) \cup {Start, End} \cup MisreadHeaders
    \cup {Torn}

\* crc = 0: all that came in before the check sequence is what it was made for.  The
\* check sequence tells every frame from which bytes are missing.
CrcOk(parts) ==
    /\ Len(parts) = 3 /\ parts[3].part = "check"
    /\ SubSeq(parts, 1, 2) = parts[3].value

-----------------------------------------------------------------------------
(* sendMessage.  A queue that is full refuses the message, and nobody is   *)
(* told.                                                                   *)

\* removeFront of an empty queue is guarded by isEmpty.
PopMessage(queue) == IF queue = <<>> THEN queue ELSE Tail(queue)

\* Mutant: a frame for this station does not keep the bus busy, others may want it, too.
BusIsBusy_Bug(n) == status[n].start /\ ~status[n].destination

BusIsBusy(n) == status[n].start

\* Mutant: room for one message too many.
Enqueue_Bug(n, m) ==
    /\ BusIsBusy(n) /\ Len(messagesToSend[n]) <= QueueSize
    /\ messagesToSend' = [messagesToSend EXCEPT ![n] = Append(@, m)]
    /\ sent' = [sent EXCEPT ![n] = Append(@, m)]
    /\ UNCHANGED <<link, written, refused>>

Enqueue(n, m) ==
    /\ BusIsBusy(n) /\ Len(messagesToSend[n]) < QueueSize
    /\ messagesToSend' = [messagesToSend EXCEPT ![n] = Append(@, m)]
    /\ sent' = [sent EXCEPT ![n] = Append(@, m)]
    /\ UNCHANGED <<link, written, refused>>

Refuse(n, m) ==
    /\ BusIsBusy(n) /\ Len(messagesToSend[n]) = QueueSize
    /\ refused' = refused \cup {<<n, m>>}
    /\ UNCHANGED <<link, messagesToSend, sent, written>>

\* writeMessage pops messagesToSend, whichever message it has written.
Written(queue) == PopMessage(queue)

\* Mutant: a message goes ahead of the bytes that are still on the wire.
WriteMessage_Bug(n, m) ==
    /\ link' = [link EXCEPT ![n] = Frame[m] \o @]
    /\ written' = [written EXCEPT ![n] = Append(@, m)]

WriteMessage(n, m) ==
    /\ link' = [link EXCEPT ![n] = @ \o Frame[m]]
    /\ written' = [written EXCEPT ![n] = Append(@, m)]

SendNow(n, m) ==
    /\ ~BusIsBusy(n)
    /\ WriteMessage(n, m)
    /\ messagesToSend' = [messagesToSend EXCEPT ![n] = Written(@)]
    /\ sent' = [sent EXCEPT ![n] = Append(@, m)]
    /\ UNCHANGED refused

SendMessage(n, m) == Enqueue(n, m) \/ Refuse(n, m) \/ SendNow(n, m)

\* The user program sends a message of its own,
SendOwn(n) ==
    /\ todo[n] # <<>>
    /\ todo' = [todo EXCEPT ![n] = Tail(@)]
    /\ SendMessage(n, Head(todo[n]))

\* between two calls of Node::update or in a callback.
Send(n) ==
    /\ ~updating[n] /\ receivedMessages[n] = <<>>
    /\ SendOwn(n)
    /\ UNCHANGED <<updating, reception, receivedMessages, losses, handled>>

-----------------------------------------------------------------------------
(* Interface::update: one waiting message is written, then the loop takes  *)
(* the bytes that have arrived.                                            *)

MessageWaits(n) == status[n].end /\ messagesToSend[n] # <<>>

\* Both writeMessage and update pop the queue.  Calls that find nothing to do change
\* nothing and are left out.
BeginUpdate(n) ==
    /\ ~updating[n] /\ receivedMessages[n] = <<>>
    /\ MessageWaits(n) \/ link[Preceding(n)] # <<>>
    /\ updating' = [updating EXCEPT ![n] = TRUE]
    /\ IF MessageWaits(n)
       THEN /\ WriteMessage(n, Head(messagesToSend[n]))
            /\ messagesToSend' =
                   [messagesToSend EXCEPT ![n] = PopMessage(Written(@))]
       ELSE UNCHANGED <<link, messagesToSend, written>>
    /\ UNCHANGED <<reception, receivedMessages, todo, losses, sent, refused, handled>>

\* The loop ends when no byte has arrived.  A return that leaves nothing to do but
\* to call update again is left out.
EndUpdate(n) ==
    /\ updating[n]
    /\ <<messagesToSend[n], receivedMessages[n], todo[n]>> # <<<<>>, <<>>, <<>>>>
    /\ updating' = [updating EXCEPT ![n] = FALSE]
    /\ UNCHANGED <<link, reception, queues, todo, losses, history>>

\* The next byte of the wire is read, out is written.
Read(n, out) ==
    /\ updating[n]
    /\ LET rest == [link EXCEPT ![Preceding(n)] = Tail(@)]
       IN  link' = [rest EXCEPT ![n] = @ \o out]
    /\ UNCHANGED <<messagesToSend, todo, losses, sent, written, handled>>

NextByte(n) == Head(link[Preceding(n)])

ReadStart(n) ==
    /\ NextByte(n).part = "start" /\ Read(n, <<>>)
    /\ status' = [status EXCEPT ![n].start = TRUE, ![n].end = FALSE]
    /\ length' = [length EXCEPT ![n] = 0]
    /\ crc' = [crc EXCEPT ![n] = <<>>]
    /\ UNCHANGED <<updating, receiveBuffer, receivedMessages, refused>>

\* Mutant: a frame for this station is not passed on, others may be addressed too.
PassesOn_Bug(n) == ~status[n].source /\ receiveBuffer[n].type = "ANY"

\* Frames of this station and those for it alone go no further.
PassesOn(n) == ~status[n].source /\ receiveBuffer[n].type # "UNICAST"

IsForMe(n) == status[n].destination /\ CrcOk(crc[n])

ReceivedMessage(n) ==
    [type |-> receiveBuffer[n].type, source |-> receiveBuffer[n].source,
     message |-> crc[n][2].value]

\* Mutant: the delimiters are counted, too.
Complete_Bug(n) == length[n] >= 8 /\ status[n].start

\* Both addresses, a command and one byte more.
Complete(n) == length[n] >= 6 /\ status[n].start

\* An end delimiter that comes too early only restarts the count.
ReadEnd(n) ==
    /\ NextByte(n).part = "end"
    /\ Read(n, IF Complete(n) /\ PassesOn(n) THEN <<End>> ELSE <<>>)
    /\ status' = IF Complete(n)
                 THEN [status EXCEPT ![n].start = FALSE, ![n].end = TRUE]
                 ELSE status
    /\ IF Complete(n) /\ IsForMe(n)
       THEN IF Len(receivedMessages[n]) < QueueSize
            THEN /\ receivedMessages' = [receivedMessages EXCEPT ![n] =
                                             Append(@, ReceivedMessage(n))]
                 /\ UNCHANGED refused
            ELSE /\ refused' = refused \cup {<<n, crc[n][2].value>>}
                 /\ UNCHANGED receivedMessages
       ELSE UNCHANGED <<receivedMessages, refused>>
    /\ length' = [length EXCEPT ![n] = 0]
    /\ crc' = [crc EXCEPT ![n] = <<>>]
    /\ UNCHANGED <<updating, receiveBuffer>>

IsData(n) == NextByte(n).part \notin {"start", "end"}

\* Mutant: bytes that belong to no frame are passed on.
ReadStray_Bug(n) ==
    /\ IsData(n) /\ ~status[n].start /\ Read(n, <<NextByte(n)>>)
    /\ updating' = [updating EXCEPT ![n] = FALSE]
    /\ UNCHANGED <<reception, receivedMessages, refused>>

\* Without a start delimiter update returns.
ReadStray(n) ==
    /\ IsData(n) /\ ~status[n].start /\ Read(n, <<>>)
    /\ updating' = [updating EXCEPT ![n] = FALSE]
    /\ UNCHANGED <<reception, receivedMessages, refused>>

\* How n is addressed by a frame, "ANY" if it is not.
TypeFor(n, destination) ==
    IF destination = [group |-> TRUE, address |-> ADDRESS_VALUE] THEN "BROADCAST"
    ELSE IF destination.group /\ destination.address = Group[n] THEN "MULTICAST"
    ELSE IF ~destination.group /\ destination.address = Address[n] THEN "UNICAST"
    ELSE "ANY"

\* Mutant: a station does not know its own frames.
IsOwn_Bug(n, header) == FALSE

IsOwn(n, header) == header.source = Address[n]

\* The addresses are complete: only now the frame is passed on, from its start.
ReadHeader(n) ==
    LET header == NextByte(n)
        type == TypeFor(n, header.destination)
        own == IsOwn(n, header)
    IN
    /\ IsData(n) /\ status[n].start /\ length[n] = 0
    /\ Read(n, IF ~own /\ type # "UNICAST" THEN <<Start, header>> ELSE <<>>)
    /\ status' = [status EXCEPT ![n].destination = type # "ANY", ![n].source = own]
    /\ receiveBuffer' = [receiveBuffer EXCEPT ![n] =
                             [type |-> type, source |-> header.source]]
    /\ crc' = [crc EXCEPT ![n] = IF type # "ANY" THEN Append(@, header) ELSE @]
    /\ length' = [length EXCEPT ![n] = header.size]
    /\ UNCHANGED <<updating, receivedMessages, refused>>

\* A part behind the addresses, the check sequence included.
ReadPayload(n) ==
    /\ IsData(n) /\ status[n].start /\ length[n] >= 4
    /\ Read(n, IF PassesOn(n) THEN <<NextByte(n)>> ELSE <<>>)
    /\ crc' = [crc EXCEPT ![n] = IF status[n].destination THEN Append(@, NextByte(n))
                                 ELSE @]
    /\ length' = [length EXCEPT ![n] = @ + NextByte(n).size]
    /\ UNCHANGED <<updating, status, receiveBuffer, receivedMessages, refused>>

ReadByte(n) ==
    /\ link[Preceding(n)] # <<>>
    /\ \/ ReadStart(n)
       \/ ReadEnd(n)
       \/ ReadStray(n)
       \/ ReadHeader(n)
       \/ ReadPayload(n)

-----------------------------------------------------------------------------
(* Node::update calls the callback of each received message, then drops it *)

Matches(listener, received) ==
    /\ listener.type \in {"ANY", received.type}
    /\ listener.source \in {ADDRESS_ANY, received.source}

Listens(n, received) == \E l \in Listener[n] : Matches(l, received)

Callback(n) ==
    LET received == Head(receivedMessages[n]) IN
    /\ ~updating[n] /\ receivedMessages[n] # <<>>
    /\ receivedMessages' = [receivedMessages EXCEPT ![n] = Tail(@)]
    /\ \/ /\ Listens(n, received)
          /\ handled' = [handled EXCEPT ![n] = Append(@, received.message)]
          /\ \/ SendOwn(n)
             \/ UNCHANGED <<link, messagesToSend, todo, sent, written, refused>>
       \/ /\ ~Listens(n, received)
          /\ UNCHANGED <<link, messagesToSend, todo, history>>
    /\ UNCHANGED <<updating, reception, losses>>

-----------------------------------------------------------------------------
(* A wire loses the byte that would arrive next: where on the wire it was  *)
(* lost makes no difference to the stations.                               *)

\* A part without one of its bytes.
Shorter(part) == IF part.part = "check" THEN <<Torn>> ELSE <<>>

LoseByte(n) ==
    /\ Head(link[n]).part \notin {"header", "misread"}
    /\ link' = [link EXCEPT ![n] = Shorter(Head(@)) \o Tail(@)]

\* One of the addresses.  Bound: as long as another byte of the frame is behind them.
LoseAddressByte(n) ==
    /\ Head(link[n]).part \in {"header", "misread"}
    /\ Len(link[n]) > 1 /\ link[n][2].part \in {"payload", "check", "torn"}
    /\ \E header \in Misread(Head(link[n])) :
           link' = [link EXCEPT ![n] =
                        <<header>> \o Shorter(@[2]) \o Tail(Tail(@))]

Lose(n) ==
    /\ n \in Lossy /\ losses < MaxLosses /\ link[n] # <<>>
    /\ LoseByte(n) \/ LoseAddressByte(n)
    /\ losses' = losses + 1
    /\ UNCHANGED <<updating, reception, queues, todo, history>>

-----------------------------------------------------------------------------
Idle == [start |-> FALSE, end |-> FALSE, destination |-> FALSE, source |-> FALSE]

Init ==
    /\ link = [n \in Station |-> <<>>]
    /\ updating = [n \in Station |-> FALSE]
    /\ status = [n \in Station |-> Idle]
    /\ length = [n \in Station |-> 0]
    /\ receiveBuffer = [n \in Station |-> [type |-> "ANY", source |-> 0]]
    /\ crc = [n \in Station |-> <<>>]
    /\ messagesToSend = [n \in Station |-> <<>>]
    /\ receivedMessages = [n \in Station |-> <<>>]
    /\ todo = Script
    /\ losses = 0
    /\ sent = [n \in Station |-> <<>>]
    /\ written = [n \in Station |-> <<>>]
    /\ refused = {}
    /\ handled = [n \in Station |-> <<>>]

Update(n) == BeginUpdate(n) \/ EndUpdate(n) \/ Callback(n)

Next ==
    \E n \in Station :
        \/ Send(n)
        \/ Update(n)
        \/ ReadByte(n)
        \/ Lose(n)

Spec == Init /\ [][Next]_vars

\* The main loop calls Node::update, which does not return while a byte is there:
\* a byte on the wire is read in the end.
FairSpec ==
    /\ Spec
    /\ \A n \in Station : WF_vars(Update(n)) /\ SF_vars(ReadByte(n))

-----------------------------------------------------------------------------
(* Properties                                                              *)

TypeOK ==
    /\ link \in [Station -> Seq(Part)]
    /\ updating \in [Station -> BOOLEAN]
    /\ status \in [Station -> [start : BOOLEAN, end : BOOLEAN,
                              destination : BOOLEAN, source : BOOLEAN]]
    /\ length \in [Station -> Nat]
    /\ \A n \in Station :
           /\ receiveBuffer[n].type \in MessageType \cup {"ANY"}
           /\ messagesToSend[n] \in Seq(Message)
           /\ Len(messagesToSend[n]) <= QueueSize
           /\ Len(receivedMessages[n]) <= QueueSize
           /\ handled[n] \in Seq(Message)
           /\ todo[n] \in Seq(Message)
           /\ sent[n] \in Seq(Message)
           /\ written[n] \in Seq(Message)
    /\ losses \in 0 .. MaxLosses

Addressed(n, m) ==
    \/ Type[m] = "BROADCAST"
    \/ Type[m] = "MULTICAST" /\ Destination[m] = Group[n]
    \/ Type[m] = "UNICAST" /\ Destination[m] = Address[n]

\* A frame goes round once: a callback gets a message at most once, only at stations
\* it is addressed to, and only if it was sent.  Every station decides byte by byte
\* whether to pass the frame on (update, case 3 and default), with a queue that fills
\* and wires that lose bytes.
HandledOnce ==
    \A n \in Station :
        /\ IsInjective(handled[n])
        /\ \A i \in DOMAIN handled[n] :
               /\ Addressed(n, handled[n][i])
               /\ Contains(written[Source[handled[n][i]]], handled[n][i])

\* Bytes that follow each other in a frame.
InFrame == UNION {{<<Frame[m][k], Frame[m][k + 1]>> : k \in 1 .. 4} : m \in Message}

\* Frames are never torn: as long as no byte is lost, each part on a wire is followed
\* by the next of its frame or, after the end delimiter, by a start delimiter,
\* though stations pass on the bytes of one frame in many calls of update and the
\* user program and the callbacks send in between (sendMessage, "bus is busy").
FramesWhole ==
    losses = 0 =>
        \A n \in Station : \A i \in 1 .. Len(link[n]) - 1 :
            \/ link[n][i] = End /\ link[n][i + 1] = Start
            \/ <<link[n][i], link[n][i + 1]>> \in InFrame

\* The ring keeps the order: the messages of one station reach every callback in the
\* order in which it wrote them, though stations on the way refuse some, send their own
\* in between and wires lose bytes.  That is not always the order of sendMessage, which
\* lets a message overtake those in messagesToSend ("bus is not busy").
OrderKept ==
    \A n, s \in Station :
        LET Before(sequence, a, b) ==
                \E i, j \in DOMAIN sequence :
                    i < j /\ sequence[i] = a /\ sequence[j] = b
        IN  \A a, b \in {m \in Message : Source[m] = s} :
                Before(handled[n], a, b) => Before(written[s], a, b)

\* A message that sendMessage has taken waits until it is written
\* (rpr.hpp, "All messages are buffered").
AcceptedIsWritten ==
    \A n \in Station : \A i \in DOMAIN sent[n] :
        Contains(messagesToSend[n] \o written[n], sent[n][i])

IsReceiver(n, m) ==
    /\ Addressed(n, m)
    /\ Listens(n, [type |-> Type[m], source |-> Address[Source[m]]])

\* Everything on the wire reaches the callback of every station it is addressed to in
\* the end, unless a byte is lost or the receive queue of that station is full.
ArrivesEverywhere ==
    <>[](\A m \in Message, n \in Station :
            IsReceiver(n, m) /\ Contains(written[Source[m]], m) =>
                Contains(handled[n], m) \/ <<n, m>> \in refused \/ losses > 0)

\* No station takes such a frame off the ring: it is from none of them and not for one
\* alone.
Orphaned(part) ==
    /\ part.part = "misread"
    /\ \A n \in Station :
           part.source # Address[n] /\ TypeFor(n, part.destination) # "UNICAST"

\* A frame goes round for ever only if one of its address bytes was lost and what is
\* read as its source and destination is no station, for nothing but the addresses ends
\* its trip: forwarding looks neither at the check sequence nor at a count of stations
\* (update, case 3 and default).  Whatever else is lost, the ring falls silent.
RingFallsSilent ==
    \/ <>[](\A n \in Station : link[n] = <<>>)
    \/ <>[](\E n \in Station : \E part \in ToSet(link[n]) : Orphaned(part))

\* A station that waits for the end of a frame gets it: without losses the queues of
\* waiting messages empty in the end.
QueueDrains == <>[](\A n \in Station : messagesToSend[n] = <<>> \/ losses > 0)
=============================================================================
