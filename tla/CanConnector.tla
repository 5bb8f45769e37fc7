---------------------------- MODULE CanConnector ----------------------------
(***************************************************************************)
(* The CAN backend (communication/xpcc/backend/can): packets of up to 8    *)
(* bytes travel in one frame, longer ones in fragments of 6 bytes that     *)
(* carry a 4 bit message counter.                                          *)
(*                                                                         *)
(* Every node runs one connector in one thread, which calls sendPacket,    *)
(* update and dropPacket.  The driver below it and the bus are external:   *)
(* a few transmit slots, frames that reach all other nodes, and a receive  *)
(* queue that loses frames.                                                *)
(*                                                                         *)
(* The bytes of a payload are abstracted to the packet they belong to, one *)
(* value for each piece of 6 bytes.                                        *)
(***************************************************************************)
EXTENDS Integers, Sequences, FiniteSets, SequencesExt

CONSTANTS
    Node,           \* the boards on the bus
    Script,         \* Script[n]: the packets n sends, in order: header and size
    TxSlots,        \* frames the driver takes before one is transmitted
    RxSlots,        \* frames the driver keeps until they are retrieved
    InOrder,        \* the driver transmits in the order of sendMessage
    MaxWaiting,     \* bound: length of sendList and receivedMessages
    MaxLosses,      \* bound: frames lost by a receiver
    MaxWarnings     \* bound: times a bus state differs from Connected

PacketType == {"REQUEST", "RESPONSE", "NEGATIVE_RESPONSE"}

Header == [type : PacketType, isAcknowledge : BOOLEAN,
           destination : 0..255, source : 0..255, packetIdentifier : 0..255]

ASSUME NodeAssumption == IsFiniteSet(Node)

\* What SmartPointer::getSize() returns has 16 bits.
PacketSize == 0..65535

\* sendPacket takes payloads of every size.
ASSUME ScriptAssumption ==
    \A n \in Node : Script[n] \in Seq([header : Header, size : PacketSize])
ASSUME DriverAssumption ==
    /\ TxSlots \in Nat /\ RxSlots \in Nat /\ InOrder \in BOOLEAN
    /\ MaxWaiting \in Nat /\ MaxLosses \in Nat /\ MaxWarnings \in Nat

\* A packet is named by its sender and its number.
PacketId == UNION {{n} \X DOMAIN Script[n] : n \in Node}
HeaderOf(p) == Script[p[1]][p[2]].header
SizeOf(p) == Script[p[1]][p[2]].size
IsFragmented(p) == SizeOf(p) > 8

\* What sendWaitingMessages takes for the size: the lower eight bits.
MessageSize(p) == SizeOf(p) % 256

\* Memory nothing was copied to yet.
Nothing == <<>>

VARIABLES
    sent,               \* sent[n]: number of packets given to sendPacket
    sendList,           \* sendList[n]: waiting packets and their fragmentIndex
    messageCounter,     \* messageCounter[n], the upper four bits of the byte
    pendingMessages,    \* pendingMessages[n]: incomplete packets by header, counter
    receivedMessages,   \* receivedMessages[n]: packets for the dispatcher
    tx, rx,             \* driver: frames to transmit, frames to retrieve
    busState,           \* driver: getBusState()
    losses, warnings,   \* frames lost and bus states changed so far
    taken               \* history: taken[n], the packets dropped by n's dispatcher

sender   == <<sent, sendList, messageCounter>>
receiver == <<pendingMessages, receivedMessages, taken>>
bus      == <<busState, losses, warnings>>
vars     == <<sender, receiver, tx, rx, bus>>

-----------------------------------------------------------------------------
(* Identifiers and frames                                                  *)

TypeBits(type) ==
    IF type = "REQUEST" THEN 0 ELSE IF type = "RESPONSE" THEN 1 ELSE 2

\* Type bits 3, which nobody sends, are read as a request.
TypeOf(bits) ==
    IF bits = 1 THEN "RESPONSE" ELSE IF bits = 2 THEN "NEGATIVE_RESPONSE" ELSE "REQUEST"

Bit(b) == IF b THEN 1 ELSE 0

\* Type, acknowledge, an unused bit, fragmented; then three bytes.
ConvertToIdentifier(h, fragmented) ==
    LET flags == 8 * TypeBits(h.type) + 4 * Bit(h.isAcknowledge) + Bit(fragmented) IN
    ((flags * 256 + h.destination) * 256 + h.source) * 256 + h.packetIdentifier

\* The identifier without its lowest byte.
Upper(identifier) == identifier \div 256

Flags(identifier) == Upper(Upper(Upper(identifier)))

ConvertToHeader(identifier) ==
    [type |-> TypeOf((Flags(identifier) \div 8) % 4),
     isAcknowledge |-> (Flags(identifier) \div 4) % 2 = 1,
     destination |-> Upper(Upper(identifier)) % 256,
     source |-> Upper(identifier) % 256,
     packetIdentifier |-> identifier % 256]

IsFragment(identifier) == Flags(identifier) % 2 = 1

NumberOfFragments(size) == (size + 5) \div 6

\* packet and piece stand for the bytes of the payload: piece i begins at byte 6 * i.
Frame == [identifier : Nat, index : 0..15, counter : 0..15, size : 0..255,
          length : 0..8, packet : PacketId, piece : 0..42]

ShortFrame(p) ==
    [identifier |-> ConvertToIdentifier(HeaderOf(p), FALSE),
     index |-> 0, counter |-> 0, size |-> 0, length |-> SizeOf(p),
     packet |-> p, piece |-> 0]

\* The packet is marked as fragmented, but what is left of its size fits in a frame:
\* the receivers take bytes of the payload for index, counter and size.
CutFrames(p) ==
    {[identifier |-> ConvertToIdentifier(HeaderOf(p), TRUE),
      index |-> data.index, counter |-> data.counter, size |-> data.size,
      length |-> MessageSize(p), packet |-> p, piece |-> 0] :
         data \in [index : 0..15, counter : 0..15, size : 0..255]}

IsLast(p, index) == MessageSize(p) - 6 * index <= 6

\* data[0] = fragmentIndex | (messageCounter & 0xf0): four bits of the index have room,
\* from fragment 16 on the others run into the counter.
CounterBits(counter, index) ==
    LET high == index \div 16 IN
    IF high = 0 \/ (counter \div high) % 2 = 1 THEN counter ELSE counter + high

\* Mutant: all that is left is sent, not 6 bytes of it.
FragmentFrame_Uncapped(p, index, counter) ==
    [identifier |-> ConvertToIdentifier(HeaderOf(p), TRUE),
     index |-> index % 16, counter |-> CounterBits(counter, index),
     size |-> MessageSize(p), length |-> 2 + MessageSize(p) - 6 * index,
     packet |-> p, piece |-> index]

FragmentFrame(p, index, counter) ==
    [identifier |-> ConvertToIdentifier(HeaderOf(p), TRUE),
     index |-> index % 16, counter |-> CounterBits(counter, index),
     size |-> MessageSize(p),
     length |-> 2 + (IF IsLast(p, index) THEN MessageSize(p) - 6 * index ELSE 6),
     packet |-> p, piece |-> index]

-----------------------------------------------------------------------------
(* Packets that were received.  parts[i] is the packet that piece i of the *)
(* payload was copied from.                                                *)

Parts == [0..15 -> PacketId \cup {Nothing}]
Unwritten == [i \in 0..15 |-> Nothing]

Item == [header : Header, size : 0..255, parts : Parts]
Pending == [size : 0..255, receivedFragments : SUBSET (0..15), parts : Parts]

NumberOfPieces(size) == IF size <= 8 THEN 1 ELSE NumberOfFragments(size)

IsWhole(item, p) ==
    /\ item.header = HeaderOf(p) /\ item.size = SizeOf(p)
    /\ \A i \in 0 .. NumberOfPieces(item.size) - 1 : item.parts[i] = p

\* The packet that item is, Nothing if it is none.
PacketIn(item) ==
    LET p == item.parts[0] IN
    IF p # Nothing /\ IsWhole(item, p) THEN p ELSE Nothing

-----------------------------------------------------------------------------
(* sendPacket                                                              *)

Ready(n) == Len(tx[n]) < TxSlots

CallSendPacket(n) ==
    /\ sent[n] < Len(Script[n])
    /\ sent' = [sent EXCEPT ![n] = @ + 1]

NextPacket(n) == <<n, sent[n] + 1>>

\* A short packet goes to the driver past the waiting ones.
SendDirectly(n) ==
    /\ CallSendPacket(n)
    /\ ~IsFragmented(NextPacket(n)) /\ Ready(n)
    /\ tx' = [tx EXCEPT ![n] = Append(@, ShortFrame(NextPacket(n)))]
    /\ UNCHANGED <<sendList, messageCounter, receiver, rx, bus>>

\* Mutant: the packet is put in front of the waiting ones.
SendLater_Prepends(n) ==
    /\ CallSendPacket(n)
    /\ IsFragmented(NextPacket(n)) \/ ~Ready(n)
    /\ Len(sendList[n]) < MaxWaiting
    /\ sendList' = [sendList EXCEPT ![n] =
                        <<[packet |-> NextPacket(n), fragmentIndex |-> 0]>> \o @]
    /\ UNCHANGED <<messageCounter, receiver, tx, rx, bus>>

SendLater(n) ==
    /\ CallSendPacket(n)
    /\ IsFragmented(NextPacket(n)) \/ ~Ready(n)
    /\ Len(sendList[n]) < MaxWaiting
    /\ sendList' = [sendList EXCEPT ![n] =
                        Append(@, [packet |-> NextPacket(n), fragmentIndex |-> 0])]
    /\ UNCHANGED <<messageCounter, receiver, tx, rx, bus>>

-----------------------------------------------------------------------------
(* update: all frames are retrieved, then sendWaitingMessages sends one.   *)

Waiting(n) == rx[n] = <<>> /\ sendList[n] # <<>>

\* Any state but Connected empties the list.
DropWaiting(n) ==
    /\ Waiting(n) /\ busState[n] # "Connected"
    /\ sendList' = [sendList EXCEPT ![n] = <<>>]
    /\ UNCHANGED <<sent, messageCounter, receiver, tx, rx, bus>>

SendShort(n) ==
    LET p == Head(sendList[n]).packet IN
    /\ Waiting(n) /\ busState[n] = "Connected" /\ Ready(n)
    /\ MessageSize(p) <= 8
    /\ \E f \in IF IsFragmented(p) THEN CutFrames(p) ELSE {ShortFrame(p)} :
           tx' = [tx EXCEPT ![n] = Append(@, f)]
    /\ sendList' = [sendList EXCEPT ![n] = Tail(@)]
    /\ UNCHANGED <<sent, messageCounter, receiver, rx, bus>>

\* Mutant: the counter is not advanced.
SendFragment_SameCounter(n) ==
    LET p == Head(sendList[n]).packet  i == Head(sendList[n]).fragmentIndex IN
    /\ Waiting(n) /\ busState[n] = "Connected" /\ Ready(n)
    /\ MessageSize(p) > 8
    /\ tx' = [tx EXCEPT ![n] = Append(@, FragmentFrame(p, i, messageCounter[n]))]
    /\ sendList' = IF IsLast(p, i)
                   THEN [sendList EXCEPT ![n] = Tail(@)]
                   ELSE [sendList EXCEPT ![n][1].fragmentIndex = i + 1]
    /\ UNCHANGED <<sent, messageCounter, receiver, rx, bus>>

SendFragment(n) ==
    LET p == Head(sendList[n]).packet  i == Head(sendList[n]).fragmentIndex IN
    /\ Waiting(n) /\ busState[n] = "Connected" /\ Ready(n)
    /\ MessageSize(p) > 8
    /\ tx' = [tx EXCEPT ![n] = Append(@, FragmentFrame(p, i, messageCounter[n]))]
    /\ IF IsLast(p, i)
       THEN /\ sendList' = [sendList EXCEPT ![n] = Tail(@)]
            /\ messageCounter' = [messageCounter EXCEPT ![n] = (@ + 1) % 16]
       ELSE /\ sendList' = [sendList EXCEPT ![n][1].fragmentIndex = i + 1]
            /\ UNCHANGED messageCounter
    /\ UNCHANGED <<sent, receiver, rx, bus>>

-----------------------------------------------------------------------------
(* update: retrieveMessage.  f is the oldest frame in the driver.          *)

\* Mutant: a last fragment of one byte is excluded.
IsLegal_TooStrict(f) ==
    /\ f.length > 3 /\ f.size <= 48 /\ f.index < NumberOfFragments(f.size)
    /\ IF f.index + 1 = NumberOfFragments(f.size)
       THEN f.size - 6 * f.index = f.length - 2
       ELSE f.length = 8

\* The size and the format of a fragment are checked before it is stored.
IsLegal(f) ==
    /\ f.length >= 3 /\ f.size <= 48 /\ f.index < NumberOfFragments(f.size)
    /\ IF f.index + 1 = NumberOfFragments(f.size)
       THEN f.size - 6 * f.index = f.length - 2
       ELSE f.length = 8

Retrieve(n) ==
    /\ rx[n] # <<>> /\ Len(receivedMessages[n]) < MaxWaiting
    /\ rx' = [rx EXCEPT ![n] = Tail(@)]
    /\ UNCHANGED <<sender, tx, bus, taken>>

RetrieveShort(n) ==
    LET f == Head(rx[n]) IN
    /\ Retrieve(n)
    /\ ~IsFragment(f.identifier)
    /\ receivedMessages' = [receivedMessages EXCEPT ![n] =
           Append(@, [header |-> ConvertToHeader(f.identifier), size |-> f.length,
                      parts |-> [Unwritten EXCEPT ![0] = f.packet]])]
    /\ UNCHANGED pendingMessages

RetrieveIllegal(n) ==
    LET f == Head(rx[n]) IN
    /\ Retrieve(n)
    /\ IsFragment(f.identifier) /\ ~IsLegal(f)
    /\ UNCHANGED <<pendingMessages, receivedMessages>>

\* Mutant: the message counter is not compared.
Key_IgnoresCounter(f) == <<ConvertToHeader(f.identifier), 0>>

Key(f) == <<ConvertToHeader(f.identifier), f.counter>>

\* The entry for the packet of f, or a new one.
EntryFor(n, f) ==
    IF Key(f) \in DOMAIN pendingMessages[n]
    THEN pendingMessages[n][Key(f)]
    ELSE [size |-> f.size, receivedFragments |-> {}, parts |-> Unwritten]

\* Mutant: a fragment that is there already is ignored.
WithFragment_KeepsOld(entry, f) ==
    IF f.index \in entry.receivedFragments THEN entry
    ELSE [entry EXCEPT !.receivedFragments = @ \cup {f.index},
                       !.parts = [@ EXCEPT ![f.index] = f.packet]]

\* A fragment that is there already restarts the entry.
WithFragment(entry, f) ==
    [entry EXCEPT
        !.receivedFragments = (IF f.index \in @ THEN {} ELSE @) \cup {f.index},
        !.parts = [@ EXCEPT ![f.index] = f.packet]]

IsComplete(entry, f) ==
    Cardinality(entry.receivedFragments) = NumberOfFragments(f.size)

RetrieveFragment(n) ==
    LET f == Head(rx[n])
        entry == WithFragment(EntryFor(n, f), f)
        others == DOMAIN pendingMessages[n] \ {Key(f)}
    IN
    /\ Retrieve(n)
    /\ IsFragment(f.identifier) /\ IsLegal(f)
    /\ IF IsComplete(entry, f)
       THEN /\ pendingMessages' = [pendingMessages EXCEPT ![n] =
                                       [k \in others |-> @[k]]]
            /\ receivedMessages' = [receivedMessages EXCEPT ![n] =
                   Append(@, [header |-> Key(f)[1], size |-> entry.size,
                              parts |-> entry.parts])]
       ELSE /\ pendingMessages' = [pendingMessages EXCEPT ![n] =
                   [k \in others \cup {Key(f)} |-> IF k = Key(f) THEN entry ELSE @[k]]]
            /\ UNCHANGED receivedMessages

DropPacket(n) ==
    /\ receivedMessages[n] # <<>>
    /\ receivedMessages' = [receivedMessages EXCEPT ![n] = Tail(@)]
    /\ taken' = [taken EXCEPT ![n] = Append(@, PacketIn(Head(receivedMessages[n])))]
    /\ UNCHANGED <<sender, pendingMessages, tx, rx, bus>>

-----------------------------------------------------------------------------
(* The drivers and the bus                                                 *)

\* A frame reaches all other nodes but those that miss it.
Transmit(n, k) ==
    /\ k \in DOMAIN tx[n] /\ (InOrder => k = 1)
    /\ \E missed \in SUBSET (Node \ {n}) :
           /\ \A m \in Node \ {n} : Len(rx[m]) = RxSlots => m \in missed
           /\ losses + Cardinality(missed) <= MaxLosses
           /\ losses' = losses + Cardinality(missed)
           /\ rx' = [m \in Node |-> IF m \in missed \cup {n} THEN rx[m]
                                    ELSE Append(rx[m], tx[n][k])]
    /\ tx' = [tx EXCEPT ![n] = RemoveAt(@, k)]
    /\ UNCHANGED <<sender, receiver, busState, warnings>>

\* The error counters of n pass the warning limit; it can still transmit.
Warn(n) ==
    /\ warnings < MaxWarnings /\ busState[n] = "Connected"
    /\ busState' = [busState EXCEPT ![n] = "ErrorWarning"]
    /\ warnings' = warnings + 1
    /\ UNCHANGED <<sender, receiver, tx, rx, losses>>

Recover(n) ==
    /\ busState[n] # "Connected"
    /\ busState' = [busState EXCEPT ![n] = "Connected"]
    /\ UNCHANGED <<sender, receiver, tx, rx, losses, warnings>>

-----------------------------------------------------------------------------
Update(n) ==
    \/ RetrieveShort(n)
    \/ RetrieveIllegal(n)
    \/ RetrieveFragment(n)
    \/ DropWaiting(n)
    \/ SendShort(n)
    \/ SendFragment(n)

Init ==
    /\ sent = [n \in Node |-> 0]
    /\ sendList = [n \in Node |-> <<>>]
    /\ messageCounter = [n \in Node |-> 0]
    /\ pendingMessages = [n \in Node |-> <<>>]
    /\ receivedMessages = [n \in Node |-> <<>>]
    /\ tx = [n \in Node |-> <<>>]
    /\ rx = [n \in Node |-> <<>>]
    /\ busState = [n \in Node |-> "Connected"]
    /\ losses = 0
    /\ warnings = 0
    /\ taken = [n \in Node |-> <<>>]

Next ==
    \E n \in Node :
        \/ SendDirectly(n)
        \/ SendLater(n)
        \/ Update(n)
        \/ DropPacket(n)
        \/ \E k \in DOMAIN tx[n] : Transmit(n, k)
        \/ Warn(n)
        \/ Recover(n)

Spec == Init /\ [][Next]_vars

\* The main loop calls update and drops the packets it has handled; the driver
\* transmits the oldest of its frames in the end.
FairSpec ==
    /\ Spec
    /\ \A n \in Node : /\ WF_vars(Update(n))
                       /\ WF_vars(DropPacket(n))
                       /\ WF_vars(\E k \in DOMAIN tx[n] : Transmit(n, k))

-----------------------------------------------------------------------------
(* Properties                                                              *)

TypeOK ==
    /\ sent \in [Node -> Nat]
    /\ sendList \in [Node -> Seq([packet : PacketId, fragmentIndex : 0..42])]
    /\ messageCounter \in [Node -> 0..15]
    /\ \A n \in Node :
          /\ DOMAIN pendingMessages[n] \subseteq Header \X (0..15)
          /\ \A k \in DOMAIN pendingMessages[n] : pendingMessages[n][k] \in Pending
    /\ receivedMessages \in [Node -> Seq(Item)]
    /\ tx \in [Node -> Seq(Frame)]
    /\ rx \in [Node -> Seq(Frame)]
    /\ busState \in [Node -> {"Connected", "ErrorWarning"}]
    /\ losses \in 0 .. MaxLosses
    /\ warnings \in 0 .. MaxWarnings
    /\ taken \in [Node -> Seq(PacketId \cup {Nothing})]

\* The packets that were available on n, in order.
Delivered(n) ==
    taken[n] \o [i \in DOMAIN receivedMessages[n] |-> PacketIn(receivedMessages[n][i])]

Channel == INSTANCE PacketChannel WITH
    Packet <- PacketId,
    Origin <- [p \in PacketId |-> p[1]],
    submitted <- {p \in PacketId : p[2] <= sent[p[1]]},
    delivered <- [n \in Node |-> Delivered(n)]

\* The counter of p while the bus state stays Connected: each fragmented packet of
\* its board has advanced it (connector_impl.hpp:179).
Counter(p) ==
    Cardinality({i \in 1 .. p[2] - 1 : IsFragmented(<<p[1], i>>)}) % 16

\* Header and counter are all a receiver tells fragmented packets apart by: the
\* counter has not come back to its value for a packet with the same header.
DistinctKeys ==
    \A p, q \in PacketId :
        /\ IsFragmented(p) /\ IsFragmented(q)
        /\ HeaderOf(p) = HeaderOf(q) /\ Counter(p) = Counter(q)
        => p = q

\* Eight bits hold the size of every packet: of a longer one only the first
\* messageSize bytes are sent (connector_impl.hpp:149), as if they were the packet.
SizesFit == \A p \in PacketId : SizeOf(p) <= 255

\* The connector is a backend: every packet arrives as it was sent or not at all,
\* on other boards only and at most once on each.
ImplementsChannel == Channel!Spec

\* Fragmented packets of a board do not overtake each other; only those that fit
\* in one frame pass the packets waiting in sendList (connector_impl.hpp:81).
FragmentedInOrder ==
    \A n \in Node : LET d == Delivered(n) IN \A i, j \in DOMAIN d :
        LET p == d[i]  q == d[j] IN
        /\ i < j /\ p # Nothing /\ q # Nothing
        /\ p[1] = q[1] /\ IsFragmented(p) /\ IsFragmented(q)
        => p[2] < q[2]

\* "Check if other parts of this message are already in the list of receiving
\* messages" (connector_impl.hpp:249): a fragment is put only to fragments of its own
\* packet, unless it restarts the entry.
FragmentMeetsItsPacket ==
    \A n \in Node : rx[n] # <<>> =>
        LET f == Head(rx[n])  entry == EntryFor(n, f) IN
        IsFragment(f.identifier) /\ IsLegal(f) /\ f.index \notin entry.receivedFragments
            => \A i \in entry.receivedFragments : entry.parts[i] = f.packet

\* "received fragment twice -> most likely a new message -> delete the old one"
\* (connector_impl.hpp:273): a fragment never reaches behind the end of the payload it
\* is copied to, which has the size that the first fragment of the entry announced.
FragmentFits ==
    \A n \in Node : rx[n] # <<>> =>
        LET f == Head(rx[n]) IN
        IsFragment(f.identifier) /\ IsLegal(f)
            => 6 * f.index + f.length - 2 <= EntryFor(n, f).size

\* When no frame is lost and the bus stays connected, every packet of at most 48
\* bytes arrives on all other boards.
PacketArrives ==
    <>[](\/ warnings > 0
         \/ \A p \in PacketId : SizeOf(p) <= 48 /\ p[2] <= sent[p[1]] =>
                \A n \in Node \ {p[1]} : p \in ToSet(Delivered(n)))
=============================================================================
