------------------------- MODULE CanConnectorProofs -------------------------
(***************************************************************************)
(* Proofs about CanConnector, for any boards, packets and bounds.          *)
(***************************************************************************)
EXTENDS CanConnector, FiniteSetTheorems, SequenceTheorems, TLAPS

-----------------------------------------------------------------------------
(* Identifiers and fragments                                               *)

\* The three parts of the upper byte.
LEMMA FlagsOut ==
    ASSUME NEW t \in 0..2, NEW a \in 0..1, NEW f \in 0..1
    PROVE  LET flags == 8 * t + 4 * a + f IN
           /\ flags \in Nat
           /\ (flags \div 8) % 4 = t /\ (flags \div 4) % 2 = a /\ flags % 2 = f
  BY SMT

\* The bytes of an identifier.
LEMMA IdentifierBytes ==
    ASSUME NEW h \in Header, NEW b \in BOOLEAN
    PROVE  LET id == ConvertToIdentifier(h, b) IN
           /\ id \in Nat
           /\ Flags(id) = 8 * TypeBits(h.type) + 4 * Bit(h.isAcknowledge) + Bit(b)
           /\ Upper(Upper(id)) % 256 = h.destination
           /\ Upper(id) % 256 = h.source
           /\ id % 256 = h.packetIdentifier
  <1>1. /\ TypeBits(h.type) \in 0..2 /\ Bit(h.isAcknowledge) \in 0..1 /\ Bit(b) \in 0..1
        /\ h.destination \in 0..255 /\ h.source \in 0..255
        /\ h.packetIdentifier \in 0..255
    BY DEF Header, TypeBits, Bit
  <1>2. PICK flags \in Nat :
           flags = 8 * TypeBits(h.type) + 4 * Bit(h.isAcknowledge) + Bit(b)
    BY <1>1, FlagsOut
  <1>3. PICK destination \in 0..255, source \in 0..255, identifier \in 0..255 :
           /\ destination = h.destination /\ source = h.source
           /\ identifier = h.packetIdentifier
    BY <1>1
  <1>4. PICK two \in Nat : two = flags * 256 + destination
    OBVIOUS
  <1>5. PICK three \in Nat, id \in Nat :
           three = two * 256 + source /\ id = three * 256 + identifier
    OBVIOUS
  <1>6. ConvertToIdentifier(h, b) = id
    BY <1>2, <1>3, <1>4, <1>5 DEF ConvertToIdentifier
  <1>7. Upper(two) = flags /\ two % 256 = destination
    BY <1>4 DEF Upper
  <1>8. Upper(three) = two /\ three % 256 = source
    BY <1>5 DEF Upper
  <1>9. Upper(id) = three /\ id % 256 = identifier
    BY <1>5 DEF Upper
  <1>. QED
    BY <1>2, <1>3, <1>6, <1>7, <1>8, <1>9 DEF Flags

\* A board that reads an identifier (convertToHeader) gets the header that the
\* sender made it from (convertToIdentifier), and sees whether it is a fragment.
THEOREM IdentifierRoundTrip ==
    ASSUME NEW h \in Header, NEW b \in BOOLEAN
    PROVE  /\ ConvertToHeader(ConvertToIdentifier(h, b)) = h
           /\ IsFragment(ConvertToIdentifier(h, b)) = b
  <1> DEFINE id == ConvertToIdentifier(h, b)
             t == TypeBits(h.type)  a == Bit(h.isAcknowledge)  f == Bit(b)
  <1>1. /\ t \in 0..2 /\ h.type = TypeOf(t)
        /\ a \in 0..1 /\ h.isAcknowledge = (a = 1)
        /\ f \in 0..1 /\ b = (f = 1)
    BY DEF Header, PacketType, TypeBits, TypeOf, Bit
  <1>2. Flags(id) = 8 * t + 4 * a + f
    BY IdentifierBytes
  <1>3. /\ Upper(Upper(id)) % 256 = h.destination /\ Upper(id) % 256 = h.source
        /\ id % 256 = h.packetIdentifier
    BY IdentifierBytes
  <1>. HIDE DEF id, t, a, f
  <1>4. /\ (Flags(id) \div 8) % 4 = t /\ (Flags(id) \div 4) % 2 = a
        /\ Flags(id) % 2 = f
    BY <1>1, <1>2, FlagsOut
  <1>5. IsFragment(id) = b
    BY <1>1, <1>4 DEF IsFragment
  <1>6. ConvertToHeader(id)
           = [type |-> h.type, isAcknowledge |-> h.isAcknowledge,
              destination |-> h.destination, source |-> h.source,
              packetIdentifier |-> h.packetIdentifier]
    BY <1>1, <1>3, <1>4 DEF ConvertToHeader
  <1>7. ConvertToHeader(id) = h
    BY <1>6 DEF Header
  <1>. QED
    BY <1>5, <1>7 DEF id

\* What a board puts on the bus, the others accept: a fragment of a packet of at
\* most 48 bytes passes the checks of retrieveMessage (connector_impl.hpp:220-247),
\* also the last one, however many bytes it has.
THEOREM FragmentsAreLegal ==
    ASSUME NEW p \in PacketId, NEW c \in 0..15, NEW i \in Nat,
           SizeOf(p) \in 9..48, 6 * i < SizeOf(p)
    PROVE  IsLegal(FragmentFrame(p, i, c))
  <1>. PICK size \in 9..48 : size = SizeOf(p)
    OBVIOUS
  <1>1. MessageSize(p) = size /\ i % 16 = i
    BY DEF MessageSize
  <1>2. /\ i < NumberOfFragments(size)
        /\ i + 1 = NumberOfFragments(size) <=> IsLast(p, i)
    BY <1>1, SMT DEF NumberOfFragments, IsLast
  <1>. PICK f : f = FragmentFrame(p, i, c)
    OBVIOUS
  <1>3. /\ f.size = size /\ f.index = i
        /\ f.length = 2 + (IF IsLast(p, i) THEN size - 6 * i ELSE 6)
    BY <1>1 DEF FragmentFrame
  <1>4. CASE IsLast(p, i)
    BY <1>1, <1>2, <1>3, <1>4 DEF IsLegal, IsLast
  <1>5. CASE ~IsLast(p, i)
    BY <1>1, <1>2, <1>3, <1>5 DEF IsLegal, IsLast
  <1>. QED
    BY <1>4, <1>5
-----------------------------------------------------------------------------
(* Types                                                                   *)

LEMMA PacketTypes ==
    ASSUME NEW p \in PacketId
    PROVE  /\ HeaderOf(p) \in Header /\ SizeOf(p) \in Nat
           /\ MessageSize(p) \in 0..255 /\ MessageSize(p) <= SizeOf(p)
           /\ SizeOf(p) <= 255 => MessageSize(p) = SizeOf(p)
  <1>1. PICK n \in Node : p \in {n} \X DOMAIN Script[n]
    BY DEF PacketId
  <1>2. p[1] = n /\ p[2] \in DOMAIN Script[n]
    BY <1>1
  <1>3. Script[n] \in Seq([header : Header, size : PacketSize])
    BY ScriptAssumption
  <1>4. Script[n][p[2]] \in [header : Header, size : PacketSize]
    <2>1. \A S : \A s \in Seq(S) : \A i \in DOMAIN s : s[i] \in S
      OBVIOUS
    <2>. QED
      BY <1>2, <1>3, <2>1
  <1>5. HeaderOf(p) \in Header /\ SizeOf(p) \in Nat
    <2>1. HeaderOf(p) \in Header /\ SizeOf(p) \in PacketSize
      BY <1>2, <1>4 DEF HeaderOf, SizeOf
    <2>2. \A size \in PacketSize : size \in Nat
      BY SMTT(30) DEF PacketSize
    <2>. QED
      BY <2>1, <2>2
  <1>6. \A size \in Nat : /\ size % 256 \in 0..255 /\ size % 256 <= size
                          /\ size <= 255 => size % 256 = size
    OBVIOUS
  <1>. QED
    BY <1>5, <1>6 DEF MessageSize

LEMMA NextPacketType ==
    ASSUME NEW n \in Node, sent \in [Node -> Nat], sent[n] < Len(Script[n])
    PROVE  NextPacket(n) \in PacketId
  <1>1. Script[n] \in Seq([header : Header, size : PacketSize])
    BY ScriptAssumption
  <1>2. sent[n] + 1 \in DOMAIN Script[n]
    BY <1>1
  <1>3. NextPacket(n) \in {n} \X DOMAIN Script[n]
    BY <1>2 DEF NextPacket
  <1>. QED
    BY <1>3 DEF PacketId

LEMMA ShortFrameType ==
    ASSUME NEW p \in PacketId, ~IsFragmented(p)
    PROVE  ShortFrame(p) \in Frame
  <1>1. PICK length \in 0..8 : length = SizeOf(p)
    BY PacketTypes DEF IsFragmented
  <1>2. PICK id \in Nat : id = ConvertToIdentifier(HeaderOf(p), FALSE)
    BY PacketTypes, IdentifierBytes
  <1>3. ShortFrame(p) = [identifier |-> id, index |-> 0, counter |-> 0, size |-> 0,
                         length |-> length, packet |-> p, piece |-> 0]
    BY <1>1, <1>2 DEF ShortFrame
  <1>. QED
    BY <1>3 DEF Frame

\* Whatever the payload begins with.
LEMMA CutFrameType ==
    ASSUME NEW p \in PacketId, MessageSize(p) <= 8
    PROVE  CutFrames(p) \subseteq Frame
  <1>1. PICK length \in 0..8 : length = MessageSize(p)
    BY PacketTypes
  <1>2. PICK id \in Nat : id = ConvertToIdentifier(HeaderOf(p), TRUE)
    BY PacketTypes, IdentifierBytes
  <1>3. ASSUME NEW data \in [index : 0..15, counter : 0..15, size : 0..255]
        PROVE  [identifier |-> id, index |-> data.index, counter |-> data.counter,
                size |-> data.size, length |-> length, packet |-> p, piece |-> 0] \in Frame
    BY DEF Frame
  <1>4. ASSUME NEW f \in CutFrames(p)
        PROVE  f \in Frame
    <2>1. PICK data \in [index : 0..15, counter : 0..15, size : 0..255] :
             f = [identifier |-> ConvertToIdentifier(HeaderOf(p), TRUE),
                  index |-> data.index, counter |-> data.counter, size |-> data.size,
                  length |-> MessageSize(p), packet |-> p, piece |-> 0]
      BY DEF CutFrames
    <2>. QED
      BY <1>1, <1>2, <1>3, <2>1
  <1>. QED
    BY <1>4

\* Four bits stay four bits, and the first 16 fragments leave the counter as it is.
LEMMA CounterBitsType ==
    ASSUME NEW c \in 0..15, NEW i \in 0..42
    PROVE  /\ CounterBits(c, i) \in 0..15
           /\ i <= 15 => CounterBits(c, i) = c
  <1>. PICK high \in 0..2 : high = i \div 16
    OBVIOUS
  <1>1. CounterBits(c, i) = IF high = 0 \/ (c \div high) % 2 = 1 THEN c ELSE c + high
    BY DEF CounterBits
  <1>2. i <= 15 => high = 0
    OBVIOUS
  <1>3. CASE high = 0
    BY <1>1, <1>3
  <1>4. CASE high = 1
    BY <1>1, <1>2, <1>4
  <1>5. CASE high = 2
    BY <1>1, <1>2, <1>5
  <1>. QED
    BY <1>3, <1>4, <1>5

\* A fragment fits in a frame; when it is not the last one there is a next one.
LEMMA FragmentFrameType ==
    ASSUME NEW p \in PacketId, NEW i \in Nat, NEW c \in 0..15, 6 * i < MessageSize(p)
    PROVE  /\ FragmentFrame(p, i, c) \in Frame
           /\ ~IsLast(p, i) => i + 1 \in 0..42 /\ 6 * (i + 1) < MessageSize(p)
  <1>1. PICK size \in 0..255 : size = MessageSize(p)
    BY PacketTypes
  <1>2. i \in 0..42 /\ (size - 6 * i > 6 => i + 1 \in 0..42 /\ 6 * (i + 1) < size)
    BY <1>1
  <1>3. ~IsLast(p, i) => i + 1 \in 0..42 /\ 6 * (i + 1) < MessageSize(p)
    BY <1>1, <1>2 DEF IsLast
  <1>4. PICK length \in 0..8 :
           length = 2 + (IF IsLast(p, i) THEN MessageSize(p) - 6 * i ELSE 6)
    BY <1>1 DEF IsLast
  <1>5. PICK id \in Nat : id = ConvertToIdentifier(HeaderOf(p), TRUE)
    BY PacketTypes, IdentifierBytes
  <1>6. PICK index \in 0..15 : index = i % 16
    OBVIOUS
  <1>7. PICK counter \in 0..15 : counter = CounterBits(c, i)
    <2>1. i \in 0..42
      BY <1>2
    <2>. QED
      BY ONLY <2>1, c \in 0..15, CounterBitsType
  <1>8. FragmentFrame(p, i, c) = [identifier |-> id, index |-> index, counter |-> counter,
                                  size |-> size, length |-> length, packet |-> p,
                                  piece |-> i]
    BY <1>1, <1>4, <1>5, <1>6, <1>7 DEF FragmentFrame
  <1>9. FragmentFrame(p, i, c) \in Frame
    BY <1>2, <1>8 DEF Frame
  <1>. QED
    BY <1>3, <1>9

LEMMA HeaderType ==
    ASSUME NEW identifier \in Nat
    PROVE  ConvertToHeader(identifier) \in Header
  <1>1. \A x \in Nat : Upper(x) \in Nat /\ x % 256 \in 0..255
    BY DEF Upper
  <1>2. \A bits : TypeOf(bits) \in PacketType
    BY DEF TypeOf, PacketType
  <1>. QED
    BY <1>1, <1>2, ZenonT(30) DEF ConvertToHeader, Header

LEMMA PartsType ==
    /\ Unwritten \in Parts
    /\ \A parts \in Parts, i \in 0..15, p \in PacketId : [parts EXCEPT ![i] = p] \in Parts
  BY DEF Parts, Unwritten

LEMMA EntryType ==
    ASSUME TypeOK, NEW n \in Node, NEW f \in Frame
    PROVE  /\ Key(f) \in Header \X (0..15)
           /\ EntryFor(n, f) \in Pending
           /\ WithFragment(EntryFor(n, f), f) \in Pending
  <1>1. /\ f.identifier \in Nat /\ f.index \in 0..15 /\ f.counter \in 0..15
        /\ f.size \in 0..255 /\ f.packet \in PacketId
    BY DEF Frame
  <1>2. Key(f) \in Header \X (0..15)
    BY <1>1, HeaderType DEF Key
  <1>3. EntryFor(n, f) \in Pending
    <2>1. [size |-> f.size, receivedFragments |-> {}, parts |-> Unwritten] \in Pending
      BY <1>1, PartsType DEF Pending
    <2>2. \A k \in DOMAIN pendingMessages[n] : pendingMessages[n][k] \in Pending
      BY DEF TypeOK
    <2>. QED
      BY <2>1, <2>2 DEF EntryFor
  <1>4. ASSUME NEW entry \in Pending
        PROVE  WithFragment(entry, f) \in Pending
    <2>1. entry.parts \in Parts /\ entry.receivedFragments \in SUBSET (0..15)
      BY DEF Pending
    <2>2. [entry.parts EXCEPT ![f.index] = f.packet] \in Parts
      BY <1>1, <2>1, PartsType
    <2>. QED
      BY <1>1, <2>1, <2>2, ZenonT(30) DEF WithFragment, Pending
  <1>. QED
    BY <1>2, <1>3, <1>4

\* What remains of the frames of a driver without its k-th one.
LEMMA RemoveFrame ==
    ASSUME NEW S, NEW s \in Seq(S), NEW k \in DOMAIN s
    PROVE  RemoveAt(s, k) \in Seq(S)
  <1>1. SubSeq(s, 1, k - 1) \in Seq(S) /\ SubSeq(s, k + 1, Len(s)) \in Seq(S)
    OBVIOUS
  <1>. QED
    BY <1>1 DEF RemoveAt

-----------------------------------------------------------------------------
(* The type invariant                                                      *)

Waits == [packet : PacketId, fragmentIndex : 0..42]

\* The fragment that is sent next begins inside the packet.
IndexInside(e) == e.fragmentIndex = 0 \/ 6 * e.fragmentIndex < MessageSize(e.packet)

IndexOK ==
    \A n \in Node : \A i \in DOMAIN sendList[n] : IndexInside(sendList[n][i])

IInv == TypeOK /\ IndexOK

\* sendPacket appends a packet of which nothing was sent.
LEMMA AppendWaits ==
    ASSUME NEW s \in Seq(Waits), NEW e \in Waits,
           \A i \in DOMAIN s : IndexInside(s[i]), IndexInside(e)
    PROVE  /\ Append(s, e) \in Seq(Waits)
           /\ \A i \in DOMAIN Append(s, e) : IndexInside(Append(s, e)[i])
  <1>1. Append(s, e) \in Seq(Waits) /\ Len(Append(s, e)) = Len(s) + 1
    OBVIOUS
  <1>2. ASSUME NEW i \in DOMAIN Append(s, e)
        PROVE  IndexInside(Append(s, e)[i])
    <2>1. CASE i = Len(s) + 1
      BY <1>1, <2>1
    <2>2. CASE i # Len(s) + 1
      <3>1. i \in DOMAIN s /\ Append(s, e)[i] = s[i]
        BY <1>1, <1>2, <2>2
      <3>. QED
        BY <3>1
    <2>. QED
      BY <2>1, <2>2
  <1>. QED
    BY <1>1, <1>2

LEMMA TailWaits ==
    ASSUME NEW s \in Seq(Waits), s # <<>>, \A i \in DOMAIN s : IndexInside(s[i])
    PROVE  /\ Tail(s) \in Seq(Waits)
           /\ \A i \in DOMAIN Tail(s) : IndexInside(Tail(s)[i])
  <1>1. Tail(s) \in Seq(Waits) /\ Len(Tail(s)) = Len(s) - 1
    OBVIOUS
  <1>2. ASSUME NEW i \in DOMAIN Tail(s)
        PROVE  i + 1 \in DOMAIN s /\ Tail(s)[i] = s[i + 1]
    BY <1>1, <1>2
  <1>. QED
    BY <1>1, <1>2

\* The first packet that waits, and its next fragment.
LEMMA HeadWaits ==
    ASSUME IInv, NEW n \in Node, sendList[n] # <<>>
    PROVE  /\ sendList[n] \in Seq(Waits) /\ 1 \in DOMAIN sendList[n]
           /\ Head(sendList[n]) = sendList[n][1] /\ Head(sendList[n]) \in Waits
           /\ Head(sendList[n]).packet \in PacketId
           /\ Head(sendList[n]).fragmentIndex \in 0..42
           /\ IndexInside(Head(sendList[n]))
  <1>1. sendList[n] \in Seq(Waits)
    BY DEF IInv, TypeOK, Waits
  <1>2. /\ 1 \in DOMAIN sendList[n] /\ Head(sendList[n]) = sendList[n][1]
        /\ Head(sendList[n]) \in Waits
    BY <1>1
  <1>3. IndexInside(sendList[n][1])
    BY <1>2 DEF IInv, IndexOK
  <1>. QED
    BY <1>1, <1>2, <1>3 DEF Waits

LEMMA InitType == Init => IInv
  <1>. SUFFICES ASSUME Init PROVE IInv
    OBVIOUS
  <1>1. TypeOK
    BY DriverAssumption DEF Init, TypeOK
  <1>2. IndexOK
    BY DEF Init, IndexOK
  <1>. QED
    BY <1>1, <1>2 DEF IInv

\* One list of waiting packets changes.
LEMMA ListUpdate ==
    ASSUME IInv, NEW n \in Node, NEW s \in Seq(Waits),
           \A i \in DOMAIN s : IndexInside(s[i]),
           sendList' = [sendList EXCEPT ![n] = s]
    PROVE  sendList' \in [Node -> Seq(Waits)] /\ IndexOK'
  <1>1. sendList \in [Node -> Seq(Waits)]
    BY DEF IInv, TypeOK, Waits
  <1>2. sendList' \in [Node -> Seq(Waits)]
    BY <1>1
  <1>3. ASSUME NEW m \in Node, NEW i \in DOMAIN sendList'[m]
        PROVE  IndexInside(sendList'[m][i])
    <2>1. CASE m = n
      BY <1>1, <2>1
    <2>2. CASE m # n
      BY <1>1, <2>2 DEF IInv, IndexOK
    <2>. QED
      BY <2>1, <2>2
  <1>. QED
    BY <1>2, <1>3 DEF IndexOK, IndexInside

\* The driver takes a frame.
LEMMA DriverTakes ==
    ASSUME IInv, NEW n \in Node, NEW f \in Frame, tx' = [tx EXCEPT ![n] = Append(@, f)]
    PROVE  tx' \in [Node -> Seq(Frame)]
  <1>1. tx \in [Node -> Seq(Frame)]
    BY DEF IInv, TypeOK
  <1>2. Append(tx[n], f) \in Seq(Frame)
    BY <1>1
  <1>. QED
    BY <1>1, <1>2

LEMMA SendPacketType ==
    ASSUME IInv, NEW n \in Node, SendDirectly(n) \/ SendLater(n)
    PROVE  IInv'
  <1>1. /\ sent' \in [Node -> Nat] /\ NextPacket(n) \in PacketId
    <2>1. CallSendPacket(n) /\ sent \in [Node -> Nat]
      BY DEF SendDirectly, SendLater, IInv, TypeOK
    <2>2. sent' \in [Node -> Nat]
      BY <2>1 DEF CallSendPacket
    <2>. QED
      BY <2>1, <2>2, NextPacketType DEF CallSendPacket
  <1>2. CASE SendDirectly(n)
    <2>1. tx' \in [Node -> Seq(Frame)]
      BY <1>1, <1>2, ShortFrameType, DriverTakes DEF SendDirectly
    <2>2. UNCHANGED <<sendList, messageCounter, receiver, rx, bus>>
      BY <1>2 DEF SendDirectly
    <2>. QED
      BY <1>1, <2>1, <2>2 DEF IInv, TypeOK, IndexOK, receiver, bus
  <1>3. CASE SendLater(n)
    <2> DEFINE e == [packet |-> NextPacket(n), fragmentIndex |-> 0]
    <2>1. e \in Waits /\ IndexInside(e)
      BY <1>1 DEF Waits, IndexInside
    <2>2. /\ sendList[n] \in Seq(Waits)
          /\ \A i \in DOMAIN sendList[n] : IndexInside(sendList[n][i])
      BY DEF IInv, TypeOK, IndexOK, Waits
    <2>3. sendList' = [sendList EXCEPT ![n] = Append(sendList[n], e)]
      BY <1>3 DEF SendLater
    <2>. HIDE DEF e
    <2>4. sendList' \in [Node -> Seq(Waits)] /\ IndexOK'
      BY <2>1, <2>2, <2>3, AppendWaits, ListUpdate
    <2>5. UNCHANGED <<messageCounter, receiver, tx, rx, bus>>
      BY <1>3 DEF SendLater
    <2>. QED
      BY <1>1, <2>4, <2>5 DEF IInv, TypeOK, receiver, bus, Waits
  <1>. QED
    BY <1>2, <1>3

LEMMA ReplaceFirst ==
    ASSUME NEW S, NEW s \in Seq(S), NEW e \in S, s # <<>>
    PROVE  /\ [s EXCEPT ![1] = e] \in Seq(S)
           /\ DOMAIN [s EXCEPT ![1] = e] = DOMAIN s
  <1>1. s \in [1 .. Len(s) -> S] /\ Len(s) \in Nat
    OBVIOUS
  <1>2. [s EXCEPT ![1] = e] \in [1 .. Len(s) -> S]
    BY <1>1
  <1>3. [s EXCEPT ![1] = e] \in Seq(S)
    BY <1>1, <1>2, SeqDef
  <1>. QED
    BY <1>3

LEMMA SendWaitingType ==
    ASSUME IInv, NEW n \in Node, DropWaiting(n) \/ SendShort(n) \/ SendFragment(n)
    PROVE  IInv'
  <1> DEFINE p == Head(sendList[n]).packet  i == Head(sendList[n]).fragmentIndex
  <1>1. sendList[n] # <<>>
    BY DEF DropWaiting, SendShort, SendFragment, Waiting
  <1>2. p \in PacketId /\ i \in 0..42 /\ IndexInside(Head(sendList[n]))
    BY <1>1, HeadWaits
  <1>3. /\ sendList[n] \in Seq(Waits)
        /\ \A j \in DOMAIN sendList[n] : IndexInside(sendList[n][j])
    BY <1>1, HeadWaits DEF IInv, IndexOK
  <1>4. /\ Tail(sendList[n]) \in Seq(Waits)
        /\ \A j \in DOMAIN Tail(sendList[n]) : IndexInside(Tail(sendList[n])[j])
    BY <1>1, <1>3, TailWaits
  <1>5. CASE DropWaiting(n)
    <2>1. sendList' = [sendList EXCEPT ![n] = <<>>]
          /\ UNCHANGED <<sent, messageCounter, receiver, tx, rx, bus>>
      BY <1>5 DEF DropWaiting
    <2>2. sendList' \in [Node -> Seq(Waits)] /\ IndexOK'
      <3>1. <<>> \in Seq(Waits) /\ DOMAIN <<>> = {}
        OBVIOUS
      <3>. QED
        BY <2>1, <3>1, ListUpdate
    <2>. QED
      BY <2>1, <2>2 DEF IInv, TypeOK, receiver, bus, Waits
  <1>6. CASE SendShort(n)
    <2>1. /\ sendList' = [sendList EXCEPT ![n] = Tail(sendList[n])]
          /\ UNCHANGED <<sent, messageCounter, receiver, rx, bus>>
          /\ MessageSize(p) <= 8
      BY <1>6 DEF SendShort
    <2>2. sendList' \in [Node -> Seq(Waits)] /\ IndexOK'
      BY <1>4, <2>1, ListUpdate
    <2>3. PICK f \in Frame : tx' = [tx EXCEPT ![n] = Append(@, f)]
      <3>1. PICK f \in IF IsFragmented(p) THEN CutFrames(p) ELSE {ShortFrame(p)} :
               tx' = [tx EXCEPT ![n] = Append(@, f)]
        BY <1>6 DEF SendShort
      <3>2. f \in Frame
        BY <1>2, <2>1, ShortFrameType, CutFrameType
      <3>. QED
        BY <3>1, <3>2
    <2>4. tx' \in [Node -> Seq(Frame)]
      BY <2>3, DriverTakes
    <2>. QED
      BY <2>1, <2>2, <2>4 DEF IInv, TypeOK, receiver, bus, Waits
  <1>7. CASE SendFragment(n)
    <2>1. messageCounter[n] \in 0..15 /\ messageCounter \in [Node -> 0..15]
      BY DEF IInv, TypeOK
    <2>2. 6 * i < MessageSize(p)
      <3>1. MessageSize(p) > 8
        BY <1>7 DEF SendFragment
      <3>. QED
        BY <1>2, <3>1, PacketTypes DEF IndexInside
    <2>3. /\ FragmentFrame(p, i, messageCounter[n]) \in Frame
          /\ ~IsLast(p, i) => i + 1 \in 0..42 /\ 6 * (i + 1) < MessageSize(p)
      BY <1>2, <2>1, <2>2, FragmentFrameType, SMTT(30)
    <2>4. tx' \in [Node -> Seq(Frame)]
      BY <1>7, <2>3, DriverTakes DEF SendFragment
    <2>5. UNCHANGED <<sent, receiver, rx, bus>>
      BY <1>7 DEF SendFragment
    <2>6. CASE IsLast(p, i)
      <3>1. /\ sendList' = [sendList EXCEPT ![n] = Tail(sendList[n])]
            /\ messageCounter' = [messageCounter EXCEPT ![n] = (@ + 1) % 16]
        BY <1>7, <2>6 DEF SendFragment
      <3>2. messageCounter' \in [Node -> 0..15]
        BY <2>1, <3>1
      <3>3. sendList' \in [Node -> Seq(Waits)] /\ IndexOK'
        BY <1>4, <3>1, ListUpdate
      <3>. QED
        BY <2>4, <2>5, <3>2, <3>3 DEF IInv, TypeOK, receiver, bus, Waits
    <2>7. CASE ~IsLast(p, i)
      <3> DEFINE e == [packet |-> p, fragmentIndex |-> i + 1]
                 s == [sendList[n] EXCEPT ![1] = e]
      <3>1. /\ sendList' = [sendList EXCEPT ![n][1].fragmentIndex = i + 1]
            /\ UNCHANGED messageCounter
        BY <1>7, <2>7 DEF SendFragment
      <3>2. e \in Waits /\ IndexInside(e)
        BY <1>2, <2>3, <2>7 DEF Waits, IndexInside
      <3>3. [sendList[n][1] EXCEPT !.fragmentIndex = i + 1] = e
        BY <1>1, HeadWaits DEF Waits
      <3>4. sendList' = [sendList EXCEPT ![n] = s]
        BY <3>1, <3>3
      <3>. HIDE DEF e
      <3>5. s \in Seq(Waits) /\ DOMAIN s = DOMAIN sendList[n]
        BY <1>1, <1>3, <3>2, ReplaceFirst
      <3>6. \A j \in DOMAIN s : IndexInside(s[j])
        BY <1>3, <3>2, <3>5
      <3>. HIDE DEF s
      <3>7. sendList' \in [Node -> Seq(Waits)] /\ IndexOK'
        BY <3>4, <3>5, <3>6, ListUpdate
      <3>. QED
        BY <2>4, <2>5, <3>1, <3>7 DEF IInv, TypeOK, receiver, bus, Waits
    <2>. QED
      BY <2>6, <2>7
  <1>. QED
    BY <1>5, <1>6, <1>7

\* The oldest frame of a receiver.
LEMMA HeadFrame ==
    ASSUME TypeOK, NEW n \in Node, rx[n] # <<>>
    PROVE  /\ Head(rx[n]) \in Frame
           /\ [rx EXCEPT ![n] = Tail(@)] \in [Node -> Seq(Frame)]
  <1>1. rx \in [Node -> Seq(Frame)]
    BY DEF TypeOK
  <1>2. Head(rx[n]) \in Frame /\ Tail(rx[n]) \in Seq(Frame)
    BY <1>1
  <1>. QED
    BY <1>1, <1>2

\* A packet becomes available.
LEMMA ItemAppended ==
    ASSUME TypeOK, NEW n \in Node, NEW item \in Item,
           receivedMessages' = [receivedMessages EXCEPT ![n] = Append(@, item)]
    PROVE  receivedMessages' \in [Node -> Seq(Item)]
  <1>1. receivedMessages \in [Node -> Seq(Item)]
    BY DEF TypeOK
  <1>2. Append(receivedMessages[n], item) \in Seq(Item)
    BY <1>1
  <1>. QED
    BY <1>1, <1>2

PendingOK(pending) ==
    \A n \in Node : /\ DOMAIN pending[n] \subseteq Header \X (0..15)
                    /\ \A k \in DOMAIN pending[n] : pending[n][k] \in Pending

LEMMA RetrieveType ==
    ASSUME IInv, NEW n \in Node,
           RetrieveShort(n) \/ RetrieveIllegal(n) \/ RetrieveFragment(n)
    PROVE  IInv'
  <1> DEFINE f == Head(rx[n])
  <1>1. TypeOK
    BY DEF IInv
  <1>2. Retrieve(n)
    BY DEF RetrieveShort, RetrieveIllegal, RetrieveFragment
  <1>3. f \in Frame /\ rx' \in [Node -> Seq(Frame)]
    BY <1>1, <1>2, HeadFrame DEF Retrieve
  <1>4. /\ f.identifier \in Nat /\ f.length \in 0..8 /\ f.packet \in PacketId
        /\ ConvertToHeader(f.identifier) \in Header
    BY <1>3, HeaderType DEF Frame
  <1>5. UNCHANGED <<sender, tx, bus, taken>>
    BY <1>2 DEF Retrieve
  <1>6. SUFFICES PendingOK(pendingMessages') /\ receivedMessages' \in [Node -> Seq(Item)]
    BY <1>3, <1>5 DEF IInv, IndexOK, TypeOK, PendingOK, sender, bus
  <1>7. PendingOK(pendingMessages) /\ receivedMessages \in [Node -> Seq(Item)]
    BY <1>1 DEF TypeOK, PendingOK
  <1>. HIDE DEF f
  <1>8. CASE RetrieveShort(n)
    <2> DEFINE item == [header |-> ConvertToHeader(f.identifier), size |-> f.length,
                        parts |-> [Unwritten EXCEPT ![0] = f.packet]]
    <2>1. item \in Item
      BY <1>4, PartsType DEF Item
    <2>2. /\ receivedMessages' = [receivedMessages EXCEPT ![n] = Append(@, item)]
          /\ UNCHANGED pendingMessages
      BY <1>8 DEF RetrieveShort, f
    <2>. QED
      BY <1>1, <1>7, <2>1, <2>2, ItemAppended
  <1>9. CASE RetrieveIllegal(n)
    BY <1>7, <1>9 DEF RetrieveIllegal
  <1>10. CASE RetrieveFragment(n)
    <2> DEFINE entry == WithFragment(EntryFor(n, f), f)
               others == DOMAIN pendingMessages[n] \ {Key(f)}
               item == [header |-> Key(f)[1], size |-> entry.size, parts |-> entry.parts]
    <2>1. entry \in Pending /\ Key(f) \in Header \X (0..15)
      BY <1>1, <1>3, EntryType
    <2>. HIDE DEF entry
    <2>2. item \in Item
      BY <2>1 DEF Item, Pending
    <2>3. CASE IsComplete(entry, f)
      <3>1. /\ pendingMessages' = [pendingMessages EXCEPT ![n] = [k \in others |-> @[k]]]
            /\ receivedMessages' = [receivedMessages EXCEPT ![n] = Append(@, item)]
        BY <1>10, <2>3 DEF RetrieveFragment, f, entry
      <3>2. PendingOK(pendingMessages')
        BY <1>7, <3>1 DEF PendingOK
      <3>. QED
        BY <1>1, <2>2, <3>1, <3>2, ItemAppended
    <2>4. CASE ~IsComplete(entry, f)
      <3>1. /\ pendingMessages' = [pendingMessages EXCEPT ![n] =
                   [k \in others \cup {Key(f)} |-> IF k = Key(f) THEN entry ELSE @[k]]]
            /\ UNCHANGED receivedMessages
        BY <1>10, <2>4 DEF RetrieveFragment, f, entry
      <3>2. PendingOK(pendingMessages')
        BY <1>7, <2>1, <3>1 DEF PendingOK
      <3>. QED
        BY <1>7, <3>1, <3>2
    <2>. QED
      BY <2>3, <2>4
  <1>. QED
    BY <1>8, <1>9, <1>10

LEMMA DropPacketType ==
    ASSUME IInv, NEW n \in Node, DropPacket(n)
    PROVE  IInv'
  <1>1. /\ receivedMessages \in [Node -> Seq(Item)]
        /\ taken \in [Node -> Seq(PacketId \cup {Nothing})]
    BY DEF IInv, TypeOK
  <1>2. Head(receivedMessages[n]) \in Item /\ Tail(receivedMessages[n]) \in Seq(Item)
    BY <1>1 DEF DropPacket
  <1>3. PacketIn(Head(receivedMessages[n])) \in PacketId \cup {Nothing}
    BY <1>2 DEF PacketIn, Item, Parts
  <1>4. Append(taken[n], PacketIn(Head(receivedMessages[n]))) \in Seq(PacketId \cup {Nothing})
    BY <1>1, <1>3
  <1>5. /\ receivedMessages' \in [Node -> Seq(Item)]
        /\ taken' \in [Node -> Seq(PacketId \cup {Nothing})]
    BY <1>1, <1>2, <1>4 DEF DropPacket
  <1>. QED
    BY <1>5 DEF DropPacket, IInv, IndexOK, TypeOK, sender, bus

LEMMA TransmitType ==
    ASSUME IInv, NEW n \in Node, NEW k \in DOMAIN tx[n], Transmit(n, k)
    PROVE  IInv'
  <1>1. tx \in [Node -> Seq(Frame)] /\ rx \in [Node -> Seq(Frame)]
    BY DEF IInv, TypeOK
  <1>2. tx[n][k] \in Frame
    BY <1>1
  <1>3. PICK missed \in SUBSET (Node \ {n}) :
           /\ losses + Cardinality(missed) <= MaxLosses
           /\ losses' = losses + Cardinality(missed)
           /\ rx' = [m \in Node |-> IF m \in missed \cup {n} THEN rx[m]
                                    ELSE Append(rx[m], tx[n][k])]
    BY DEF Transmit
  <1>4. Cardinality(missed) \in Nat
    BY NodeAssumption, FS_Subset, FS_CardinalityType
  <1>5. losses' \in 0 .. MaxLosses
    BY <1>3, <1>4, DriverAssumption DEF IInv, TypeOK
  <1>6. \A m \in Node : Append(rx[m], tx[n][k]) \in Seq(Frame)
    BY <1>1, <1>2
  <1>7. rx' \in [Node -> Seq(Frame)]
    BY <1>1, <1>3, <1>6
  <1>8. tx' \in [Node -> Seq(Frame)]
    <2>1. RemoveAt(tx[n], k) \in Seq(Frame)
      BY <1>1, RemoveFrame
    <2>2. tx' = [tx EXCEPT ![n] = RemoveAt(tx[n], k)]
      BY DEF Transmit
    <2>. QED
      BY <1>1, <2>1, <2>2
  <1>9. UNCHANGED <<sender, receiver, busState, warnings>>
    BY DEF Transmit
  <1>. QED
    BY <1>5, <1>7, <1>8, <1>9 DEF IInv, IndexOK, TypeOK, sender, receiver

LEMMA BusStateType ==
    ASSUME IInv, NEW n \in Node, Warn(n) \/ Recover(n)
    PROVE  IInv'
  <1>1. busState' \in [Node -> {"Connected", "ErrorWarning"}]
    BY DEF IInv, TypeOK, Warn, Recover
  <1>2. warnings' \in 0 .. MaxWarnings
    BY DriverAssumption DEF IInv, TypeOK, Warn, Recover
  <1>3. UNCHANGED <<sender, receiver, tx, rx, losses>>
    BY DEF Warn, Recover
  <1>. QED
    BY <1>1, <1>2, <1>3 DEF IInv, IndexOK, TypeOK, sender, receiver

\* TypeOK, strengthened by the range of fragmentIndex, is inductive.
LEMMA TypeStep == IInv /\ [Next]_vars => IInv'
  <1>. SUFFICES ASSUME IInv, [Next]_vars PROVE IInv'
    OBVIOUS
  <1>1. CASE Next
    <2>1. PICK n \in Node :
             \/ SendDirectly(n) \/ SendLater(n) \/ Update(n) \/ DropPacket(n)
             \/ \E k \in DOMAIN tx[n] : Transmit(n, k)
             \/ Warn(n) \/ Recover(n)
      BY <1>1 DEF Next
    <2>2. CASE SendDirectly(n) \/ SendLater(n)
      BY <2>2, SendPacketType
    <2>3. CASE Update(n)
      BY <2>3, RetrieveType, SendWaitingType DEF Update
    <2>4. CASE DropPacket(n)
      BY <2>4, DropPacketType
    <2>5. CASE \E k \in DOMAIN tx[n] : Transmit(n, k)
      BY <2>5, TransmitType
    <2>6. CASE Warn(n) \/ Recover(n)
      BY <2>6, BusStateType
    <2>. QED
      BY <2>1, <2>2, <2>3, <2>4, <2>5, <2>6
  <1>2. CASE UNCHANGED vars
    BY <1>2 DEF IInv, IndexOK, TypeOK, vars, sender, receiver, bus
  <1>. QED
    BY <1>1, <1>2

\* The types of all variables, among them: no frame holds more than 8 bytes, and index
\* and counter have four bits each, for packets of every size that a SmartPointer can have
\* (sendPacket limits none).  fragmentIndex goes up to 42: from 16 on it does not fit in
\* its four bits of the frame and runs into those of the counter (CounterBits).
THEOREM TypeCorrect == Spec => []TypeOK
  <1>1. IInv => TypeOK
    BY DEF IInv
  <1>. QED
    BY InitType, TypeStep, <1>1, PTL DEF Spec

-----------------------------------------------------------------------------
(* The pieces of a packet and the frames that carry them                   *)

Pieces(p) == 0 .. NumberOfPieces(SizeOf(p)) - 1

\* The frame for piece i of p, as long as the counter counts all fragmented packets.
FrameOf(p, i) ==
    IF IsFragmented(p) THEN FragmentFrame(p, i, Counter(p)) ELSE ShortFrame(p)

\* What a receiver stores the fragments of p under.
KeyOf(p) == <<HeaderOf(p), Counter(p)>>

Genuine(f) ==
    /\ f.packet \in PacketId /\ f.piece \in Pieces(f.packet)
    /\ f = FrameOf(f.packet, f.piece)

LEMMA CounterType ==
    ASSUME NEW p \in PacketId
    PROVE  Counter(p) \in 0..15 /\ p[1] \in Node /\ p[2] \in Nat \ {0} /\ p = <<p[1], p[2]>>
  <1>1. PICK n \in Node : p \in {n} \X DOMAIN Script[n]
    BY DEF PacketId
  <1>2. p = <<p[1], p[2]>> /\ p[1] = n /\ p[2] \in DOMAIN Script[n]
    BY <1>1
  <1>3. Script[n] \in Seq([header : Header, size : PacketSize])
    BY ScriptAssumption
  <1>4. p[2] \in Nat \ {0}
    BY <1>2, <1>3
  <1> DEFINE S == {i \in 1 .. p[2] - 1 : IsFragmented(<<p[1], i>>)}
  <1>5. IsFiniteSet(1 .. p[2] - 1) /\ S \in SUBSET (1 .. p[2] - 1)
    BY <1>4, FS_Interval
  <1>6. Cardinality(S) \in Nat
    BY <1>5, FS_Subset, FS_CardinalityType
  <1>7. Counter(p) = Cardinality(S) % 16
    BY DEF Counter
  <1>. HIDE DEF S
  <1>8. Counter(p) \in 0..15
    BY <1>6, <1>7
  <1>. QED
    BY <1>2, <1>4, <1>8

LEMMA PieceRange ==
    ASSUME NEW p \in PacketId
    PROVE  /\ ~IsFragmented(p) => Pieces(p) = {0}
           /\ IsFragmented(p) => /\ SizeOf(p) > 8
                                 /\ \A i \in Nat : 6 * i < SizeOf(p) <=> i \in Pieces(p)
           /\ 0 \in Pieces(p) /\ Pieces(p) \subseteq Nat
  <1>1. SizeOf(p) \in Nat
    BY PacketTypes
  <1>. QED
    BY <1>1 DEF Pieces, NumberOfPieces, NumberOfFragments, IsFragmented

\* A frame carries its packet and its piece.
LEMMA FrameOfFields ==
    ASSUME NEW p \in PacketId, NEW i \in Pieces(p)
    PROVE  /\ FrameOf(p, i).packet = p /\ FrameOf(p, i).piece = i
           /\ Genuine(FrameOf(p, i))
  <1>1. FrameOf(p, i).packet = p
    BY DEF FrameOf, FragmentFrame, ShortFrame
  <1>2. FrameOf(p, i).piece = i
    BY PieceRange DEF FrameOf, FragmentFrame, ShortFrame
  <1>. QED
    BY <1>1, <1>2 DEF Genuine

\* What a receiver reads from a frame.
LEMMA GenuineFrame ==
    ASSUME NEW f, Genuine(f)
    PROVE  /\ f.packet \in PacketId /\ f.piece \in Pieces(f.packet)
           /\ IsFragment(f.identifier) = IsFragmented(f.packet)
           /\ ConvertToHeader(f.identifier) = HeaderOf(f.packet)
           /\ IsFragmented(f.packet) => f.size = MessageSize(f.packet)
           /\ IsFragmented(f.packet) /\ f.piece <= 15 =>
                  Key(f) = KeyOf(f.packet) /\ f.index = f.piece
           /\ ~IsFragmented(f.packet) => f.length = SizeOf(f.packet) /\ f.piece = 0
  <1>1. PICK p \in PacketId : p = f.packet
    BY DEF Genuine
  <1>2. PICK i \in Pieces(p) : i = f.piece
    BY <1>1 DEF Genuine
  <1>3. f = FrameOf(p, i) /\ HeaderOf(p) \in Header
    BY <1>1, <1>2, PacketTypes DEF Genuine
  <1>4. CASE IsFragmented(p)
    <2>1. f = FragmentFrame(p, i, Counter(p))
      BY <1>3, <1>4 DEF FrameOf
    <2>2. /\ f.identifier = ConvertToIdentifier(HeaderOf(p), TRUE)
          /\ f.counter = CounterBits(Counter(p), i) /\ f.size = MessageSize(p)
          /\ f.index = i % 16
      BY <2>1 DEF FragmentFrame
    <2>3. ConvertToHeader(f.identifier) = HeaderOf(p) /\ IsFragment(f.identifier) = TRUE
      BY <1>3, <2>2, IdentifierRoundTrip
    <2>4. i <= 15 => f.counter = Counter(p) /\ f.index = i
      <3>1. i \in Nat /\ Counter(p) \in 0..15
        BY PieceRange, CounterType
      <3>2. i <= 15 => i \in 0..42 /\ i % 16 = i
        BY <3>1
      <3>. QED
        BY <2>2, <3>1, <3>2, CounterBitsType
    <2>. QED
      BY <1>1, <1>2, <1>4, <2>2, <2>3, <2>4 DEF Key, KeyOf
  <1>5. CASE ~IsFragmented(p)
    <2>1. f = ShortFrame(p)
      BY <1>3, <1>5 DEF FrameOf
    <2>2. /\ f.identifier = ConvertToIdentifier(HeaderOf(p), FALSE)
          /\ f.length = SizeOf(p) /\ f.piece = 0
      BY <2>1 DEF ShortFrame
    <2>3. ConvertToHeader(f.identifier) = HeaderOf(p) /\ IsFragment(f.identifier) = FALSE
      BY <1>3, <2>2, IdentifierRoundTrip
    <2>4. IsFragmented(f.packet) = FALSE
      BY <1>1, <1>5
    <2>. QED
      BY <1>1, <1>2, <2>2, <2>3, <2>4
  <1>. QED
    BY <1>4, <1>5

\* A packet whose piece 0 and others all come from p is p (dropPacket).
LEMMA WholePacket ==
    ASSUME NEW p \in PacketId, NEW item, item.header = HeaderOf(p), item.size = SizeOf(p),
           \A i \in Pieces(p) : item.parts[i] = p
    PROVE  PacketIn(item) = p
  <1>1. item.parts[0] = p
    BY PieceRange
  <1>2. IsWhole(item, p)
    BY DEF IsWhole, Pieces
  <1>3. p # Nothing
    <2>1. p = <<p[1], p[2]>>
      BY CounterType
    <2>. QED
      BY <2>1 DEF Nothing
  <1>. QED
    BY <1>1, <1>2, <1>3 DEF PacketIn

\* The counter advances with the fragmented packets (connector_impl.hpp:179).
LEMMA CounterSkips ==
    ASSUME NEW n \in Node, NEW i \in Nat \ {0}, NEW j \in Nat, i < j,
           \A k \in i .. j - 1 : ~IsFragmented(<<n, k>>)
    PROVE  Counter(<<n, i>>) = Counter(<<n, j>>)
  <1>1. {k \in 1 .. i - 1 : IsFragmented(<<n, k>>)}
            = {k \in 1 .. j - 1 : IsFragmented(<<n, k>>)}
    OBVIOUS
  <1>. QED
    BY <1>1 DEF Counter

LEMMA CounterAdvances ==
    ASSUME NEW n \in Node, NEW i \in Nat \ {0}, NEW j \in Nat, i < j,
           IsFragmented(<<n, i>>), \A k \in i + 1 .. j - 1 : ~IsFragmented(<<n, k>>)
    PROVE  Counter(<<n, j>>) = (Counter(<<n, i>>) + 1) % 16
  <1> DEFINE S == {k \in 1 .. i - 1 : IsFragmented(<<n, k>>)}
             T == {k \in 1 .. j - 1 : IsFragmented(<<n, k>>)}
  <1>1. T = S \cup {i} /\ i \notin S
    OBVIOUS
  <1>2. IsFiniteSet(1 .. i - 1) /\ S \in SUBSET (1 .. i - 1)
    BY FS_Interval
  <1>3. IsFiniteSet(S)
    BY <1>2, FS_Subset
  <1>4. Cardinality(S) \in Nat
    BY <1>3, FS_CardinalityType
  <1>5. Cardinality(T) = Cardinality(S) + 1
    BY <1>1, <1>3, FS_AddElement
  <1>6. Counter(<<n, i>>) = Cardinality(S) % 16 /\ Counter(<<n, j>>) = Cardinality(T) % 16
    BY DEF Counter
  <1>. HIDE DEF S, T
  <1>7. \A c \in Nat : (c + 1) % 16 = ((c % 16) + 1) % 16
    OBVIOUS
  <1>. QED
    BY <1>4, <1>5, <1>6, <1>7

-----------------------------------------------------------------------------
(* The waiting packets of a board, while its bus state stays Connected     *)

InList(s, i) == \E k \in DOMAIN s : s[k].packet[2] = i

LEMMA NextCounterRange ==
    ASSUME NEW x \in Nat PROVE (x + 1) % 16 \in 0..15
  OBVIOUS

\* The list s of board n, which has sent c packets: in the order of sendPacket, and
\* only of the first packet some fragments were sent.
InOrderOfCalls(n, s, c) ==
    \A k \in DOMAIN s :
        /\ s[k].packet[1] = n /\ s[k].packet[2] <= c
        /\ s[k].fragmentIndex = 0 \/ (k = 1 /\ IsFragmented(s[k].packet))
        /\ \A j \in DOMAIN s : j < k => s[j].packet[2] < s[k].packet[2]

\* Fragmented packets leave the list at its front only.
NothingSkipped(n, s, c) ==
    \A k \in DOMAIN s, i \in 1 .. c :
        s[k].packet[2] < i /\ IsFragmented(<<n, i>>) => InList(s, i)

\* The counter is that of the next fragmented packet.
CountsFragmented(n, s, c, counter) ==
    \A i \in 1 .. c + 1 :
        /\ i = c + 1 \/ InList(s, i)
        /\ \A j \in 1 .. i - 1 : IsFragmented(<<n, j>>) => ~InList(s, j)
        => counter = Counter(<<n, i>>)

Queue(n, s, c, counter) ==
    /\ InOrderOfCalls(n, s, c)
    /\ NothingSkipped(n, s, c)
    /\ CountsFragmented(n, s, c, counter)

SendInv ==
    \A n \in Node :
        /\ busState[n] = "Connected"
        /\ Queue(n, sendList[n], sent[n], messageCounter[n])

LEMMA WaitTypes ==
    ASSUME NEW s \in Seq(Waits), NEW k \in DOMAIN s
    PROVE  /\ s[k] \in Waits /\ s[k].packet \in PacketId /\ s[k].fragmentIndex \in 0..42
           /\ s[k].packet[2] \in Nat \ {0}
           /\ s[k].packet = <<s[k].packet[1], s[k].packet[2]>>
  <1>1. s[k] \in Waits
    OBVIOUS
  <1>2. s[k].packet \in PacketId /\ s[k].fragmentIndex \in 0..42
    BY <1>1 DEF Waits
  <1>. QED
    BY <1>1, <1>2, CounterType

\* The fragments of the packet in front get its counter (connector_impl.hpp:155).
LEMMA CounterOfFront ==
    ASSUME NEW n \in Node, NEW s \in Seq(Waits), NEW c \in Nat, NEW counter,
           Queue(n, s, c, counter), s # <<>>
    PROVE  counter = Counter(s[1].packet)
  <1>1. 1 \in DOMAIN s
    OBVIOUS
  <1> DEFINE i == s[1].packet[2]
  <1>2. i \in Nat \ {0} /\ i <= c /\ s[1].packet = <<n, i>>
    BY <1>1, WaitTypes DEF Queue, InOrderOfCalls
  <1>3. i \in 1 .. c + 1 /\ InList(s, i)
    BY <1>1, <1>2 DEF InList
  <1>4. ASSUME NEW j \in 1 .. i - 1
        PROVE  ~InList(s, j)
    <2>1. SUFFICES ASSUME NEW k \in DOMAIN s, s[k].packet[2] = j PROVE FALSE
      BY DEF InList
    <2>2. k = 1 \/ 1 < k
      OBVIOUS
    <2>3. 1 < k => i < s[k].packet[2]
      BY <1>1 DEF Queue, InOrderOfCalls
    <2>. QED
      BY <1>2, <2>1, <2>2, <2>3
  <1>. HIDE DEF i
  <1>5. counter = Counter(<<n, i>>)
    BY <1>3, <1>4 DEF Queue, CountsFragmented
  <1>. QED
    BY <1>2, <1>5

\* sendPacket: the next packet joins the list or, if it is short, passes it.
LEMMA QueueDirect ==
    ASSUME NEW n \in Node, NEW s \in Seq(Waits), NEW c \in Nat, NEW counter,
           Queue(n, s, c, counter), ~IsFragmented(<<n, c + 1>>)
    PROVE  Queue(n, s, c + 1, counter)
  <1>1. ASSUME NEW k \in DOMAIN s
        PROVE  s[k].packet[2] \in Nat \ {0} /\ s[k].packet[2] <= c
    BY WaitTypes DEF Queue, InOrderOfCalls
  <1>2. InOrderOfCalls(n, s, c + 1)
    BY <1>1 DEF Queue, InOrderOfCalls
  <1>3. NothingSkipped(n, s, c + 1)
    BY DEF Queue, NothingSkipped
  <1>4. CountsFragmented(n, s, c + 1, counter)
    <2>1. SUFFICES ASSUME NEW i \in 1 .. c + 2, i = c + 2 \/ InList(s, i),
                          \A j \in 1 .. i - 1 : IsFragmented(<<n, j>>) => ~InList(s, j)
                   PROVE  counter = Counter(<<n, i>>)
      BY DEF CountsFragmented
    <2>2. CASE i <= c + 1
      BY <2>1, <2>2 DEF Queue, CountsFragmented
    <2>3. CASE i = c + 2
      <3>1. counter = Counter(<<n, c + 1>>)
        BY <2>1, <2>3 DEF Queue, CountsFragmented
      <3>2. \A k \in c + 1 .. c + 2 - 1 : ~IsFragmented(<<n, k>>)
        OBVIOUS
      <3>3. Counter(<<n, c + 1>>) = Counter(<<n, c + 2>>)
        BY <3>2, CounterSkips
      <3>. QED
        BY <2>3, <3>1, <3>3
    <2>. QED
      BY <2>2, <2>3
  <1>. QED
    BY <1>2, <1>3, <1>4 DEF Queue

LEMMA QueueAppend ==
    ASSUME NEW n \in Node, NEW s \in Seq(Waits), NEW c \in Nat, NEW counter,
           Queue(n, s, c, counter), NEW e \in Waits, e.packet = <<n, c + 1>>,
           e.fragmentIndex = 0
    PROVE  Queue(n, Append(s, e), c + 1, counter)
  <1> DEFINE t == Append(s, e)
  <1>1. /\ Len(t) = Len(s) + 1 /\ DOMAIN t = 1 .. Len(s) + 1 /\ t[Len(s) + 1] = e
        /\ DOMAIN s = 1 .. Len(s) /\ Len(s) \in Nat
        /\ \A k \in DOMAIN s : k \in DOMAIN t /\ t[k] = s[k]
    OBVIOUS
  <1>. HIDE DEF t
  <1>2. ASSUME NEW k \in DOMAIN s
        PROVE  s[k].packet[2] \in Nat \ {0} /\ s[k].packet[2] <= c /\ s[k].packet[1] = n
    BY WaitTypes DEF Queue, InOrderOfCalls
  <1>3. \A i \in Nat : InList(t, i) <=> InList(s, i) \/ i = c + 1
    <2>1. e.packet[2] = c + 1
      OBVIOUS
    <2>. QED
      BY <1>1, <2>1 DEF InList
  <1>4. InOrderOfCalls(n, t, c + 1)
    <2>1. SUFFICES ASSUME NEW k \in DOMAIN t
                   PROVE  /\ t[k].packet[1] = n /\ t[k].packet[2] <= c + 1
                          /\ t[k].fragmentIndex = 0 \/ (k = 1 /\ IsFragmented(t[k].packet))
                          /\ \A j \in DOMAIN t : j < k => t[j].packet[2] < t[k].packet[2]
      BY DEF InOrderOfCalls
    <2>2. CASE k = Len(s) + 1
      BY <1>1, <1>2, <2>2
    <2>3. CASE k # Len(s) + 1
      <3>1. k \in DOMAIN s /\ t[k] = s[k]
        BY <1>1, <2>1, <2>3
      <3>2. \A j \in DOMAIN t : j < k => j \in DOMAIN s /\ t[j] = s[j]
        BY <1>1, <3>1
      <3>3. /\ s[k].fragmentIndex = 0 \/ (k = 1 /\ IsFragmented(s[k].packet))
            /\ \A j \in DOMAIN s : j < k => s[j].packet[2] < s[k].packet[2]
        BY <3>1 DEF Queue, InOrderOfCalls
      <3>. QED
        BY <1>2, <3>1, <3>2, <3>3
    <2>. QED
      BY <2>2, <2>3
  <1>5. NothingSkipped(n, t, c + 1)
    <2>1. SUFFICES ASSUME NEW k \in DOMAIN t, NEW i \in 1 .. c + 1,
                          t[k].packet[2] < i, IsFragmented(<<n, i>>)
                   PROVE  InList(t, i)
      BY DEF NothingSkipped
    <2>2. CASE i = c + 1
      BY <1>3, <2>2
    <2>3. CASE i # c + 1
      <3>1. k # Len(s) + 1
        BY <1>1, <2>1, <2>3
      <3>2. k \in DOMAIN s /\ t[k] = s[k] /\ i \in 1 .. c
        BY <1>1, <2>1, <2>3, <3>1
      <3>. QED
        BY <1>3, <2>1, <3>2 DEF Queue, NothingSkipped
    <2>. QED
      BY <2>2, <2>3
  <1>6. CountsFragmented(n, t, c + 1, counter)
    <2>1. SUFFICES ASSUME NEW i \in 1 .. c + 2, i = c + 2 \/ InList(t, i),
                          \A j \in 1 .. i - 1 : IsFragmented(<<n, j>>) => ~InList(t, j)
                   PROVE  counter = Counter(<<n, i>>)
      BY DEF CountsFragmented
    <2>2. \A j \in 1 .. i - 1 : IsFragmented(<<n, j>>) => ~InList(s, j)
      BY <1>3, <2>1
    <2>3. CASE i <= c + 1
      BY <1>3, <2>1, <2>2, <2>3 DEF Queue, CountsFragmented
    <2>4. CASE i = c + 2
      <3>1. ~IsFragmented(<<n, c + 1>>)
        BY <1>3, <2>1, <2>4
      <3>2. counter = Counter(<<n, c + 1>>)
        BY <2>2, <2>4 DEF Queue, CountsFragmented
      <3>3. \A k \in c + 1 .. c + 2 - 1 : ~IsFragmented(<<n, k>>)
        BY <3>1
      <3>4. Counter(<<n, c + 1>>) = Counter(<<n, c + 2>>)
        BY <3>3, CounterSkips
      <3>. QED
        BY <2>4, <3>2, <3>4
    <2>. QED
      BY <2>3, <2>4
  <1>. QED
    BY <1>4, <1>5, <1>6 DEF Queue, t

\* sendWaitingMessages: the front leaves the list when it was sent; a fragmented packet
\* advances the counter.
LEMMA QueueTail ==
    ASSUME NEW n \in Node, NEW s \in Seq(Waits), NEW c \in Nat, NEW counter,
           Queue(n, s, c, counter), s # <<>>
    PROVE  Queue(n, Tail(s), c, IF IsFragmented(s[1].packet) THEN (counter + 1) % 16
                                ELSE counter)
  <1> DEFINE t == Tail(s)
             p == s[1].packet
             next == IF IsFragmented(p) THEN (counter + 1) % 16 ELSE counter
  <1>1. /\ DOMAIN t = 1 .. Len(s) - 1 /\ DOMAIN s = 1 .. Len(s) /\ Len(s) \in Nat \ {0}
        /\ \A k \in DOMAIN t : k + 1 \in DOMAIN s /\ t[k] = s[k + 1]
        /\ \A k \in DOMAIN s : k = 1 \/ (k - 1 \in DOMAIN t /\ t[k - 1] = s[k])
        /\ 1 \in DOMAIN s
    OBVIOUS
  <1>2. p[2] \in Nat \ {0} /\ p = <<n, p[2]>> /\ p[2] <= c
    BY <1>1, WaitTypes DEF Queue, InOrderOfCalls
  <1>3. ASSUME NEW k \in DOMAIN t
        PROVE  /\ t[k].packet[1] = n /\ t[k].packet[2] <= c /\ t[k].fragmentIndex = 0
               /\ p[2] < t[k].packet[2] /\ t[k].packet[2] \in Nat
    <2>1. k + 1 \in DOMAIN s /\ t[k] = s[k + 1] /\ k + 1 # 1 /\ 1 < k + 1
      BY <1>1
    <2>. HIDE DEF t
    <2>. QED
      BY <1>1, <2>1, WaitTypes DEF Queue, InOrderOfCalls
  <1>. HIDE DEF t, next
  <1>4. \A i \in Nat : InList(t, i) <=> InList(s, i) /\ i # p[2]
    <2>1. ASSUME NEW i \in Nat, InList(t, i)
          PROVE  InList(s, i) /\ i # p[2]
      <3>1. PICK k \in DOMAIN t : t[k].packet[2] = i
        BY <2>1 DEF InList
      <3>. QED
        BY <1>1, <1>2, <1>3, <3>1 DEF InList
    <2>2. ASSUME NEW i \in Nat, InList(s, i), i # p[2]
          PROVE  InList(t, i)
      <3>1. PICK k \in DOMAIN s : s[k].packet[2] = i
        BY <2>2 DEF InList
      <3>. QED
        BY <1>1, <2>2, <3>1 DEF InList
    <2>. QED
      BY <2>1, <2>2
  <1>5. InOrderOfCalls(n, t, c)
    <2>1. ASSUME NEW k \in DOMAIN t, NEW j \in DOMAIN t, j < k
          PROVE  t[j].packet[2] < t[k].packet[2]
      <3>1. /\ j + 1 \in DOMAIN s /\ k + 1 \in DOMAIN s /\ j + 1 < k + 1
            /\ t[j] = s[j + 1] /\ t[k] = s[k + 1]
        BY <1>1, <2>1
      <3>. QED
        BY <3>1 DEF Queue, InOrderOfCalls
    <2>. QED
      BY <1>3, <2>1 DEF InOrderOfCalls
  <1>6. NothingSkipped(n, t, c)
    <2>1. SUFFICES ASSUME NEW k \in DOMAIN t, NEW i \in 1 .. c,
                          t[k].packet[2] < i, IsFragmented(<<n, i>>)
                   PROVE  InList(t, i)
      BY DEF NothingSkipped
    <2>2. InList(s, i)
      BY <1>1, <2>1 DEF Queue, NothingSkipped
    <2>3. i # p[2]
      BY <1>2, <1>3, <2>1
    <2>. QED
      BY <1>4, <2>2, <2>3
  <1>7. CountsFragmented(n, t, c, next)
    <2>1. SUFFICES ASSUME NEW i \in 1 .. c + 1, i = c + 1 \/ InList(t, i),
                          \A j \in 1 .. i - 1 : IsFragmented(<<n, j>>) => ~InList(t, j)
                   PROVE  next = Counter(<<n, i>>)
      BY DEF CountsFragmented
    <2>2. p[2] < i
      <3>1. InList(t, i) => p[2] < i
        BY <1>3 DEF InList
      <3>. QED
        BY <1>2, <2>1, <3>1
    <2>3. \A j \in p[2] + 1 .. i - 1 : ~IsFragmented(<<n, j>>)
      <3>1. SUFFICES ASSUME NEW j \in p[2] + 1 .. i - 1, IsFragmented(<<n, j>>) PROVE FALSE
        OBVIOUS
      <3>2. j \in 1 .. c /\ p[2] < j /\ j \in 1 .. i - 1
        BY <1>2
      <3>3. InList(s, j)
        BY <1>1, <3>1, <3>2 DEF Queue, NothingSkipped
      <3>4. InList(t, j)
        BY <1>2, <1>4, <3>2, <3>3
      <3>. QED
        BY <2>1, <3>1, <3>2, <3>4
    <2>4. counter = Counter(p)
      BY CounterOfFront
    <2>. HIDE DEF p
    <2>5. PICK k \in Nat \ {0} : k = p[2]
      BY <1>2
    <2>6. /\ p = <<n, k>> /\ k < i /\ i \in Nat
          /\ \A j \in k + 1 .. i - 1 : ~IsFragmented(<<n, j>>)
      BY <1>2, <2>2, <2>3, <2>5
    <2>7. CASE IsFragmented(p)
      <3>1. Counter(<<n, i>>) = (Counter(<<n, k>>) + 1) % 16
        BY <2>6, <2>7, CounterAdvances
      <3>. QED
        BY <2>4, <2>6, <2>7, <3>1 DEF next
    <2>8. CASE ~IsFragmented(p)
      <3>1. \A j \in k .. i - 1 : ~IsFragmented(<<n, j>>)
        BY <2>6, <2>8
      <3>2. Counter(<<n, k>>) = Counter(<<n, i>>)
        BY <2>6, <3>1, CounterSkips
      <3>. QED
        BY <2>4, <2>6, <2>8, <3>2 DEF next
    <2>. QED
      BY <2>7, <2>8
  <1>. QED
    BY <1>5, <1>6, <1>7 DEF Queue, t, next

\* or waits for its next fragment.
LEMMA QueueNext ==
    ASSUME NEW n \in Node, NEW s \in Seq(Waits), NEW c \in Nat, NEW counter,
           Queue(n, s, c, counter), s # <<>>, NEW e \in Waits, e.packet = s[1].packet,
           IsFragmented(s[1].packet)
    PROVE  Queue(n, [s EXCEPT ![1] = e], c, counter)
  <1> DEFINE t == [s EXCEPT ![1] = e]
  <1>1. /\ DOMAIN t = DOMAIN s /\ 1 \in DOMAIN s
        /\ \A k \in DOMAIN s : t[k].packet = s[k].packet
        /\ \A k \in DOMAIN s : k # 1 => t[k] = s[k]
    OBVIOUS
  <1>. HIDE DEF t
  <1>2. \A i : InList(t, i) <=> InList(s, i)
    BY <1>1 DEF InList
  <1>3. InOrderOfCalls(n, t, c)
    BY <1>1 DEF Queue, InOrderOfCalls
  <1>4. NothingSkipped(n, t, c)
    BY <1>1, <1>2 DEF Queue, NothingSkipped
  <1>5. CountsFragmented(n, t, c, counter)
    BY <1>2 DEF Queue, CountsFragmented
  <1>. QED
    BY <1>3, <1>4, <1>5 DEF Queue, t

\* Piece i of p was given to the driver: p was given to sendPacket and does not wait, or
\* waits for a later fragment.
SentFrom(s, c, p, i) ==
    /\ p[2] <= c
    /\ \A k \in DOMAIN s : s[k].packet = p => i < s[k].fragmentIndex

IsSent(p, i) == SentFrom(sendList[p[1]], sent[p[1]], p, i)

KeepsSent == \A p \in PacketId : \A i \in Pieces(p) : IsSent(p, i) => IsSent(p, i)'

\* Board n gives a piece to the driver that it has not sent yet.
SendsPiece(n) ==
    \E p \in PacketId : \E i \in Pieces(p) :
        /\ p[1] = n /\ ~IsSent(p, i) /\ IsSent(p, i)'
        /\ tx' = [tx EXCEPT ![n] = Append(@, FrameOf(p, i))]

LEMMA SendInvInit == Init => SendInv
  <1>. SUFFICES ASSUME Init, NEW n \in Node
                PROVE  busState[n] = "Connected" /\ Queue(n, <<>>, 0, 0)
    BY DEF Init, SendInv
  <1>1. InOrderOfCalls(n, <<>>, 0) /\ NothingSkipped(n, <<>>, 0)
    BY DEF InOrderOfCalls, NothingSkipped
  <1>2. Counter(<<n, 1>>) = 0
    <2>1. {i \in 1 .. 1 - 1 : IsFragmented(<<n, i>>)} = {}
      OBVIOUS
    <2>2. Counter(<<n, 1>>) = Cardinality({}) % 16
      BY <2>1 DEF Counter
    <2>. QED
      BY <2>2, FS_EmptySet
  <1>3. CountsFragmented(n, <<>>, 0, 0)
    BY <1>2 DEF CountsFragmented, InList
  <1>. QED
    BY <1>1, <1>3 DEF Queue, Init

\* A board changes its list and its counters as Queue allows.
LEMMA BoardStep ==
    ASSUME IInv, SendInv, NEW n \in Node, NEW s, NEW c, NEW counter,
           Queue(n, s, c, counter), UNCHANGED busState,
           sendList' = [sendList EXCEPT ![n] = s], sent' = [sent EXCEPT ![n] = c],
           messageCounter' = [messageCounter EXCEPT ![n] = counter],
           \A p \in PacketId : \A i \in Pieces(p) :
               SentFrom(sendList[n], sent[n], p, i) => SentFrom(s, c, p, i)
    PROVE  /\ SendInv' /\ KeepsSent
           /\ \A p, i : p[1] = n => (IsSent(p, i)' <=> SentFrom(s, c, p, i))
  <1>1. /\ sendList \in [Node -> Seq(Waits)] /\ sent \in [Node -> Nat]
        /\ messageCounter \in [Node -> 0..15]
    BY DEF IInv, TypeOK, Waits
  <1>2. /\ sendList'[n] = s /\ sent'[n] = c /\ messageCounter'[n] = counter
        /\ \A m \in Node : m # n => /\ sendList'[m] = sendList[m] /\ sent'[m] = sent[m]
                                    /\ messageCounter'[m] = messageCounter[m]
    BY <1>1
  <1>3. SendInv'
    <2>1. SUFFICES ASSUME NEW m \in Node
                   PROVE  /\ busState'[m] = "Connected"
                          /\ Queue(m, sendList'[m], sent'[m], messageCounter'[m])
      BY DEF SendInv
    <2>2. busState'[m] = "Connected"
      BY DEF SendInv
    <2>3. Queue(m, sendList[m], sent[m], messageCounter[m])
      BY DEF SendInv
    <2>4. CASE m = n
      BY <1>2, <2>2, <2>4
    <2>5. CASE m # n
      BY <1>2, <2>2, <2>3, <2>5
    <2>. QED
      BY <2>4, <2>5
  <1>4. KeepsSent
    <2>1. SUFFICES ASSUME NEW p \in PacketId, NEW i \in Pieces(p), IsSent(p, i)
                   PROVE  SentFrom(sendList'[p[1]], sent'[p[1]], p, i)
      BY DEF KeepsSent, IsSent
    <2>2. p[1] \in Node /\ SentFrom(sendList[p[1]], sent[p[1]], p, i)
      BY <2>1, CounterType DEF IsSent
    <2>. QED
      BY <1>2, <2>2
  <1>5. \A p, i : p[1] = n => (IsSent(p, i)' <=> SentFrom(s, c, p, i))
    BY <1>2 DEF IsSent
  <1>. QED
    BY <1>3, <1>4, <1>5

LEMMA BoardTypes ==
    ASSUME IInv, SendInv, NEW n \in Node
    PROVE  /\ sendList \in [Node -> Seq(Waits)] /\ sendList[n] \in Seq(Waits)
           /\ sent \in [Node -> Nat] /\ sent[n] \in Nat
           /\ messageCounter \in [Node -> 0..15]
           /\ Queue(n, sendList[n], sent[n], messageCounter[n])
  BY DEF IInv, TypeOK, Waits, SendInv

LEMMA SendPacketBoard ==
    ASSUME IInv, SendInv, NEW n \in Node, SendDirectly(n) \/ SendLater(n)
    PROVE  /\ SendInv' /\ KeepsSent
           /\ SendsPiece(n) \/ UNCHANGED tx
           /\ UNCHANGED <<receiver, rx>>
  <1>. PICK c \in Nat : c = sent[n]
    BY BoardTypes
  <1> DEFINE s == sendList[n]  x == messageCounter[n]  p == <<n, c + 1>>
  <1>1. /\ s \in Seq(Waits) /\ c \in Nat /\ Queue(n, s, c, x)
        /\ sendList = [sendList EXCEPT ![n] = s]
        /\ messageCounter = [messageCounter EXCEPT ![n] = x]
    BY BoardTypes
  <1>2. /\ sent' = [sent EXCEPT ![n] = c + 1] /\ p \in PacketId /\ UNCHANGED busState
        /\ UNCHANGED messageCounter /\ NextPacket(n) = p
    <2>1. CallSendPacket(n) /\ UNCHANGED <<messageCounter, busState>>
      BY DEF SendDirectly, SendLater, bus
    <2>. QED
      BY <2>1, NextPacketType, BoardTypes DEF CallSendPacket, NextPacket
  <1>3. \A q \in PacketId : \A i \in Pieces(q) :
            SentFrom(s, c, q, i) => SentFrom(s, c + 1, q, i)
    BY <1>1, CounterType DEF SentFrom
  <1>4. ASSUME NEW k \in DOMAIN s PROVE s[k].packet # p
    BY <1>1 DEF Queue, InOrderOfCalls
  <1>5. CASE SendDirectly(n)
    <2>1. UNCHANGED sendList /\ ~IsFragmented(p)
          /\ tx' = [tx EXCEPT ![n] = Append(@, ShortFrame(p))]
      BY <1>2, <1>5 DEF SendDirectly
    <2>2. Queue(n, s, c + 1, x)
      BY <1>1, <2>1, QueueDirect
    <2>3. SentFrom(s, c + 1, p, 0) /\ ~SentFrom(s, c, p, 0) /\ p[1] = n
      BY <1>1, <1>4 DEF SentFrom
    <2>4. sendList' = [sendList EXCEPT ![n] = s]
          /\ messageCounter' = [messageCounter EXCEPT ![n] = x]
      BY <1>1, <1>2, <2>1
    <2>. HIDE DEF s, x
    <2>5. /\ SendInv' /\ KeepsSent
          /\ \A q, i : q[1] = n => (IsSent(q, i)' <=> SentFrom(s, c + 1, q, i))
      BY <1>2, <1>3, <2>2, <2>4, BoardStep DEF s
    <2>6. 0 \in Pieces(p) /\ FrameOf(p, 0) = ShortFrame(p)
      BY <1>2, <2>1, PieceRange DEF FrameOf
    <2>7. IsSent(p, 0)' /\ ~IsSent(p, 0)
      BY <2>3, <2>5 DEF IsSent, s
    <2>. HIDE DEF p
    <2>8. SendsPiece(n)
      BY <1>2, <2>1, <2>3, <2>6, <2>7 DEF SendsPiece
    <2>. QED
      BY <1>5, <2>5, <2>8 DEF SendDirectly
  <1>6. CASE SendLater(n)
    <2> DEFINE e == [packet |-> p, fragmentIndex |-> 0]
               t == Append(s, e)
    <2>1. sendList' = [sendList EXCEPT ![n] = t]
      BY <1>2, <1>6 DEF SendLater
    <2>2. e \in Waits /\ e.packet = p /\ e.fragmentIndex = 0
      BY <1>2 DEF Waits
    <2>3. messageCounter' = [messageCounter EXCEPT ![n] = x]
      BY <1>1, <1>2
    <2>. HIDE DEF e
    <2>4. Queue(n, t, c + 1, x)
      BY <1>1, <2>2, QueueAppend
    <2>5. ASSUME NEW q \in PacketId, NEW i \in Pieces(q), SentFrom(s, c, q, i)
          PROVE  SentFrom(t, c + 1, q, i)
      <3>1. q[2] <= c /\ q[2] \in Nat /\ q # p
        BY <1>1, <2>5, CounterType DEF SentFrom
      <3>2. ASSUME NEW k \in DOMAIN t, t[k].packet = q
            PROVE  k \in DOMAIN s /\ t[k] = s[k]
        BY <1>1, <2>2, <3>1, <3>2, SMTT(30)
      <3>. QED
        BY <1>1, <2>5, <3>1, <3>2 DEF SentFrom
    <2>. HIDE DEF t, x, s
    <2>6. SendInv' /\ KeepsSent
      BY <1>2, <2>1, <2>3, <2>4, <2>5, BoardStep DEF s
    <2>. QED
      BY <1>6, <2>6 DEF SendLater
  <1>. QED
    BY <1>5, <1>6

LEMMA SendWaitingBoard ==
    ASSUME SizesFit, IInv, SendInv, NEW n \in Node,
           DropWaiting(n) \/ SendShort(n) \/ SendFragment(n)
    PROVE  SendInv' /\ KeepsSent /\ SendsPiece(n) /\ UNCHANGED <<receiver, rx>>
  <1>. PICK s \in Seq(Waits), c \in Nat, x \in 0..15 :
           s = sendList[n] /\ c = sent[n] /\ x = messageCounter[n]
    BY BoardTypes
  <1>1. /\ Queue(n, s, c, x) /\ sent = [sent EXCEPT ![n] = c]
        /\ messageCounter = [messageCounter EXCEPT ![n] = x]
    BY BoardTypes
  <1>2. s # <<>> /\ ~DropWaiting(n) /\ UNCHANGED <<sent, receiver, rx, busState>>
    <2>1. busState[n] = "Connected"
      BY DEF SendInv
    <2>. QED
      BY <2>1 DEF DropWaiting, SendShort, SendFragment, Waiting, bus
  <1>3. PICK p \in PacketId, i \in 0..42 :
           /\ p = s[1].packet /\ i = s[1].fragmentIndex
           /\ p = Head(sendList[n]).packet /\ i = Head(sendList[n]).fragmentIndex
           /\ IndexInside(Head(sendList[n]))
    BY <1>2, HeadWaits
  <1>4. 1 \in DOMAIN s /\ p[1] = n /\ p[2] \in Nat /\ p[2] <= c
    BY <1>1, <1>2, <1>3, CounterType DEF Queue, InOrderOfCalls
  <1>5. ASSUME NEW k \in DOMAIN s, k # 1
        PROVE  s[k].packet # p
    <2>1. 1 < k
      BY <1>5
    <2>. QED
      BY <1>1, <1>3, <1>4, <2>1 DEF Queue, InOrderOfCalls
  <1>6. ~IsSent(p, i)
    <2>1. 1 \in DOMAIN s /\ s[1].packet = p /\ ~(i < s[1].fragmentIndex)
      BY <1>3, <1>4
    <2>2. ~SentFrom(s, c, p, i)
      BY <2>1 DEF SentFrom
    <2>. QED
      BY <1>4, <2>2 DEF IsSent
  <1>7. /\ \A k \in DOMAIN Tail(s) : k + 1 \in DOMAIN s /\ Tail(s)[k] = s[k + 1] /\ k + 1 # 1
        /\ Tail(s) \in Seq(Waits)
    BY <1>2
  <1>8. /\ \A q \in PacketId : \A j \in Pieces(q) :
               SentFrom(s, c, q, j) => SentFrom(Tail(s), c, q, j)
        /\ \A j : SentFrom(Tail(s), c, p, j)
    BY <1>4, <1>5, <1>7 DEF SentFrom
  <1>9. CASE SendShort(n)
    <2>0. ~IsFragmented(p)
      <3>1. MessageSize(p) <= 8
        BY <1>3, <1>9 DEF SendShort
      <3>. QED
        BY <3>1, PacketTypes DEF IsFragmented, SizesFit
    <2>1. /\ sendList' = [sendList EXCEPT ![n] = Tail(s)] /\ UNCHANGED messageCounter
          /\ tx' = [tx EXCEPT ![n] = Append(@, ShortFrame(p))] /\ ~IsFragmented(p)
      BY <1>3, <1>9, <2>0 DEF SendShort
    <2>2. Queue(n, Tail(s), c, x)
      BY <1>1, <1>2, <1>3, <2>1, QueueTail
    <2>3. /\ SendInv' /\ KeepsSent
          /\ \A q, j : q[1] = n => (IsSent(q, j)' <=> SentFrom(Tail(s), c, q, j))
      BY <1>1, <1>2, <1>8, <2>1, <2>2, BoardStep
    <2>4. i = 0 /\ i \in Pieces(p)
      BY <1>1, <1>3, <1>4, <2>1, PieceRange DEF Queue, InOrderOfCalls
    <2>5. FrameOf(p, i) = ShortFrame(p) /\ IsSent(p, i)'
      BY <1>4, <1>8, <2>1, <2>3 DEF FrameOf
    <2>. QED
      BY <1>2, <1>4, <1>6, <2>1, <2>3, <2>4, <2>5 DEF SendsPiece
  <1>10. CASE SendFragment(n)
    <2>0. MessageSize(p) = SizeOf(p)
      BY PacketTypes DEF SizesFit
    <2>1. /\ tx' = [tx EXCEPT ![n] = Append(@, FragmentFrame(p, i, x))] /\ IsFragmented(p)
      BY <1>3, <1>10, <2>0 DEF SendFragment, IsFragmented
    <2>2. 6 * i < SizeOf(p)
      <3>1. SizeOf(p) > 8 /\ (i = 0 \/ 6 * i < SizeOf(p))
        BY <1>3, <2>0, <2>1 DEF IsFragmented, IndexInside
      <3>2. PICK size \in Nat : size = SizeOf(p)
        BY PacketTypes
      <3>3. CASE i = 0
        BY <3>1, <3>2, <3>3
      <3>. QED
        BY <3>1, <3>3
    <2>3. i \in Nat /\ i \in Pieces(p)
      <3>1. i \in Nat
        OBVIOUS
      <3>. QED
        BY <2>1, <2>2, <3>1, PieceRange
    <2>4. FrameOf(p, i) = FragmentFrame(p, i, x)
      BY <1>1, <1>2, <1>3, <2>1, CounterOfFront DEF FrameOf
    <2>5. CASE IsLast(p, i)
      <3>1. /\ sendList' = [sendList EXCEPT ![n] = Tail(s)]
            /\ messageCounter' = [messageCounter EXCEPT ![n] = (x + 1) % 16]
        BY <1>3, <1>10, <2>5 DEF SendFragment
      <3>2. Queue(n, Tail(s), c, (x + 1) % 16)
        BY <1>1, <1>2, <1>3, <2>1, QueueTail
      <3>3. /\ SendInv' /\ KeepsSent
            /\ \A q, j : q[1] = n => (IsSent(q, j)' <=> SentFrom(Tail(s), c, q, j))
        <4>1. PICK y \in 0..15 : y = (x + 1) % 16
          <5>1. x \in Nat
            BY SMTT(30)
          <5>2. (x + 1) % 16 \in 0..15
            BY <5>1, NextCounterRange, Zenon
          <5>. QED
            BY <5>2, Zenon
        <4>2. Tail(s) \in Seq(Waits) /\ Queue(n, Tail(s), c, y)
              /\ sendList' = [sendList EXCEPT ![n] = Tail(s)]
              /\ sent' = [sent EXCEPT ![n] = c]
              /\ messageCounter' = [messageCounter EXCEPT ![n] = y]
          BY <1>1, <1>2, <1>7, <3>1, <3>2, <4>1
        <4>. QED
          BY <1>2, <1>8, <4>2, BoardStep
      <3>4. IsSent(p, i)'
        BY <1>4, <1>8, <3>3
      <3>. QED
        BY <1>2, <1>4, <1>6, <2>1, <2>3, <2>4, <3>3, <3>4 DEF SendsPiece
    <2>6. CASE ~IsLast(p, i)
      <3> DEFINE e == [packet |-> p, fragmentIndex |-> i + 1]
                 t == [s EXCEPT ![1] = e]
      <3>1. /\ sendList' = [sendList EXCEPT ![n][1].fragmentIndex = i + 1]
            /\ UNCHANGED messageCounter
        BY <1>3, <1>10, <2>6 DEF SendFragment
      <3>2. e \in Waits /\ e.packet = s[1].packet
        <4>1. i + 1 \in 0..42
          BY <2>0, <2>2, <2>3, <2>6, FragmentFrameType
        <4>. QED
          BY <1>3, <4>1 DEF Waits
      <3>3. [s[1] EXCEPT !.fragmentIndex = i + 1] = e
        <4>1. s[1] \in Waits
          BY <1>4, WaitTypes
        <4>. QED
          BY <1>3, <4>1 DEF Waits
      <3>4. sendList' = [sendList EXCEPT ![n] = t]
        BY <3>1, <3>3
      <3>5. /\ DOMAIN t = DOMAIN s /\ t[1].packet = p /\ t[1].fragmentIndex = i + 1
            /\ \A k \in DOMAIN s : k # 1 => t[k] = s[k]
        BY <1>4
      <3>. HIDE DEF e
      <3>6. Queue(n, t, c, x)
        BY <1>1, <1>2, <1>3, <2>1, <3>2, QueueNext
      <3>. HIDE DEF t
      <3>7. ASSUME NEW q \in PacketId, NEW j \in Pieces(q), SentFrom(s, c, q, j)
            PROVE  SentFrom(t, c, q, j)
        <4>1. j \in Nat
          BY PieceRange
        <4>2. ASSUME NEW k \in DOMAIN t, t[k].packet = q
              PROVE  j < t[k].fragmentIndex
          <5>1. CASE k = 1
            <6>1. j < i
              BY <1>3, <1>4, <3>5, <3>7, <4>2, <5>1 DEF SentFrom
            <6>. QED
              BY <3>5, <4>1, <5>1, <6>1
          <5>2. CASE k # 1
            BY <3>5, <3>7, <4>2, <5>2 DEF SentFrom
          <5>. QED
            BY <5>1, <5>2
        <4>. QED
          BY <3>7, <4>2 DEF SentFrom
      <3>8. SentFrom(t, c, p, i)
        BY <1>4, <1>5, <3>5 DEF SentFrom
      <3>9. /\ SendInv' /\ KeepsSent
            /\ \A q, j : q[1] = n => (IsSent(q, j)' <=> SentFrom(t, c, q, j))
        BY <1>1, <1>2, <3>1, <3>4, <3>6, <3>7, BoardStep
      <3>10. IsSent(p, i)'
        BY <1>4, <3>8, <3>9
      <3>. QED
        BY <1>2, <1>4, <1>6, <2>1, <2>3, <2>4, <3>9, <3>10 DEF SendsPiece
    <2>. QED
      BY <2>5, <2>6
  <1>. QED
    BY <1>2, <1>9, <1>10

-----------------------------------------------------------------------------
(* What was made available on a board                                      *)

DeliveredFrom(t, r) == t \o [i \in DOMAIN r |-> PacketIn(r[i])]

LEMMA PacketsIn ==
    ASSUME NEW r \in Seq(Item)
    PROVE  /\ [i \in DOMAIN r |-> PacketIn(r[i])] \in Seq(PacketId \cup {Nothing})
           /\ Len([i \in DOMAIN r |-> PacketIn(r[i])]) = Len(r)
  <1> DEFINE q == [i \in DOMAIN r |-> PacketIn(r[i])]
  <1>1. \A item \in Item : PacketIn(item) \in PacketId \cup {Nothing}
    BY DEF PacketIn, Item, Parts
  <1>2. Len(r) \in Nat /\ DOMAIN r = 1 .. Len(r) /\ \A i \in DOMAIN r : r[i] \in Item
    OBVIOUS
  <1>3. q \in [1 .. Len(r) -> PacketId \cup {Nothing}]
    BY <1>1, <1>2
  <1>4. q \in Seq(PacketId \cup {Nothing})
    BY <1>2, <1>3, SeqDef
  <1>5. DOMAIN q = 1 .. Len(r)
    BY <1>3
  <1>. HIDE DEF q
  <1>6. Len(q) = Len(r)
    BY <1>2, <1>4, <1>5
  <1>. QED
    BY <1>4, <1>6 DEF q

LEMMA DeliveredAppend ==
    ASSUME NEW t \in Seq(PacketId \cup {Nothing}), NEW r \in Seq(Item), NEW item \in Item
    PROVE  DeliveredFrom(t, Append(r, item)) = Append(DeliveredFrom(t, r), PacketIn(item))
  <1> DEFINE T == PacketId \cup {Nothing}
             q == [i \in DOMAIN r |-> PacketIn(r[i])]
             r2 == Append(r, item)
             q2 == [i \in DOMAIN r2 |-> PacketIn(r2[i])]
             x == PacketIn(item)
  <1>1. q \in Seq(T) /\ Len(q) = Len(r)
    BY PacketsIn
  <1>2. r2 \in Seq(Item) /\ Len(r2) = Len(r) + 1 /\ Len(r) \in Nat
        /\ r2[Len(r) + 1] = item /\ \A i \in 1 .. Len(r) : r2[i] = r[i]
    OBVIOUS
  <1>3. q2 \in Seq(T) /\ Len(q2) = Len(r) + 1
    BY <1>2, PacketsIn
  <1>4. \A i \in 1 .. Len(r) : q[i] = PacketIn(r[i])
    OBVIOUS
  <1>5. \A i \in 1 .. Len(r) + 1 : q2[i] = PacketIn(r2[i])
    BY <1>2
  <1>6. x \in T
    <2>1. q2[Len(r) + 1] = x
      BY <1>2, <1>5
    <2>. HIDE DEF q2, T, x
    <2>. QED
      BY <1>2, <1>3, <2>1
  <1>7. DeliveredFrom(t, r) = t \o q /\ DeliveredFrom(t, r2) = t \o q2 /\ t \in Seq(T)
    BY DEF DeliveredFrom
  <1>8. \A i \in 1 .. Len(r) : q2[i] = q[i]
    BY <1>2, <1>4, <1>5
  <1>9. q2[Len(r) + 1] = x
    BY <1>2, <1>5
  <1>. HIDE DEF q, q2, T, x, r2
  <1>10. q2 = Append(q, x)
    <2>1. Append(q, x) \in Seq(T) /\ Len(Append(q, x)) = Len(r) + 1
          /\ Append(q, x)[Len(r) + 1] = x /\ \A i \in 1 .. Len(r) : Append(q, x)[i] = q[i]
      BY <1>1, <1>2, <1>6
    <2>2. \A i \in 1 .. Len(q2) : q2[i] = Append(q, x)[i]
      BY <1>2, <1>3, <1>8, <1>9, <2>1
    <2>. QED
      BY <1>3, <2>1, <2>2, SeqEqual
  <1>11. t \o Append(q, x) = Append(t \o q, x)
    BY <1>1, <1>6, <1>7
  <1>. QED
    BY <1>7, <1>10, <1>11 DEF r2, x

LEMMA DeliveredDrop ==
    ASSUME NEW t \in Seq(PacketId \cup {Nothing}), NEW r \in Seq(Item), r # <<>>
    PROVE  DeliveredFrom(Append(t, PacketIn(Head(r))), Tail(r)) = DeliveredFrom(t, r)
  <1> DEFINE T == PacketId \cup {Nothing}
             q == [i \in DOMAIN r |-> PacketIn(r[i])]
             r2 == Tail(r)
             q2 == [i \in DOMAIN r2 |-> PacketIn(r2[i])]
             x == PacketIn(Head(r))
  <1>1. q \in Seq(T) /\ Len(q) = Len(r)
    BY PacketsIn
  <1>2. r2 \in Seq(Item) /\ Len(r2) = Len(r) - 1 /\ Len(r) \in Nat \ {0} /\ Head(r) = r[1]
        /\ \A i \in 1 .. Len(r) - 1 : r2[i] = r[i + 1]
    OBVIOUS
  <1>3. q2 \in Seq(T) /\ Len(q2) = Len(r) - 1
    BY <1>2, PacketsIn
  <1>4. \A i \in 1 .. Len(r) : q[i] = PacketIn(r[i])
    OBVIOUS
  <1>5. \A i \in 1 .. Len(r) - 1 : q2[i] = PacketIn(r2[i])
    BY <1>2
  <1>6. q[1] = x /\ \A i \in 1 .. Len(r) - 1 : q2[i] = q[i + 1]
    BY <1>2, <1>4, <1>5
  <1>7. /\ DeliveredFrom(t, r) = t \o q /\ DeliveredFrom(Append(t, x), r2) = Append(t, x) \o q2
        /\ t \in Seq(T)
    BY DEF DeliveredFrom
  <1>. HIDE DEF q, q2, T, x, r2
  <1>8. x \in T
    BY <1>1, <1>2, <1>6
  <1> DEFINE u == Append(t, x)
  <1>9. u \in Seq(T) /\ Len(u) = Len(t) + 1 /\ Len(t) \in Nat
        /\ u[Len(t) + 1] = x /\ \A i \in 1 .. Len(t) : u[i] = t[i]
    BY <1>7, <1>8
  <1>. HIDE DEF u
  <1>10. \A v, w \in Seq(T) : /\ v \o w \in Seq(T) /\ Len(v \o w) = Len(v) + Len(w)
                              /\ \A i \in 1 .. Len(v) + Len(w) :
                                    (v \o w)[i] = IF i <= Len(v) THEN v[i] ELSE w[i - Len(v)]
    BY ConcatProperties
  <1> DEFINE a == u \o q2  b == t \o q
  <1>11. a \in Seq(T) /\ Len(a) = Len(t) + Len(r)
         /\ \A i \in 1 .. Len(t) + Len(r) :
                a[i] = IF i <= Len(t) + 1 THEN u[i] ELSE q2[i - (Len(t) + 1)]
    <2>1. a \in Seq(T) /\ Len(a) = Len(u) + Len(q2)
          /\ \A i \in 1 .. Len(u) + Len(q2) :
                 a[i] = IF i <= Len(u) THEN u[i] ELSE q2[i - Len(u)]
      BY <1>3, <1>9, <1>10
    <2>2. Len(u) + Len(q2) = Len(t) + Len(r) /\ Len(u) = Len(t) + 1
      BY <1>2, <1>3, <1>9
    <2>. HIDE DEF a
    <2>. QED
      BY <2>1, <2>2
  <1>12. b \in Seq(T) /\ Len(b) = Len(t) + Len(r)
         /\ \A i \in 1 .. Len(t) + Len(r) : b[i] = IF i <= Len(t) THEN t[i] ELSE q[i - Len(t)]
    BY <1>1, <1>7, <1>10
  <1>. HIDE DEF a, b
  <1>13. ASSUME NEW i \in 1 .. Len(a)
         PROVE  a[i] = b[i]
    <2>0. i \in 1 .. Len(t) + Len(r)
      BY <1>11
    <2>1. CASE i <= Len(t)
      BY <1>9, <1>11, <1>12, <2>0, <2>1
    <2>2. CASE i = Len(t) + 1
      BY <1>6, <1>9, <1>11, <1>12, <2>0, <2>2
    <2>3. CASE i > Len(t) + 1
      <3>1. i - (Len(t) + 1) \in 1 .. Len(r) - 1
        BY <1>2, <1>9, <2>0, <2>3
      <3>2. q2[i - (Len(t) + 1)] = q[i - Len(t)]
        BY <1>6, <1>9, <3>1
      <3>. QED
        BY <1>9, <1>11, <1>12, <2>0, <2>3, <3>2
    <2>. QED
      BY <1>9, <2>0, <2>1, <2>2, <2>3
  <1>14. a = b
    BY <1>11, <1>12, <1>13, SeqEqual
  <1>. QED
    BY <1>7, <1>14 DEF a, b, u, r2, x

\* dropPacket hands over what was available, in its order.
LEMMA DeliveredSteps ==
    ASSUME TypeOK, NEW n \in Node
    PROVE  /\ Delivered(n) = DeliveredFrom(taken[n], receivedMessages[n])
           /\ Delivered(n) \in Seq(PacketId \cup {Nothing})
           /\ \A item \in Item :
                  (/\ receivedMessages' = [receivedMessages EXCEPT ![n] = Append(@, item)]
                   /\ UNCHANGED taken)
                  => /\ Delivered(n)' = Append(Delivered(n), PacketIn(item))
                     /\ \A m \in Node \ {n} : Delivered(m)' = Delivered(m)
           /\ DropPacket(n) => \A m \in Node : Delivered(m)' = Delivered(m)
  <1>1. /\ receivedMessages \in [Node -> Seq(Item)] /\ receivedMessages[n] \in Seq(Item)
        /\ taken \in [Node -> Seq(PacketId \cup {Nothing})]
        /\ taken[n] \in Seq(PacketId \cup {Nothing})
    BY DEF TypeOK
  <1>2. \A m : /\ Delivered(m) = DeliveredFrom(taken[m], receivedMessages[m])
               /\ Delivered(m)' = DeliveredFrom(taken'[m], receivedMessages'[m])
    BY DEF Delivered, DeliveredFrom
  <1>3. Delivered(n) \in Seq(PacketId \cup {Nothing})
    <2> DEFINE q == [i \in DOMAIN receivedMessages[n] |-> PacketIn(receivedMessages[n][i])]
    <2>1. q \in Seq(PacketId \cup {Nothing})
      BY <1>1, PacketsIn
    <2>2. Delivered(n) = taken[n] \o q
      BY <1>2 DEF DeliveredFrom
    <2>. HIDE DEF q
    <2>. QED
      BY <1>1, <2>1, <2>2
  <1>4. ASSUME NEW item \in Item, UNCHANGED taken,
               receivedMessages' = [receivedMessages EXCEPT ![n] = Append(@, item)]
        PROVE  /\ Delivered(n)' = Append(Delivered(n), PacketIn(item))
               /\ \A m \in Node \ {n} : Delivered(m)' = Delivered(m)
    <2>1. /\ receivedMessages'[n] = Append(receivedMessages[n], item)
          /\ \A m \in Node \ {n} : receivedMessages'[m] = receivedMessages[m]
      BY <1>1, <1>4
    <2>2. Delivered(n)' = Append(Delivered(n), PacketIn(item))
      BY <1>1, <1>2, <1>4, <2>1, DeliveredAppend
    <2>. QED
      BY <1>2, <1>4, <2>1, <2>2
  <1>5. ASSUME DropPacket(n)
        PROVE  \A m \in Node : Delivered(m)' = Delivered(m)
    <2>1. /\ receivedMessages[n] # <<>>
          /\ receivedMessages'[n] = Tail(receivedMessages[n])
          /\ taken'[n] = Append(taken[n], PacketIn(Head(receivedMessages[n])))
          /\ \A m \in Node \ {n} : receivedMessages'[m] = receivedMessages[m]
                                   /\ taken'[m] = taken[m]
      BY <1>1, <1>5 DEF DropPacket
    <2>2. Delivered(n)' = Delivered(n)
      BY <1>1, <1>2, <2>1, DeliveredDrop
    <2>. QED
      BY <1>2, <2>1, <2>2
  <1>. QED
    BY <1>2, <1>3, <1>4, <1>5

-----------------------------------------------------------------------------
(* Every piece is in one place                                             *)

At(s, p, i) == \E k \in DOMAIN s : s[k].packet = p /\ s[k].piece = i

NoCopies(s) ==
    \A j, k \in DOMAIN s :
        s[j].packet = s[k].packet /\ s[j].piece = s[k].piece => j = k

\* The driver of n transmits frames of its board and receives frames of the others.
TxFrames(n, s) ==
    NoCopies(s) /\ \A k \in DOMAIN s : Genuine(s[k]) /\ s[k].packet[1] = n

RxFrames(n, s) ==
    NoCopies(s) /\ \A k \in DOMAIN s : Genuine(s[k]) /\ s[k].packet[1] # n

FramesGenuine == \A n \in Node : TxFrames(n, tx[n]) /\ RxFrames(n, rx[n])

\* The fragments in an entry are pieces of p.
Own(entry, p) ==
    /\ entry.size = SizeOf(p) /\ entry.receivedFragments \subseteq Pieces(p)
    /\ \A i \in entry.receivedFragments : entry.parts[i] = p

EntriesOwn ==
    /\ DOMAIN pendingMessages = Node
    /\ \A m \in Node : \A key \in DOMAIN pendingMessages[m] :
           \E p \in PacketId :
               /\ IsFragmented(p) /\ key = KeyOf(p) /\ p[1] # m
               /\ Own(pendingMessages[m][key], p)

DeliveredOnce ==
    \A m \in Node :
        /\ \A k \in DOMAIN Delivered(m) :
               Delivered(m)[k] \in PacketId /\ Delivered(m)[k][1] # m
        /\ \A j, k \in DOMAIN Delivered(m) : Delivered(m)[j] = Delivered(m)[k] => j = k

IsDelivered(m, p) == \E k \in DOMAIN Delivered(m) : Delivered(m)[k] = p

IsStored(m, p, i) ==
    /\ IsFragmented(p) /\ KeyOf(p) \in DOMAIN pendingMessages[m]
    /\ i \in pendingMessages[m][KeyOf(p)].receivedFragments

Got(m, p, i) == IsDelivered(m, p) \/ IsStored(m, p, i)

\* A piece of p is still to be sent, or to be transmitted, or on each other board is to
\* be retrieved, was retrieved or is lost.
OnePlace ==
    \A p \in PacketId : \A i \in Pieces(p) :
        /\ At(tx[p[1]], p, i) => IsSent(p, i)
        /\ \A m \in Node :
               /\ At(rx[m], p, i) \/ Got(m, p, i) => IsSent(p, i)
               /\ At(tx[p[1]], p, i) => ~At(rx[m], p, i) /\ ~Got(m, p, i)
               /\ At(rx[m], p, i) => ~Got(m, p, i)

FlightInv == FramesGenuine /\ EntriesOwn /\ DeliveredOnce /\ OnePlace

LEMMA AppendFrame ==
    ASSUME NEW s \in Seq(Frame), NEW f \in Frame, NoCopies(s), ~At(s, f.packet, f.piece)
    PROVE  /\ NoCopies(Append(s, f))
           /\ \A p, i : At(Append(s, f), p, i) <=> At(s, p, i) \/ (f.packet = p /\ f.piece = i)
           /\ \A k \in DOMAIN Append(s, f) :
                  Append(s, f)[k] = f \/ \E j \in DOMAIN s : Append(s, f)[k] = s[j]
  <1> DEFINE t == Append(s, f)
  <1>1. /\ DOMAIN t = 1 .. Len(s) + 1 /\ DOMAIN s = 1 .. Len(s) /\ Len(s) \in Nat
        /\ t[Len(s) + 1] = f /\ \A k \in DOMAIN s : k \in DOMAIN t /\ t[k] = s[k]
    OBVIOUS
  <1>. HIDE DEF t
  <1>2. \A k \in DOMAIN t : k = Len(s) + 1 \/ k \in DOMAIN s
    BY <1>1
  <1>3. NoCopies(t)
    BY <1>1, <1>2 DEF NoCopies, At
  <1>4. \A p, i : At(t, p, i) <=> At(s, p, i) \/ (f.packet = p /\ f.piece = i)
    BY <1>1, <1>2 DEF At
  <1>. QED
    BY <1>1, <1>2, <1>3, <1>4 DEF t

LEMMA TailFrames ==
    ASSUME NEW s \in Seq(Frame), s # <<>>, NoCopies(s)
    PROVE  /\ NoCopies(Tail(s))
           /\ \A p, i : At(Tail(s), p, i) =>
                  At(s, p, i) /\ ~(Head(s).packet = p /\ Head(s).piece = i)
           /\ \A k \in DOMAIN Tail(s) : k + 1 \in DOMAIN s /\ Tail(s)[k] = s[k + 1]
           /\ 1 \in DOMAIN s /\ Head(s) = s[1]
  <1> DEFINE t == Tail(s)
  <1>1. /\ 1 \in DOMAIN s /\ Head(s) = s[1]
        /\ \A k \in DOMAIN t : k + 1 \in DOMAIN s /\ t[k] = s[k + 1] /\ k \in Nat /\ k + 1 # 1
    OBVIOUS
  <1>. HIDE DEF t
  <1>2. NoCopies(t)
    <2>1. SUFFICES ASSUME NEW j \in DOMAIN t, NEW k \in DOMAIN t,
                          t[j].packet = t[k].packet, t[j].piece = t[k].piece
                   PROVE  j = k
      BY DEF NoCopies
    <2>2. j + 1 = k + 1
      BY <1>1, <2>1 DEF NoCopies
    <2>. QED
      BY <1>1, <2>2
  <1>3. \A p, i : At(t, p, i) => At(s, p, i) /\ ~(s[1].packet = p /\ s[1].piece = i)
    <2>1. SUFFICES ASSUME NEW k \in DOMAIN t
                   PROVE  /\ At(s, t[k].packet, t[k].piece)
                          /\ ~(s[1].packet = t[k].packet /\ s[1].piece = t[k].piece)
      BY DEF At
    <2>. QED
      BY <1>1 DEF At, NoCopies
  <1>. QED
    BY <1>1, <1>2, <1>3 DEF t

LEMMA RemoveFrames ==
    ASSUME NEW s \in Seq(Frame), NEW k \in DOMAIN s, NoCopies(s)
    PROVE  /\ NoCopies(RemoveAt(s, k))
           /\ \A p, i : At(RemoveAt(s, k), p, i) =>
                  At(s, p, i) /\ ~(s[k].packet = p /\ s[k].piece = i)
           /\ \A j \in DOMAIN RemoveAt(s, k) :
                  RemoveAt(s, k)[j] = s[IF j < k THEN j ELSE j + 1]
                  /\ (IF j < k THEN j ELSE j + 1) \in DOMAIN s
  <1> DEFINE t == RemoveAt(s, k)
             a == SubSeq(s, 1, k - 1)  b == SubSeq(s, k + 1, Len(s))
  <1>1. /\ a \in Seq(Frame) /\ Len(a) = k - 1 /\ \A j \in 1 .. k - 1 : a[j] = s[j]
        /\ b \in Seq(Frame) /\ Len(b) = Len(s) - k
        /\ \A j \in 1 .. Len(s) - k : b[j] = s[j + k]
        /\ Len(s) \in Nat /\ DOMAIN s = 1 .. Len(s) /\ k \in 1 .. Len(s)
    OBVIOUS
  <1>. HIDE DEF a, b
  <1>2. t = a \o b
    BY DEF RemoveAt, a, b
  <1>. HIDE DEF t
  <1>3. /\ DOMAIN t = 1 .. Len(s) - 1
        /\ \A j \in 1 .. Len(s) - 1 : t[j] = IF j <= k - 1 THEN a[j] ELSE b[j - (k - 1)]
    <2>1. /\ t \in Seq(Frame) /\ Len(t) = Len(a) + Len(b)
          /\ \A j \in 1 .. Len(a) + Len(b) :
                 t[j] = IF j <= Len(a) THEN a[j] ELSE b[j - Len(a)]
      BY <1>1, <1>2, ConcatProperties
    <2>2. Len(a) + Len(b) = Len(s) - 1 /\ Len(a) = k - 1
      BY <1>1
    <2>3. DOMAIN t = 1 .. Len(t)
      BY <2>1
    <2>. QED
      BY <2>1, <2>2, <2>3
  <1> DEFINE at(j) == IF j < k THEN j ELSE j + 1
  <1>4. \A j \in DOMAIN t : t[j] = s[at(j)] /\ at(j) \in DOMAIN s /\ at(j) # k
    <2>1. SUFFICES ASSUME NEW j \in 1 .. Len(s) - 1
                   PROVE  t[j] = s[at(j)] /\ at(j) \in DOMAIN s /\ at(j) # k
      BY <1>3
    <2>2. CASE j < k
      <3>1. j <= k - 1 /\ j \in 1 .. k - 1 /\ j \in 1 .. Len(s)
        BY <1>1, <2>2
      <3>2. t[j] = a[j]
        BY <1>3, <3>1
      <3>. QED
        BY <1>1, <2>2, <3>1, <3>2
    <2>3. CASE ~(j < k)
      <3>0. ~(j <= k - 1) /\ j - (k - 1) \in 1 .. Len(s) - k
        BY <1>1, <2>3
      <3>1. t[j] = b[j - (k - 1)]
        BY <1>3, <3>0
      <3>2. j - (k - 1) + k = j + 1
        BY <1>1
      <3>3. t[j] = s[j + 1]
        BY <1>1, <3>0, <3>1, <3>2
      <3>. QED
        BY <1>1, <2>3, <3>3
    <2>. QED
      BY <2>2, <2>3
  <1>5. \A i, j \in DOMAIN t : at(i) = at(j) => i = j
    BY <1>1, <1>3
  <1>. HIDE DEF at
  <1>6. NoCopies(t)
    BY <1>4, <1>5 DEF NoCopies
  <1>7. \A p, i : At(t, p, i) => At(s, p, i) /\ ~(s[k].packet = p /\ s[k].piece = i)
    <2>1. SUFFICES ASSUME NEW j \in DOMAIN t
                   PROVE  /\ At(s, t[j].packet, t[j].piece)
                          /\ ~(s[k].packet = t[j].packet /\ s[k].piece = t[j].piece)
      BY DEF At
    <2>. QED
      BY <1>4 DEF At, NoCopies
  <1>. QED
    BY <1>4, <1>6, <1>7 DEF t, at

LEMMA FrameOfType ==
    ASSUME SizesFit, NEW p \in PacketId, NEW i \in Pieces(p)
    PROVE  FrameOf(p, i) \in Frame
  <1>1. i \in Nat /\ Counter(p) \in 0..15
    BY PieceRange, CounterType
  <1>2. CASE IsFragmented(p)
    <2>1. 6 * i < MessageSize(p)
      BY <1>1, <1>2, PieceRange, PacketTypes DEF SizesFit
    <2>. QED
      BY <1>1, <1>2, <2>1, FragmentFrameType DEF FrameOf
  <1>3. CASE ~IsFragmented(p)
    BY <1>3, ShortFrameType DEF FrameOf
  <1>. QED
    BY <1>2, <1>3

LEMMA FlightTypes ==
    ASSUME IInv, NEW n \in Node
    PROVE  /\ tx \in [Node -> Seq(Frame)] /\ tx[n] \in Seq(Frame)
           /\ rx \in [Node -> Seq(Frame)] /\ rx[n] \in Seq(Frame)
  BY DEF IInv, TypeOK

LEMMA FlightInvInit == Init => FlightInv
  <1>. SUFFICES ASSUME Init PROVE FlightInv
    OBVIOUS
  <1>1. \A n \in Node : tx[n] = <<>> /\ rx[n] = <<>> /\ DOMAIN pendingMessages[n] = {}
    BY DEF Init
  <1>2. \A n \in Node : Delivered(n) = <<>>
    <2>1. SUFFICES ASSUME NEW n \in Node PROVE Delivered(n) = <<>>
      OBVIOUS
    <2>2. TypeOK /\ taken[n] = <<>> /\ receivedMessages[n] = <<>>
      BY InitType DEF IInv, Init
    <2>3. <<>> \in Seq(Item) /\ DOMAIN <<>> = {}
      OBVIOUS
    <2> DEFINE q == [i \in DOMAIN receivedMessages[n] |-> PacketIn(receivedMessages[n][i])]
    <2>4. q \in Seq(PacketId \cup {Nothing}) /\ Len(q) = 0
      BY <2>2, <2>3, PacketsIn
    <2>5. Delivered(n) = <<>> \o q
      BY <2>2 DEF Delivered
    <2>. HIDE DEF q
    <2>6. q = <<>>
      BY <2>4
    <2>. QED
      BY <2>5, <2>6
  <1>3. \A n \in Node : TxFrames(n, <<>>) /\ RxFrames(n, <<>>)
    BY DEF TxFrames, RxFrames, NoCopies
  <1>4. FramesGenuine
    BY <1>1, <1>3 DEF FramesGenuine
  <1>5. EntriesOwn
    BY <1>1 DEF EntriesOwn, Init
  <1>6. DeliveredOnce
    BY <1>2 DEF DeliveredOnce
  <1>7. OnePlace
    <2>1. \A p, i : ~At(<<>>, p, i)
      BY DEF At
    <2>2. \A m \in Node : \A p, i : ~Got(m, p, i)
      BY <1>1, <1>2 DEF Got, IsDelivered, IsStored
    <2>3. \A p \in PacketId : p[1] \in Node
      BY CounterType
    <2>. QED
      BY <1>1, <2>1, <2>2, <2>3 DEF OnePlace
  <1>. QED
    BY <1>4, <1>5, <1>6, <1>7 DEF FlightInv

\* What a board has retrieved does not change while others send and transmit.
LEMMA ReceiverUnchanged ==
    ASSUME UNCHANGED receiver
    PROVE  /\ \A m : Delivered(m)' = Delivered(m)
           /\ \A m, p, i : Got(m, p, i)' <=> Got(m, p, i)
           /\ EntriesOwn => EntriesOwn'
           /\ DeliveredOnce => DeliveredOnce'
  <1>1. \A m : Delivered(m)' = Delivered(m)
    BY DEF Delivered, receiver
  <1>2. UNCHANGED pendingMessages
    BY DEF receiver
  <1>3. \A m, p, i : Got(m, p, i)' <=> Got(m, p, i)
    BY <1>1, <1>2 DEF Got, IsDelivered, IsStored
  <1>4. EntriesOwn => EntriesOwn'
    BY <1>2 DEF EntriesOwn
  <1>5. DeliveredOnce => DeliveredOnce'
    BY <1>1 DEF DeliveredOnce
  <1>. QED
    BY <1>1, <1>3, <1>4, <1>5

LEMMA SendFlight ==
    ASSUME SizesFit, IInv, FlightInv, NEW n \in Node, KeepsSent, SendsPiece(n) \/ UNCHANGED tx,
           UNCHANGED <<receiver, rx>>
    PROVE  FlightInv'
  <1>1. FramesGenuine /\ OnePlace /\ EntriesOwn /\ DeliveredOnce
    BY DEF FlightInv
  <1>2. /\ EntriesOwn' /\ DeliveredOnce'
        /\ \A m, p, i : Got(m, p, i)' <=> Got(m, p, i)
    BY <1>1, ReceiverUnchanged
  <1>3. CASE UNCHANGED tx
    <2>1. FramesGenuine'
      BY <1>1, <1>3 DEF FramesGenuine
    <2>2. OnePlace'
      <3>1. SUFFICES ASSUME NEW p \in PacketId, NEW i \in Pieces(p)
                     PROVE  /\ At(tx[p[1]], p, i) => IsSent(p, i)'
                            /\ \A m \in Node :
                                 /\ At(rx[m], p, i) \/ Got(m, p, i) => IsSent(p, i)'
                                 /\ At(tx[p[1]], p, i) => ~At(rx[m], p, i) /\ ~Got(m, p, i)
                                 /\ At(rx[m], p, i) => ~Got(m, p, i)
        BY <1>2, <1>3 DEF OnePlace
      <3>2. IsSent(p, i) => IsSent(p, i)'
        BY DEF KeepsSent
      <3>. QED
        BY <1>1, <3>2 DEF OnePlace
    <2>. QED
      BY <1>2, <2>1, <2>2 DEF FlightInv
  <1>4. CASE SendsPiece(n)
    <2>1. PICK p \in PacketId : \E i \in Pieces(p) :
             /\ p[1] = n /\ ~IsSent(p, i) /\ IsSent(p, i)'
             /\ tx' = [tx EXCEPT ![n] = Append(@, FrameOf(p, i))]
      BY <1>4 DEF SendsPiece
    <2>2. PICK i \in Pieces(p) :
             /\ p[1] = n /\ ~IsSent(p, i) /\ IsSent(p, i)'
             /\ tx' = [tx EXCEPT ![n] = Append(@, FrameOf(p, i))]
      BY <2>1
    <2>3. PICK f \in Frame : f = FrameOf(p, i)
      BY FrameOfType
    <2>4. f.packet = p /\ f.piece = i /\ Genuine(f)
      BY <2>3, FrameOfFields
    <2>5. ~At(tx[n], p, i)
      BY <1>1, <2>2 DEF OnePlace
    <2>6. /\ tx[n] \in Seq(Frame) /\ NoCopies(tx[n])
          /\ tx'[n] = Append(tx[n], f)
          /\ \A m \in Node \ {n} : tx'[m] = tx[m]
      BY <1>1, <2>2, <2>3, FlightTypes DEF FramesGenuine, TxFrames
    <2>7. /\ NoCopies(tx'[n])
          /\ \A q, j : At(tx'[n], q, j) <=> At(tx[n], q, j) \/ (f.packet = q /\ f.piece = j)
          /\ \A k \in DOMAIN tx'[n] : tx'[n][k] = f \/ \E j \in DOMAIN tx[n] : tx'[n][k] = tx[n][j]
      BY <2>4, <2>5, <2>6, AppendFrame
    <2>8. FramesGenuine'
      <3>1. TxFrames(n, tx'[n])
        BY <1>1, <2>2, <2>4, <2>7 DEF FramesGenuine, TxFrames
      <3>. QED
        BY <1>1, <2>6, <3>1 DEF FramesGenuine
    <2>9. OnePlace'
      <3>1. SUFFICES ASSUME NEW q \in PacketId, NEW j \in Pieces(q)
                     PROVE  /\ At(tx'[q[1]], q, j) => IsSent(q, j)'
                            /\ \A m \in Node :
                                 /\ At(rx[m], q, j) \/ Got(m, q, j) => IsSent(q, j)'
                                 /\ At(tx'[q[1]], q, j) => ~At(rx[m], q, j) /\ ~Got(m, q, j)
                                 /\ At(rx[m], q, j) => ~Got(m, q, j)
        BY <1>2 DEF OnePlace
      <3>2. IsSent(q, j) => IsSent(q, j)'
        BY DEF KeepsSent
      <3>3. q[1] \in Node
        BY CounterType
      <3>4. CASE q = p /\ j = i
        BY <1>1, <2>2, <3>4 DEF OnePlace
      <3>5. CASE ~(q = p /\ j = i)
        <4>1. At(tx'[q[1]], q, j) => At(tx[q[1]], q, j)
          BY <2>4, <2>6, <2>7, <3>3, <3>5
        <4>. QED
          BY <1>1, <3>2, <4>1 DEF OnePlace
      <3>. QED
        BY <3>4, <3>5
    <2>. QED
      BY <1>2, <2>8, <2>9 DEF FlightInv
  <1>. QED
    BY <1>3, <1>4

LEMMA TransmitFlight ==
    ASSUME IInv, FlightInv, NEW n \in Node, NEW k \in DOMAIN tx[n], Transmit(n, k)
    PROVE  FlightInv'
  <1>1. FramesGenuine /\ OnePlace /\ EntriesOwn /\ DeliveredOnce
    BY DEF FlightInv
  <1>2. UNCHANGED <<sender, receiver>>
    BY DEF Transmit
  <1>3. /\ EntriesOwn' /\ DeliveredOnce'
        /\ \A m, p, i : Got(m, p, i)' <=> Got(m, p, i)
    BY <1>1, <1>2, ReceiverUnchanged
  <1>4. \A p, i : IsSent(p, i)' <=> IsSent(p, i)
    BY <1>2 DEF IsSent, sender
  <1>5. PICK missed \in SUBSET (Node \ {n}) :
           rx' = [m \in Node |-> IF m \in missed \cup {n} THEN rx[m]
                                 ELSE Append(rx[m], tx[n][k])]
    BY DEF Transmit
  <1>6. tx[n] \in Seq(Frame) /\ TxFrames(n, tx[n]) /\ NoCopies(tx[n])
    BY <1>1, FlightTypes DEF FramesGenuine, TxFrames
  <1>7. PICK f \in Frame : f = tx[n][k]
    BY <1>6
  <1>8. PICK p \in PacketId, i \in Nat :
           f.packet = p /\ f.piece = i /\ p[1] = n /\ i \in Pieces(p)
    <2>1. f.packet \in PacketId /\ f.piece \in Pieces(f.packet) /\ f.packet[1] = n
      BY <1>6, <1>7 DEF TxFrames, Genuine
    <2>. QED
      BY <2>1, PieceRange
  <1>9. Genuine(f) /\ At(tx[n], p, i)
    BY <1>6, <1>7, <1>8 DEF TxFrames, At
  <1>10. tx'[n] = RemoveAt(tx[n], k) /\ \A m \in Node \ {n} : tx'[m] = tx[m]
    BY FlightTypes DEF Transmit
  <1>11. /\ NoCopies(tx'[n])
         /\ \A q, j : At(tx'[n], q, j) => At(tx[n], q, j) /\ ~(q = p /\ j = i)
         /\ \A j \in DOMAIN tx'[n] : \E l \in DOMAIN tx[n] : tx'[n][j] = tx[n][l]
    BY <1>6, <1>7, <1>8, <1>10, RemoveFrames
  <1>12. ASSUME NEW m \in Node
         PROVE  /\ RxFrames(m, rx'[m])
                /\ \A q, j : At(rx'[m], q, j) => At(rx[m], q, j) \/ (q = p /\ j = i)
    <2>1. RxFrames(m, rx[m]) /\ rx[m] \in Seq(Frame)
      BY <1>1, FlightTypes DEF FramesGenuine
    <2>2. CASE m \in missed \cup {n}
      BY <1>5, <2>1, <2>2
    <2>3. CASE m \notin missed \cup {n}
      <3>1. rx'[m] = Append(rx[m], f)
        BY <1>5, <1>7, <2>3
      <3>2. ~At(rx[m], p, i)
        BY <1>1, <1>8, <1>9 DEF OnePlace
      <3>3. /\ NoCopies(rx'[m])
            /\ \A q, j : At(rx'[m], q, j) <=> At(rx[m], q, j) \/ (f.packet = q /\ f.piece = j)
            /\ \A l \in DOMAIN rx'[m] : rx'[m][l] = f \/ \E j \in DOMAIN rx[m] : rx'[m][l] = rx[m][j]
        BY <1>8, <2>1, <3>1, <3>2, AppendFrame DEF RxFrames
      <3>4. RxFrames(m, rx'[m])
        BY <1>8, <1>9, <2>1, <2>3, <3>3 DEF RxFrames
      <3>. QED
        BY <1>8, <3>3, <3>4
    <2>. QED
      BY <2>2, <2>3
  <1>13. FramesGenuine'
    <2>1. TxFrames(n, tx'[n])
      BY <1>6, <1>11 DEF TxFrames
    <2>. QED
      BY <1>1, <1>10, <1>12, <2>1 DEF FramesGenuine
  <1>14. OnePlace'
    <2>1. SUFFICES ASSUME NEW q \in PacketId, NEW j \in Pieces(q)
                   PROVE  /\ At(tx'[q[1]], q, j) => IsSent(q, j)
                          /\ \A m \in Node :
                               /\ At(rx'[m], q, j) \/ Got(m, q, j) => IsSent(q, j)
                               /\ At(tx'[q[1]], q, j) => ~At(rx'[m], q, j) /\ ~Got(m, q, j)
                               /\ At(rx'[m], q, j) => ~Got(m, q, j)
      BY <1>3, <1>4 DEF OnePlace
    <2>2. q[1] \in Node
      BY CounterType
    <2>3. CASE q = p /\ j = i
      <3>1. ~At(tx'[q[1]], q, j)
        BY <1>8, <1>11, <2>3
      <3>. QED
        BY <1>1, <1>8, <1>9, <2>3, <3>1 DEF OnePlace
    <2>4. CASE ~(q = p /\ j = i)
      <3>1. At(tx'[q[1]], q, j) => At(tx[q[1]], q, j)
        BY <1>10, <1>11, <2>2
      <3>2. \A m \in Node : At(rx'[m], q, j) => At(rx[m], q, j)
        BY <1>12, <2>4
      <3>. QED
        BY <1>1, <3>1, <3>2 DEF OnePlace
    <2>. QED
      BY <2>3, <2>4
  <1>. QED
    BY <1>3, <1>13, <1>14 DEF FlightInv

\* A board retrieves a frame: its piece is no longer on the way, whether it is stored,
\* completes its packet or is refused.
LEMMA RetrieveFrames ==
    ASSUME IInv, FlightInv, NEW n \in Node, Retrieve(n),
           \A m \in Node, p \in PacketId : \A i \in Pieces(p) :
               Got(m, p, i)' =>
                   \/ Got(m, p, i)
                   \/ m = n /\ p = Head(rx[n]).packet /\ i = Head(rx[n]).piece
    PROVE  FramesGenuine' /\ OnePlace'
  <1>1. FramesGenuine /\ OnePlace
    BY DEF FlightInv
  <1>2. /\ UNCHANGED <<sender, tx>> /\ rx[n] # <<>>
        /\ rx'[n] = Tail(rx[n]) /\ \A m \in Node \ {n} : rx'[m] = rx[m]
    BY FlightTypes DEF Retrieve
  <1>3. RxFrames(n, rx[n]) /\ rx[n] \in Seq(Frame) /\ NoCopies(rx[n])
    BY <1>1, FlightTypes DEF FramesGenuine, RxFrames
  <1>4. /\ NoCopies(rx'[n])
        /\ \A p, i : At(rx'[n], p, i) =>
               At(rx[n], p, i) /\ ~(Head(rx[n]).packet = p /\ Head(rx[n]).piece = i)
        /\ \A k \in DOMAIN rx'[n] : k + 1 \in DOMAIN rx[n] /\ rx'[n][k] = rx[n][k + 1]
        /\ 1 \in DOMAIN rx[n] /\ Head(rx[n]) = rx[n][1]
    BY <1>2, <1>3, TailFrames
  <1>5. At(rx[n], Head(rx[n]).packet, Head(rx[n]).piece)
    BY <1>4 DEF At
  <1>6. FramesGenuine'
    <2>1. RxFrames(n, rx'[n])
      BY <1>3, <1>4 DEF RxFrames
    <2>. QED
      BY <1>1, <1>2, <2>1 DEF FramesGenuine
  <1>7. OnePlace'
    <2>1. SUFFICES ASSUME NEW p \in PacketId, NEW i \in Pieces(p)
                   PROVE  /\ At(tx[p[1]], p, i) => IsSent(p, i)
                          /\ \A m \in Node :
                               /\ At(rx'[m], p, i) \/ Got(m, p, i)' => IsSent(p, i)
                               /\ At(tx[p[1]], p, i) => ~At(rx'[m], p, i) /\ ~Got(m, p, i)'
                               /\ At(rx'[m], p, i) => ~Got(m, p, i)'
      <3>1. \A p, i : IsSent(p, i)' <=> IsSent(p, i)
        BY <1>2 DEF IsSent, sender
      <3>. QED
        BY <1>2, <2>1, <3>1 DEF OnePlace
    <2>2. ASSUME NEW m \in Node
          PROVE  /\ At(rx'[m], p, i) => At(rx[m], p, i)
                 /\ Got(m, p, i)' => Got(m, p, i) \/ At(rx[m], p, i)
                 /\ At(rx'[m], p, i) => ~Got(m, p, i)'
      <3>1. At(rx'[m], p, i) => At(rx[m], p, i)
        BY <1>2, <1>4
      <3>2. Got(m, p, i)' => Got(m, p, i) \/ At(rx[m], p, i)
        BY <1>5
      <3>3. At(rx'[m], p, i) => ~Got(m, p, i)'
        <4>1. CASE m = n /\ p = Head(rx[n]).packet /\ i = Head(rx[n]).piece
          BY <1>4, <4>1
        <4>2. CASE ~(m = n /\ p = Head(rx[n]).packet /\ i = Head(rx[n]).piece)
          <5>1. Got(m, p, i)' => Got(m, p, i)
            BY <4>2
          <5>. QED
            BY <1>1, <3>1, <5>1 DEF OnePlace
        <4>. QED
          BY <4>1, <4>2
      <3>. QED
        BY <3>1, <3>2, <3>3
    <2>. QED
      BY <1>1, <2>2 DEF OnePlace
  <1>. QED
    BY <1>6, <1>7

\* The oldest frame of a board.
LEMMA OldestFrame ==
    ASSUME IInv, FlightInv, NEW n \in Node, rx[n] # <<>>
    PROVE  LET f == Head(rx[n]) IN
           /\ f \in Frame /\ Genuine(f) /\ f.packet[1] # n
           /\ f.packet \in PacketId /\ f.piece \in Pieces(f.packet)
           /\ At(rx[n], f.packet, f.piece) /\ ~Got(n, f.packet, f.piece)
  <1> DEFINE f == Head(rx[n])
  <1>1. RxFrames(n, rx[n]) /\ rx[n] \in Seq(Frame) /\ OnePlace
    BY FlightTypes DEF FlightInv, FramesGenuine
  <1>2. 1 \in DOMAIN rx[n] /\ f = rx[n][1] /\ f \in Frame
    BY <1>1
  <1>3. Genuine(f) /\ f.packet[1] # n
    BY <1>1, <1>2 DEF RxFrames
  <1>4. f.packet \in PacketId /\ f.piece \in Pieces(f.packet)
    BY <1>3 DEF Genuine
  <1>5. At(rx[n], f.packet, f.piece)
    BY <1>2 DEF At
  <1>6. ~Got(n, f.packet, f.piece)
    BY <1>1, <1>4, <1>5 DEF OnePlace
  <1>. QED
    BY <1>2, <1>3, <1>4, <1>5, <1>6

\* The entry a fragment is put to (connector_impl.hpp:249-288) is that of its packet and
\* does not hold it yet.
LEMMA EntryOfFrame ==
    ASSUME DistinctKeys, SizesFit, IInv, FlightInv, NEW n \in Node, rx[n] # <<>>,
           IsFragment(Head(rx[n]).identifier), IsLegal(Head(rx[n]))
    PROVE  LET f == Head(rx[n])  p == f.packet
               old == EntryFor(n, f)  new == WithFragment(old, f) IN
           /\ IsFragmented(p) /\ Key(f) = KeyOf(p) /\ f.size = SizeOf(p)
           /\ f.index = f.piece
           /\ Own(old, p) /\ f.piece \notin old.receivedFragments
           /\ Own(new, p) /\ new.receivedFragments = old.receivedFragments \cup {f.piece}
           /\ \A i \in old.receivedFragments : IsStored(n, p, i)
           /\ new \in Pending
  <1>. PICK f \in Frame : f = Head(rx[n])
    BY OldestFrame
  <1>. PICK p \in PacketId : p = f.packet
    BY OldestFrame
  <1>1. /\ Genuine(f) /\ f.piece \in Pieces(p) /\ ~Got(n, p, f.piece)
    BY OldestFrame
  <1>2. IsFragmented(p) /\ Key(f) = KeyOf(p) /\ f.size = SizeOf(p) /\ f.index = f.piece
    <2>1. IsFragmented(p) /\ f.size = SizeOf(p)
      BY <1>1, GenuineFrame, PacketTypes DEF SizesFit
    <2>2. f.piece <= 15
      <3>1. PICK x \in Nat : x = f.piece /\ x \in Pieces(p)
        BY <1>1, PieceRange
      <3>2. 6 * x < SizeOf(p)
        BY <2>1, <3>1, PieceRange
      <3>3. SizeOf(p) \in Nat /\ SizeOf(p) <= 48
        BY <2>1, PacketTypes DEF IsLegal
      <3>. QED
        BY <3>1, <3>2, <3>3
    <2>. QED
      BY <1>1, <2>1, <2>2, GenuineFrame
  <1> DEFINE old == EntryFor(n, f)  new == WithFragment(old, f)
  <1>3. old \in Pending /\ new \in Pending
    BY EntryType DEF IInv
  <1>4. Own(old, p) /\ \A i \in old.receivedFragments : IsStored(n, p, i)
    <2>1. CASE Key(f) \in DOMAIN pendingMessages[n]
      <3>1. old = pendingMessages[n][KeyOf(p)]
        BY <1>2, <2>1 DEF EntryFor
      <3>2. PICK q \in PacketId :
               /\ IsFragmented(q) /\ Key(f) = KeyOf(q)
               /\ Own(pendingMessages[n][Key(f)], q)
        BY <2>1 DEF FlightInv, EntriesOwn
      <3>3. HeaderOf(p) = HeaderOf(q) /\ Counter(p) = Counter(q)
        BY <1>2, <3>2 DEF KeyOf
      <3>4. p = q
        BY <1>2, <3>2, <3>3 DEF DistinctKeys
      <3>. QED
        BY <1>2, <2>1, <3>1, <3>2, <3>4 DEF IsStored
    <2>2. CASE Key(f) \notin DOMAIN pendingMessages[n]
      <3>1. old = [size |-> f.size, receivedFragments |-> {}, parts |-> Unwritten]
        BY <2>2 DEF EntryFor
      <3>. QED
        BY <1>2, <3>1 DEF Own
    <2>. QED
      BY <2>1, <2>2
  <1>5. f.piece \notin old.receivedFragments
    BY <1>1, <1>4 DEF Got
  <1>. HIDE DEF old
  <1>6. /\ new.receivedFragments = old.receivedFragments \cup {f.piece}
        /\ new.size = old.size /\ new.parts = [old.parts EXCEPT ![f.piece] = p]
    BY <1>2, <1>3, <1>5 DEF WithFragment, Pending
  <1>7. Own(new, p)
    <2>1. old.parts \in Parts /\ old.receivedFragments \subseteq 0..15 /\ f.piece \in 0..15
      BY <1>2, <1>3 DEF Pending, Frame
    <2>2. \A i \in 0..15 : new.parts[i] = IF i = f.piece THEN p ELSE old.parts[i]
      BY <1>6, <2>1 DEF Parts
    <2>. HIDE DEF new
    <2>. QED
      BY <1>1, <1>4, <1>6, <2>1, <2>2 DEF Own
  <1>. QED
    BY <1>2, <1>3, <1>4, <1>5, <1>6, <1>7 DEF old

\* When as many fragments are there as the packet has, they are its pieces.
LEMMA CompleteEntry ==
    ASSUME NEW p \in PacketId, IsFragmented(p), NEW entry, Own(entry, p),
           Cardinality(entry.receivedFragments) = NumberOfFragments(SizeOf(p))
    PROVE  entry.receivedFragments = Pieces(p)
  <1>1. PICK size \in Nat : size = SizeOf(p)
    BY PacketTypes
  <1>2. PICK last \in Nat : NumberOfFragments(size) = last + 1 /\ size > 8
    <2>1. size > 8
      BY <1>1 DEF IsFragmented
    <2>2. (size + 5) \div 6 \in Nat \ {0}
      BY <2>1
    <2>3. (size + 5) \div 6 - 1 \in Nat /\ (size + 5) \div 6 = (size + 5) \div 6 - 1 + 1
      BY <2>2
    <2>. QED
      BY <2>1, <2>3 DEF NumberOfFragments
  <1>3. Pieces(p) = 0 .. last
    BY <1>1, <1>2 DEF Pieces, NumberOfPieces
  <1>4. IsFiniteSet(0 .. last) /\ Cardinality(0 .. last) = last + 1
    BY FS_Interval
  <1>5. entry.receivedFragments \in SUBSET (0 .. last)
    BY <1>3 DEF Own
  <1>. QED
    BY <1>1, <1>2, <1>3, <1>4, <1>5, FS_Subset

\* A packet that becomes available was not available before and came from another board.
LEMMA DeliverPacket ==
    ASSUME IInv, FlightInv, NEW n \in Node, NEW item \in Item, NEW p \in PacketId,
           PacketIn(item) = p, p[1] # n, ~IsDelivered(n, p), UNCHANGED taken,
           receivedMessages' = [receivedMessages EXCEPT ![n] = Append(@, item)]
    PROVE  /\ DeliveredOnce'
           /\ Delivered(n)' = Append(Delivered(n), p)
           /\ \A m \in Node \ {n} : Delivered(m)' = Delivered(m)
           /\ \A m \in Node : \A q : IsDelivered(m, q)' <=> IsDelivered(m, q) \/ (m = n /\ q = p)
  <1>. PICK D \in Seq(PacketId \cup {Nothing}) : D = Delivered(n)
    BY DeliveredSteps DEF IInv
  <1>1. Delivered(n)' = Append(D, p) /\ \A m \in Node \ {n} : Delivered(m)' = Delivered(m)
    BY DeliveredSteps DEF IInv
  <1> DEFINE E == Append(D, p)
  <1>2. /\ DOMAIN E = 1 .. Len(D) + 1 /\ DOMAIN D = 1 .. Len(D) /\ Len(D) \in Nat
        /\ E[Len(D) + 1] = p /\ \A k \in DOMAIN D : k \in DOMAIN E /\ E[k] = D[k]
    OBVIOUS
  <1>. HIDE DEF E
  <1>3. \A k \in DOMAIN E : k \in DOMAIN D \/ k = Len(D) + 1
    BY <1>2
  <1>4. \A k \in DOMAIN D : D[k] # p
    BY DEF IsDelivered
  <1>5. /\ \A k \in DOMAIN D : D[k] \in PacketId /\ D[k][1] # n
        /\ \A j, k \in DOMAIN D : D[j] = D[k] => j = k
    BY DEF FlightInv, DeliveredOnce
  <1>6. /\ \A k \in DOMAIN E : E[k] \in PacketId /\ E[k][1] # n
        /\ \A j, k \in DOMAIN E : E[j] = E[k] => j = k
    BY <1>2, <1>3, <1>4, <1>5
  <1>7. DeliveredOnce'
    <2>1. SUFFICES ASSUME NEW m \in Node
                   PROVE  /\ \A k \in DOMAIN Delivered(m)' :
                                Delivered(m)'[k] \in PacketId /\ Delivered(m)'[k][1] # m
                          /\ \A j, k \in DOMAIN Delivered(m)' :
                                Delivered(m)'[j] = Delivered(m)'[k] => j = k
      BY DEF DeliveredOnce
    <2>2. CASE m = n
      BY <1>1, <1>6, <2>2 DEF E
    <2>3. CASE m # n
      <3>1. Delivered(m)' = Delivered(m)
        BY <1>1, <2>3
      <3>. QED
        BY <3>1 DEF FlightInv, DeliveredOnce
    <2>. QED
      BY <2>2, <2>3
  <1>8. ASSUME NEW m \in Node, NEW q
        PROVE  IsDelivered(m, q)' <=> IsDelivered(m, q) \/ (m = n /\ q = p)
    <2>1. CASE m = n
      <3>1. (\E k \in DOMAIN E : E[k] = q) <=> (\E k \in DOMAIN D : D[k] = q) \/ q = p
        BY <1>2, <1>3
      <3>2. IsDelivered(m, q)' <=> \E k \in DOMAIN E : E[k] = q
        BY <1>1, <2>1 DEF IsDelivered, E
      <3>. QED
        BY <2>1, <3>1, <3>2 DEF IsDelivered
    <2>2. CASE m # n
      <3>1. Delivered(m)' = Delivered(m)
        BY <1>1, <2>2
      <3>. QED
        BY <2>2, <3>1 DEF IsDelivered
    <2>. QED
      BY <2>1, <2>2
  <1>. QED
    BY <1>1, <1>7, <1>8

\* What the three actions of retrieveMessage do to the receiver: nothing, or the packet
\* of the frame becomes available.
Delivers(n, p) ==
    /\ Delivered(n)' = Append(Delivered(n), p)
    /\ \A m \in Node \ {n} : Delivered(m)' = Delivered(m)

DeliversNothing == \A m \in Node : Delivered(m)' = Delivered(m)

LEMMA RetrieveFlight ==
    ASSUME DistinctKeys, SizesFit, IInv, FlightInv, NEW n \in Node,
           RetrieveShort(n) \/ RetrieveIllegal(n) \/ RetrieveFragment(n)
    PROVE  /\ FlightInv'
           /\ \/ DeliversNothing
              \/ Delivers(n, Head(rx[n]).packet) /\ ~IsDelivered(n, Head(rx[n]).packet)
  <1>1. Retrieve(n) /\ rx[n] # <<>> /\ UNCHANGED taken
    BY DEF RetrieveShort, RetrieveIllegal, RetrieveFragment, Retrieve
  <1>. PICK f \in Frame : f = Head(rx[n])
    BY <1>1, OldestFrame
  <1>. PICK p \in PacketId : p = f.packet
    BY <1>1, OldestFrame
  <1>. PICK x \in Nat : x = f.piece
    BY DEF Frame
  <1>2. /\ Genuine(f) /\ x \in Pieces(p) /\ p[1] # n /\ ~Got(n, p, x)
    BY <1>1, OldestFrame
  <1>3. /\ IsFragment(f.identifier) = IsFragmented(p)
        /\ ConvertToHeader(f.identifier) = HeaderOf(p)
        /\ ~IsFragmented(p) => f.length = SizeOf(p)
    BY <1>2, GenuineFrame
  <1>4. ~IsDelivered(n, p)
    BY <1>2 DEF Got
  <1>5. SUFFICES /\ EntriesOwn' /\ DeliveredOnce'
                 /\ \A m \in Node, q \in PacketId : \A i \in Pieces(q) :
                        Got(m, q, i)' => Got(m, q, i) \/ (m = n /\ q = p /\ i = x)
                 /\ DeliversNothing \/ Delivers(n, p)
    <2>1. FramesGenuine' /\ OnePlace'
      BY <1>1, <1>5, RetrieveFrames
    <2>. QED
      BY <1>4, <1>5, <2>1 DEF FlightInv
  <1>6. CASE RetrieveIllegal(n)
    <2>1. UNCHANGED receiver
      BY <1>1, <1>6 DEF RetrieveIllegal, receiver
    <2>. QED
      BY <2>1, ReceiverUnchanged DEF FlightInv, DeliversNothing
  <1>7. CASE RetrieveShort(n)
    <2> DEFINE item == [header |-> ConvertToHeader(f.identifier), size |-> f.length,
                        parts |-> [Unwritten EXCEPT ![0] = f.packet]]
    <2>1. /\ ~IsFragmented(p) /\ UNCHANGED pendingMessages
          /\ receivedMessages' = [receivedMessages EXCEPT ![n] = Append(@, item)]
      BY <1>3, <1>7 DEF RetrieveShort
    <2>2. item \in Item
      <3>1. f.identifier \in Nat /\ f.length \in 0..8
        BY DEF Frame
      <3>2. [Unwritten EXCEPT ![0] = f.packet] \in Parts
        BY PartsType
      <3>. QED
        BY <3>1, <3>2, HeaderType DEF Item
    <2>3. PacketIn(item) = p
      <3>1. item.header = HeaderOf(p) /\ item.size = SizeOf(p)
        BY <1>3, <2>1
      <3>2. item.parts[0] = p
        BY DEF Unwritten
      <3>3. \A i \in Pieces(p) : item.parts[i] = p
        BY <2>1, <3>2, PieceRange
      <3>. HIDE DEF item
      <3>. QED
        BY <3>1, <3>3, WholePacket
    <2>. HIDE DEF item
    <2>4. /\ DeliveredOnce' /\ Delivers(n, p)
          /\ \A m \in Node : \A q : IsDelivered(m, q)' <=> IsDelivered(m, q) \/ (m = n /\ q = p)
      BY <1>1, <1>2, <1>4, <2>1, <2>2, <2>3, DeliverPacket DEF Delivers
    <2>5. EntriesOwn'
      BY <2>1 DEF FlightInv, EntriesOwn
    <2>6. ASSUME NEW m \in Node, NEW q \in PacketId, NEW i \in Pieces(q), Got(m, q, i)'
          PROVE  Got(m, q, i) \/ (m = n /\ q = p /\ i = x)
      <3>1. IsStored(m, q, i)' <=> IsStored(m, q, i)
        BY <2>1 DEF IsStored
      <3>2. q = p => i = x
        BY <1>2, <2>1, PieceRange
      <3>. QED
        BY <2>4, <2>6, <3>1, <3>2 DEF Got
    <2>. QED
      BY <2>4, <2>5, <2>6
  <1>8. CASE RetrieveFragment(n)
    <2>0. DOMAIN pendingMessages = Node
      BY DEF FlightInv, EntriesOwn
    <2>1. IsFragment(f.identifier) /\ IsLegal(f)
      BY <1>8 DEF RetrieveFragment
    <2>. PICK old : old = EntryFor(n, f)
      OBVIOUS
    <2>. PICK new \in Pending : new = WithFragment(old, f)
      BY <1>1, <2>1, EntryOfFrame
    <2>2. /\ IsFragmented(p) /\ Key(f) = KeyOf(p) /\ f.size = SizeOf(p) /\ Own(new, p)
          /\ new.receivedFragments = old.receivedFragments \cup {x}
          /\ \A i \in old.receivedFragments : IsStored(n, p, i)
      BY <1>1, <2>1, EntryOfFrame
    <2> DEFINE others == DOMAIN pendingMessages[n] \ {Key(f)}
               item == [header |-> Key(f)[1], size |-> new.size, parts |-> new.parts]
    <2>3. CASE IsComplete(new, f)
      <3>1. /\ pendingMessages' = [pendingMessages EXCEPT ![n] = [k \in others |-> @[k]]]
            /\ receivedMessages' = [receivedMessages EXCEPT ![n] = Append(@, item)]
        BY <1>8, <2>3 DEF RetrieveFragment
      <3>2. new.receivedFragments = Pieces(p)
        BY <2>2, <2>3, CompleteEntry DEF IsComplete
      <3>3. Key(f) = <<HeaderOf(p), Counter(p)>> /\ HeaderOf(p) \in Header
        BY <2>2, PacketTypes DEF KeyOf
      <3>4. item.header = HeaderOf(p) /\ item.size = SizeOf(p) /\ item \in Item
        <4>1. new.size \in 0..255 /\ new.parts \in Parts /\ new.size = SizeOf(p)
          BY <2>2 DEF Pending, Own
        <4>. QED
          BY <3>3, <4>1, SMTT(30) DEF Item
      <3>5. \A i \in Pieces(p) : item.parts[i] = p
        BY <2>2, <3>2 DEF Own
      <3>. HIDE DEF item
      <3>6. PacketIn(item) = p
        BY <3>4, <3>5, WholePacket
      <3>7. /\ DeliveredOnce' /\ Delivers(n, p)
            /\ \A m \in Node : \A q : IsDelivered(m, q)' <=> IsDelivered(m, q) \/ (m = n /\ q = p)
        BY <1>1, <1>2, <1>4, <3>1, <3>4, <3>6, DeliverPacket DEF Delivers
      <3>8. \A m \in Node : \A k \in DOMAIN pendingMessages'[m] :
                /\ k \in DOMAIN pendingMessages[m]
                /\ pendingMessages'[m][k] = pendingMessages[m][k]
        <4>1. pendingMessages'[n] = [k \in others |-> pendingMessages[n][k]]
              /\ \A m \in Node \ {n} : pendingMessages'[m] = pendingMessages[m]
          BY <2>0, <3>1
        <4>. QED
          BY <4>1
      <3>9. EntriesOwn'
        <4>1. DOMAIN pendingMessages' = Node
          BY <2>0, <3>1
        <4>. QED
          BY <3>8, <4>1 DEF FlightInv, EntriesOwn
      <3>10. ASSUME NEW m \in Node, NEW q \in PacketId, NEW i \in Pieces(q), Got(m, q, i)'
             PROVE  Got(m, q, i) \/ (m = n /\ q = p /\ i = x)
        <4>1. IsStored(m, q, i)' => IsStored(m, q, i)
          BY <3>8 DEF IsStored
        <4>2. q = p => IsStored(n, p, i) \/ i = x
          BY <2>2, <3>2
        <4>. QED
          BY <3>7, <3>10, <4>1, <4>2 DEF Got
      <3>. QED
        BY <3>7, <3>9, <3>10
    <2>4. CASE ~IsComplete(new, f)
      <3>1. /\ pendingMessages' = [pendingMessages EXCEPT ![n] =
                   [k \in others \cup {Key(f)} |-> IF k = Key(f) THEN new ELSE @[k]]]
            /\ UNCHANGED receivedMessages
        BY <1>8, <2>4 DEF RetrieveFragment
      <3>2. /\ pendingMessages'[n] = [k \in others \cup {Key(f)} |->
                                         IF k = Key(f) THEN new ELSE pendingMessages[n][k]]
            /\ \A m \in Node \ {n} : pendingMessages'[m] = pendingMessages[m]
        BY <3>1, <2>0
      <3>3. /\ KeyOf(p) \in DOMAIN pendingMessages'[n] /\ pendingMessages'[n][KeyOf(p)] = new
            /\ \A m \in Node : \A k \in DOMAIN pendingMessages'[m] :
                   \/ m = n /\ k = KeyOf(p)
                   \/ /\ k \in DOMAIN pendingMessages[m]
                      /\ pendingMessages'[m][k] = pendingMessages[m][k]
        BY <2>2, <3>2
      <3>4. EntriesOwn'
        <4>1. SUFFICES ASSUME NEW m \in Node, NEW k \in DOMAIN pendingMessages'[m]
                       PROVE  \E q \in PacketId :
                                 /\ IsFragmented(q) /\ k = KeyOf(q) /\ q[1] # m
                                 /\ Own(pendingMessages'[m][k], q)
          BY <2>0, <3>1 DEF EntriesOwn
        <4>2. CASE m = n /\ k = KeyOf(p)
          BY <1>2, <2>2, <3>3, <4>2
        <4>3. CASE ~(m = n /\ k = KeyOf(p))
          BY <3>3, <4>3 DEF FlightInv, EntriesOwn
        <4>. QED
          BY <4>2, <4>3
      <3>5. DeliversNothing
        BY <1>1, <3>1 DEF DeliversNothing, Delivered
      <3>6. DeliveredOnce'
        BY <3>5 DEF FlightInv, DeliveredOnce, DeliversNothing
      <3>7. ASSUME NEW m \in Node, NEW q \in PacketId, NEW i \in Pieces(q), Got(m, q, i)'
            PROVE  Got(m, q, i) \/ (m = n /\ q = p /\ i = x)
        <4>1. IsDelivered(m, q)' => IsDelivered(m, q)
          BY <3>5 DEF DeliversNothing, IsDelivered
        <4>2. CASE m = n /\ KeyOf(q) = KeyOf(p) /\ IsFragmented(q)
          <5>1. q = p
            BY <2>2, <4>2 DEF KeyOf, DistinctKeys
          <5>2. IsStored(m, q, i)' => IsStored(n, p, i) \/ i = x
            BY <2>2, <3>3, <4>2, <5>1 DEF IsStored
          <5>. QED
            BY <3>7, <4>1, <4>2, <5>1, <5>2 DEF Got
        <4>3. CASE ~(m = n /\ KeyOf(q) = KeyOf(p) /\ IsFragmented(q))
          <5>1. IsStored(m, q, i)' => IsStored(m, q, i)
            BY <3>3, <4>3 DEF IsStored
          <5>. QED
            BY <3>7, <4>1, <5>1 DEF Got
        <4>. QED
          BY <4>2, <4>3
      <3>. QED
        BY <3>4, <3>5, <3>6, <3>7
    <2>. QED
      BY <2>3, <2>4
  <1>. QED
    BY <1>6, <1>7, <1>8

-----------------------------------------------------------------------------
(* The invariant of the connectors while every bus state stays Connected   *)

ChannelInv == IInv /\ SendInv /\ FlightInv

LEMMA ChannelInvInit == Init => ChannelInv
  BY InitType, SendInvInit, FlightInvInit DEF ChannelInv

LEMMA SenderUnchanged ==
    ASSUME UNCHANGED <<sender, busState>>
    PROVE  SendInv => SendInv'
  BY DEF SendInv, sender

LEMMA DropFlight ==
    ASSUME IInv, FlightInv, NEW n \in Node, DropPacket(n)
    PROVE  FlightInv' /\ DeliversNothing
  <1>1. /\ DeliversNothing /\ UNCHANGED <<pendingMessages, tx, rx, sender>>
    BY DeliveredSteps DEF DropPacket, IInv, DeliversNothing
  <1>2. FramesGenuine' /\ EntriesOwn'
    BY <1>1 DEF FlightInv, FramesGenuine, EntriesOwn
  <1>3. DeliveredOnce'
    BY <1>1 DEF FlightInv, DeliveredOnce, DeliversNothing
  <1>4. \A m \in Node : \A p, i : Got(m, p, i)' <=> Got(m, p, i)
    BY <1>1 DEF Got, IsDelivered, IsStored, DeliversNothing
  <1>5. \A p, i : IsSent(p, i)' <=> IsSent(p, i)
    BY <1>1 DEF IsSent, sender
  <1>6. OnePlace'
    BY <1>1, <1>4, <1>5 DEF FlightInv, OnePlace
  <1>. QED
    BY <1>1, <1>2, <1>3, <1>6 DEF FlightInv

LEMMA StutterFlight ==
    ASSUME FlightInv, UNCHANGED vars
    PROVE  FlightInv' /\ DeliversNothing
  <1>1. UNCHANGED <<receiver, sender, tx, rx>>
    BY DEF vars
  <1>2. /\ EntriesOwn' /\ DeliveredOnce' /\ DeliversNothing
        /\ \A m, p, i : Got(m, p, i)' <=> Got(m, p, i)
    BY <1>1, ReceiverUnchanged DEF FlightInv, DeliversNothing
  <1>3. \A p, i : IsSent(p, i)' <=> IsSent(p, i)
    BY <1>1 DEF IsSent, sender
  <1>4. FramesGenuine' /\ OnePlace'
    BY <1>1, <1>2, <1>3 DEF FlightInv, FramesGenuine, OnePlace
  <1>. QED
    BY <1>2, <1>4 DEF FlightInv

\* What a step is to the dispatchers: a packet is given to sendPacket, or becomes
\* available on another board for the first time, or neither.
Submits(n) ==
    sent[n] < Len(Script[n]) /\ sent' = [sent EXCEPT ![n] = @ + 1] /\ DeliversNothing

MakesAvailable(n, p) ==
    /\ UNCHANGED sent /\ Delivers(n, p)
    /\ p \in PacketId /\ p[1] # n /\ p[2] <= sent[p[1]] /\ ~IsDelivered(n, p)

ShowsNothing == UNCHANGED sent /\ DeliversNothing

LEMMA ChannelStep ==
    ASSUME DistinctKeys, SizesFit, MaxWarnings = 0, ChannelInv, [Next]_vars
    PROVE  /\ ChannelInv'
           /\ \/ \E n \in Node : Submits(n)
              \/ \E n \in Node, p \in PacketId : MakesAvailable(n, p)
              \/ ShowsNothing
  <1>1. IInv /\ IInv' /\ SendInv /\ FlightInv
    BY TypeStep DEF ChannelInv
  <1>2. CASE UNCHANGED vars
    <2>1. UNCHANGED <<sender, busState, sent>>
      BY <1>2 DEF vars, bus, sender
    <2>. QED
      BY <1>1, <1>2, <2>1, SenderUnchanged, StutterFlight DEF ChannelInv, ShowsNothing
  <1>3. ASSUME NEW n \in Node, SendDirectly(n) \/ SendLater(n)
        PROVE  ChannelInv' /\ Submits(n)
    <2>1. /\ SendInv' /\ KeepsSent /\ (SendsPiece(n) \/ UNCHANGED tx)
          /\ UNCHANGED <<receiver, rx>>
      BY <1>1, <1>3, SendPacketBoard
    <2>2. FlightInv' /\ DeliversNothing
      BY <1>1, <2>1, SendFlight, ReceiverUnchanged DEF DeliversNothing
    <2>3. sent[n] < Len(Script[n]) /\ sent' = [sent EXCEPT ![n] = @ + 1]
      BY <1>3 DEF SendDirectly, SendLater, CallSendPacket
    <2>. QED
      BY <1>1, <2>1, <2>2, <2>3 DEF ChannelInv, Submits
  <1>4. ASSUME NEW n \in Node, DropWaiting(n) \/ SendShort(n) \/ SendFragment(n)
        PROVE  ChannelInv' /\ ShowsNothing
    <2>1. SendInv' /\ KeepsSent /\ SendsPiece(n) /\ UNCHANGED <<receiver, rx>>
      BY <1>1, <1>4, SendWaitingBoard
    <2>2. FlightInv' /\ DeliversNothing
      BY <1>1, <2>1, SendFlight, ReceiverUnchanged DEF DeliversNothing
    <2>3. UNCHANGED sent
      BY <1>4 DEF DropWaiting, SendShort, SendFragment
    <2>. QED
      BY <1>1, <2>1, <2>2, <2>3 DEF ChannelInv, ShowsNothing
  <1>5. ASSUME NEW n \in Node, RetrieveShort(n) \/ RetrieveIllegal(n) \/ RetrieveFragment(n)
        PROVE  ChannelInv' /\ (ShowsNothing \/ \E p \in PacketId : MakesAvailable(n, p))
    <2>1. UNCHANGED <<sender, busState, sent>> /\ rx[n] # <<>>
      BY <1>5 DEF RetrieveShort, RetrieveIllegal, RetrieveFragment, Retrieve, bus, sender
    <2>2. SendInv'
      BY <1>1, <2>1, SenderUnchanged
    <2>3. PICK p \in PacketId : p = Head(rx[n]).packet
      BY <1>1, <2>1, OldestFrame
    <2>4. /\ FlightInv'
          /\ DeliversNothing \/ (Delivers(n, p) /\ ~IsDelivered(n, p))
      BY <1>1, <1>5, <2>3, RetrieveFlight
    <2>5. p[1] # n /\ p[2] <= sent[p[1]]
      <3>1. /\ p[1] # n /\ Head(rx[n]).piece \in Pieces(p)
            /\ At(rx[n], p, Head(rx[n]).piece)
        BY <1>1, <2>1, <2>3, OldestFrame
      <3>2. IsSent(p, Head(rx[n]).piece)
        BY <1>1, <3>1 DEF FlightInv, OnePlace
      <3>. QED
        BY <3>1, <3>2 DEF IsSent, SentFrom
    <2>. QED
      BY <1>1, <2>1, <2>2, <2>4, <2>5 DEF ChannelInv, ShowsNothing, MakesAvailable
  <1>6. ASSUME NEW n \in Node, DropPacket(n)
        PROVE  ChannelInv' /\ ShowsNothing
    <2>1. UNCHANGED <<sender, busState, sent>>
      BY <1>6 DEF DropPacket, bus, sender
    <2>. QED
      BY <1>1, <1>6, <2>1, SenderUnchanged, DropFlight DEF ChannelInv, ShowsNothing
  <1>7. ASSUME NEW n \in Node, NEW k \in DOMAIN tx[n], Transmit(n, k)
        PROVE  ChannelInv' /\ ShowsNothing
    <2>1. UNCHANGED <<sender, busState, sent, receiver>>
      BY <1>7 DEF Transmit, sender
    <2>2. SendInv' /\ DeliversNothing
      BY <1>1, <2>1, SenderUnchanged, ReceiverUnchanged DEF DeliversNothing
    <2>. QED
      BY <1>1, <1>7, <2>1, <2>2, TransmitFlight DEF ChannelInv, ShowsNothing
  <1>8. ASSUME NEW n \in Node
        PROVE  ~Warn(n) /\ ~Recover(n)
    <2>1. warnings \in 0 .. MaxWarnings
      BY <1>1 DEF IInv, TypeOK
    <2>. QED
      BY <1>1, <2>1 DEF Warn, Recover, SendInv
  <1>9. CASE Next
    <2>1. PICK n \in Node :
             \/ SendDirectly(n) \/ SendLater(n) \/ Update(n) \/ DropPacket(n)
             \/ \E k \in DOMAIN tx[n] : Transmit(n, k)
             \/ Warn(n) \/ Recover(n)
      BY <1>9 DEF Next
    <2>. QED
      BY <1>3, <1>4, <1>5, <1>6, <1>7, <1>8, <2>1 DEF Update
  <1>. QED
    BY <1>2, <1>9

\* While the bus stays connected and no counter comes back for the same header, every
\* frame on the bus and every entry of a receiver belongs to one packet, if none has more
\* than 255 bytes: of a longer one the code sends what the lower eight bits of its size
\* leave (connector_impl.hpp:149).
THEOREM ChannelAlways ==
    ASSUME DistinctKeys, SizesFit, MaxWarnings = 0 PROVE Spec => []ChannelInv
  <1>1. ChannelInv /\ [Next]_vars => ChannelInv'
    BY ChannelStep
  <1>. QED
    BY ChannelInvInit, <1>1, PTL DEF Spec

\* The other parts in the entry that retrieveMessage finds for a fragment are from the
\* same packet (connector_impl.hpp:249), though frames are lost and overtake each other;
\* under the hypotheses of ChannelAlways.
THEOREM FragmentsMeetTheirPackets ==
    ASSUME DistinctKeys, SizesFit, MaxWarnings = 0 PROVE Spec => []FragmentMeetsItsPacket
  <1>1. ASSUME ChannelInv PROVE FragmentMeetsItsPacket
    <2>1. SUFFICES ASSUME NEW n \in Node, rx[n] # <<>>,
                          IsFragment(Head(rx[n]).identifier), IsLegal(Head(rx[n]))
                   PROVE  \A i \in EntryFor(n, Head(rx[n])).receivedFragments :
                              EntryFor(n, Head(rx[n])).parts[i] = Head(rx[n]).packet
      BY DEF FragmentMeetsItsPacket
    <2>. QED
      BY <1>1, <2>1, EntryOfFrame DEF ChannelInv, Own
  <1>2. ChannelInv => FragmentMeetsItsPacket
    BY <1>1
  <1>. QED
    BY <1>2, ChannelAlways, PTL

\* Nothing is submitted or delivered in the beginning.
LEMMA ChannelInit == Init => Channel!Init
  <1>. SUFFICES ASSUME Init PROVE Channel!Init
    OBVIOUS
  <1>1. {p \in PacketId : p[2] <= sent[p[1]]} = {}
    <2>1. SUFFICES ASSUME NEW p \in PacketId PROVE ~(p[2] <= sent[p[1]])
      OBVIOUS
    <2>2. p[1] \in Node /\ p[2] \in Nat \ {0}
      BY CounterType
    <2>. QED
      BY <2>2 DEF Init
  <1>2. \A n \in Node : Delivered(n) = <<>>
    <2>1. SUFFICES ASSUME NEW n \in Node PROVE Delivered(n) = <<>>
      OBVIOUS
    <2>2. Delivered(n) \in Seq(PacketId \cup {Nothing})
      BY InitType, DeliveredSteps DEF IInv
    <2>3. DOMAIN Delivered(n) = {}
      <3>1. taken[n] = <<>> /\ receivedMessages[n] = <<>>
        BY DEF Init
      <3>. QED
        BY <3>1 DEF Delivered
    <2>. QED
      BY <2>2, <2>3
  <1>. QED
    BY <1>1, <1>2 DEF Channel!Init

\* Every step is one of PacketChannel or changes nothing a dispatcher sees.
LEMMA StepImplements ==
    ASSUME DistinctKeys, SizesFit, MaxWarnings = 0, ChannelInv, [Next]_vars
    PROVE  [Channel!Next]_(Channel!channel)
  <1> DEFINE submitted == {p \in PacketId : p[2] <= sent[p[1]]}
             delivered == [n \in Node |-> Delivered(n)]
  <1>1. \A p \in PacketId : p[1] \in Node /\ p[2] \in Nat \ {0} /\ p = <<p[1], p[2]>>
    BY CounterType
  <1>2. sent \in [Node -> Nat]
    BY DEF ChannelInv, IInv, TypeOK
  <1>3. ASSUME UNCHANGED sent
        PROVE  UNCHANGED submitted
    BY <1>3
  <1>4. ASSUME DeliversNothing
        PROVE  UNCHANGED delivered
    BY <1>4 DEF DeliversNothing
  <1>5. ASSUME NEW n \in Node, Submits(n)
        PROVE  \E p \in PacketId : Channel!Submit(p)
    <2>. PICK c \in Nat : c = sent[n]
      BY <1>2
    <2> DEFINE p == <<n, c + 1>>
    <2>1. p \in PacketId
      BY <1>2, <1>5, NextPacketType DEF Submits, NextPacket
    <2>2. p \notin submitted
      OBVIOUS
    <2>3. submitted' = submitted \cup {p}
      <3>1. \A q \in PacketId : q[2] <= sent'[q[1]] <=> q[2] <= sent[q[1]] \/ q = p
        <4>1. SUFFICES ASSUME NEW q \in PacketId
                       PROVE  q[2] <= sent'[q[1]] <=> q[2] <= sent[q[1]] \/ q = p
          OBVIOUS
        <4>2. q[1] \in Node /\ q[2] \in Nat /\ q = <<q[1], q[2]>>
          BY <1>1
        <4>3. q[1] # n => sent'[q[1]] = sent[q[1]] /\ q # p
          BY <1>2, <1>5, <4>2 DEF Submits
        <4>4. sent'[n] = c + 1
          BY <1>2, <1>5 DEF Submits
        <4>5. CASE q[1] = n
          <5>1. q = p <=> q[2] = c + 1
            BY <4>2, <4>5
          <5>. HIDE DEF p
          <5>. QED
            BY <4>2, <4>4, <4>5, <5>1
        <4>. QED
          BY <4>3, <4>5
      <3>. HIDE DEF p
      <3>. QED
        BY <2>1, <3>1
    <2>4. UNCHANGED delivered
      BY <1>4, <1>5 DEF Submits
    <2>. QED
      BY <2>1, <2>2, <2>3, <2>4 DEF Channel!Submit
  <1>6. ASSUME NEW n \in Node, NEW p \in PacketId, MakesAvailable(n, p)
        PROVE  Channel!Deliver(n, p)
    <2>1. p \in submitted /\ p[1] # n
      BY <1>6 DEF MakesAvailable
    <2>2. p \notin ToSet(delivered[n])
      BY <1>6 DEF MakesAvailable, IsDelivered, ToSet
    <2>3. delivered' = [delivered EXCEPT ![n] = Append(@, p)]
      <3>1. \A m \in Node : Delivered(m)' = IF m = n THEN Append(Delivered(n), p)
                                            ELSE Delivered(m)
        BY <1>6 DEF MakesAvailable, Delivers
      <3>. QED
        BY <3>1
    <2>4. UNCHANGED submitted
      BY <1>3, <1>6 DEF MakesAvailable
    <2>5. [q \in PacketId |-> q[1]][p] # n
      BY <2>1
    <2>. QED
      BY <2>1, <2>2, <2>3, <2>4, <2>5 DEF Channel!Deliver, Channel!ToSet, ToSet
  <1>7. CASE \E n \in Node : Submits(n)
    BY <1>5, <1>7 DEF Channel!Next
  <1>8. CASE \E n \in Node, p \in PacketId : MakesAvailable(n, p)
    BY <1>6, <1>8 DEF Channel!Next
  <1>9. CASE ShowsNothing
    BY <1>3, <1>4, <1>9 DEF ShowsNothing, Channel!channel
  <1>. QED
    BY <1>7, <1>8, <1>9, ChannelStep

\* The CAN backend keeps what PacketChannel promises: every packet arrives as it was
\* sent or not at all, on other boards only and at most once on each, whatever frames
\* are lost and in whatever order the driver transmits them; under the hypotheses of
\* ChannelAlways.
THEOREM ConnectorImplementsChannel ==
    ASSUME DistinctKeys, SizesFit, MaxWarnings = 0 PROVE Spec => ImplementsChannel
  <1>1. ChannelInv /\ [Next]_vars => [Channel!Next]_(Channel!channel)
    BY StepImplements
  <1>. QED
    BY ChannelInit, <1>1, ChannelAlways, PTL DEF Spec, ImplementsChannel, Channel!Spec

-----------------------------------------------------------------------------
(* Fragmented packets of a board stay in line, if the driver keeps order   *)

Precedes(p, q) ==
    IsFragmented(p) /\ IsFragmented(q) /\ p[1] = q[1] => p[2] <= q[2]

Sorted(s) == \A j, k \in DOMAIN s : j < k => Precedes(s[j].packet, s[k].packet)
Ahead(s, t) == \A j \in DOMAIN s, k \in DOMAIN t : Precedes(s[j].packet, t[k].packet)

SortedPackets(d) == \A j, k \in DOMAIN d : j < k => Precedes(d[j], d[k])
PacketsAhead(d, t) == \A j \in DOMAIN d, k \in DOMAIN t : Precedes(d[j], t[k].packet)

\* What is available on a board comes before what it is to retrieve, and both come before
\* what is still to be transmitted.
LineInv ==
    /\ \A n \in Node : Sorted(tx[n]) /\ Sorted(rx[n]) /\ SortedPackets(Delivered(n))
    /\ \A n, m \in Node : Ahead(rx[m], tx[n]) /\ PacketsAhead(Delivered(m), tx[n])
    /\ \A m \in Node : PacketsAhead(Delivered(m), rx[m])

\* The sequence t is s without its front.
IsRest(t, s) == \A j \in DOMAIN t : j \in Nat \ {0} /\ j + 1 \in DOMAIN s /\ t[j] = s[j + 1]

LEMMA RestInLine ==
    ASSUME NEW s \in Seq(Frame), NEW t, IsRest(t, s)
    PROVE  /\ Sorted(s) => Sorted(t)
           /\ \A r : Ahead(r, s) => Ahead(r, t)
           /\ \A r : Ahead(s, r) => Ahead(t, r)
           /\ \A d : PacketsAhead(d, s) => PacketsAhead(d, t)
           /\ 1 \in DOMAIN s /\ Sorted(s) =>
                  \A k \in DOMAIN t : Precedes(s[1].packet, t[k].packet)
  <1>1. ASSUME Sorted(s) PROVE Sorted(t)
    <2>1. SUFFICES ASSUME NEW j \in DOMAIN t, NEW k \in DOMAIN t, j < k
                   PROVE  Precedes(t[j].packet, t[k].packet)
      BY DEF Sorted
    <2>2. /\ j + 1 \in DOMAIN s /\ k + 1 \in DOMAIN s /\ j + 1 < k + 1
          /\ t[j] = s[j + 1] /\ t[k] = s[k + 1]
      BY <2>1 DEF IsRest
    <2>. QED
      BY <1>1, <2>2 DEF Sorted
  <1>2. /\ \A r : Ahead(r, s) => Ahead(r, t)
        /\ \A r : Ahead(s, r) => Ahead(t, r)
        /\ \A d : PacketsAhead(d, s) => PacketsAhead(d, t)
    BY DEF Ahead, PacketsAhead, IsRest
  <1>3. ASSUME Sorted(s), 1 \in DOMAIN s, NEW k \in DOMAIN t
        PROVE  Precedes(s[1].packet, t[k].packet)
    <2>1. k + 1 \in DOMAIN s /\ t[k] = s[k + 1] /\ 1 < k + 1
      BY DEF IsRest
    <2>. QED
      BY <1>3, <2>1 DEF Sorted
  <1>. QED
    BY <1>1, <1>2, <1>3

LEMMA AppendInLine ==
    ASSUME NEW s \in Seq(Frame), NEW f \in Frame
    PROVE  /\ Sorted(s) /\ (\A j \in DOMAIN s : Precedes(s[j].packet, f.packet))
                  => Sorted(Append(s, f))
           /\ \A r : Ahead(r, s) /\ (\A j \in DOMAIN r : Precedes(r[j].packet, f.packet))
                  => Ahead(r, Append(s, f))
           /\ \A r : Ahead(s, r) /\ (\A j \in DOMAIN r : Precedes(f.packet, r[j].packet))
                  => Ahead(Append(s, f), r)
           /\ \A d : PacketsAhead(d, s) /\ (\A j \in DOMAIN d : Precedes(d[j], f.packet))
                  => PacketsAhead(d, Append(s, f))
  <1> DEFINE t == Append(s, f)
  <1>1. /\ DOMAIN t = 1 .. Len(s) + 1 /\ DOMAIN s = 1 .. Len(s) /\ Len(s) \in Nat
        /\ t[Len(s) + 1] = f /\ \A k \in DOMAIN s : k \in DOMAIN t /\ t[k] = s[k]
    OBVIOUS
  <1>. HIDE DEF t
  <1>2. \A k \in DOMAIN t : (k = Len(s) + 1 /\ t[k] = f) \/ (k \in DOMAIN s /\ t[k] = s[k])
    BY <1>1
  <1>3. ASSUME Sorted(s), \A j \in DOMAIN s : Precedes(s[j].packet, f.packet)
        PROVE  Sorted(t)
    <2>1. SUFFICES ASSUME NEW j \in DOMAIN t, NEW k \in DOMAIN t, j < k
                   PROVE  Precedes(t[j].packet, t[k].packet)
      BY DEF Sorted
    <2>2. j \in DOMAIN s /\ t[j] = s[j]
      BY <1>1, <1>2, <2>1
    <2>3. CASE k \in DOMAIN s /\ t[k] = s[k]
      BY <1>3, <2>1, <2>2, <2>3 DEF Sorted
    <2>4. CASE t[k] = f
      BY <1>3, <2>2, <2>4
    <2>. QED
      BY <1>2, <2>3, <2>4
  <1>4. /\ \A r : Ahead(r, s) /\ (\A j \in DOMAIN r : Precedes(r[j].packet, f.packet))
               => Ahead(r, t)
        /\ \A r : Ahead(s, r) /\ (\A j \in DOMAIN r : Precedes(f.packet, r[j].packet))
               => Ahead(t, r)
    BY <1>2 DEF Ahead
  <1>5. \A d : PacketsAhead(d, s) /\ (\A j \in DOMAIN d : Precedes(d[j], f.packet))
               => PacketsAhead(d, t)
    BY <1>2 DEF PacketsAhead
  <1>. QED
    BY <1>3, <1>4, <1>5 DEF t

\* Whatever was sent before a new fragment is from an earlier packet or the same.
LEMMA SentInLine ==
    ASSUME IInv, SendInv, NEW p \in PacketId, NEW i \in Pieces(p), ~IsSent(p, i),
           NEW q \in PacketId, NEW j \in Pieces(q), IsSent(q, j)
    PROVE  Precedes(q, p)
  <1>1. SUFFICES ASSUME IsFragmented(p), IsFragmented(q), p[1] = q[1], ~(q[2] <= p[2])
                 PROVE  FALSE
    BY DEF Precedes
  <1>. PICK n \in Node, a \in Nat \ {0}, b \in Nat \ {0} :
           p = <<n, a>> /\ q = <<n, b>> /\ p[1] = n /\ p[2] = a /\ q[1] = n /\ q[2] = b
    BY <1>1, CounterType
  <1>. PICK s \in Seq(Waits), c \in Nat, x \in 0..15 :
           s = sendList[n] /\ c = sent[n] /\ x = messageCounter[n]
    BY BoardTypes
  <1>2. Queue(n, s, c, x)
    BY BoardTypes
  <1>3. i \in Nat /\ j \in Nat
    BY PieceRange
  <1>4. ~SentFrom(s, c, p, i) /\ SentFrom(s, c, q, j)
    BY DEF IsSent
  <1>5. b \in 1 .. c /\ a < b
    BY <1>1, <1>4 DEF SentFrom
  <1>6. PICK k \in DOMAIN s : s[k].packet = p
    BY <1>4, <1>5 DEF SentFrom
  <1>7. InList(s, b)
    BY <1>1, <1>2, <1>5, <1>6 DEF Queue, NothingSkipped
  <1>8. PICK l \in DOMAIN s : s[l].packet[2] = b
    BY <1>7 DEF InList
  <1>9. s[l].packet = q
    BY <1>2, <1>8, WaitTypes DEF Queue, InOrderOfCalls
  <1>10. j < s[l].fragmentIndex
    BY <1>4, <1>9 DEF SentFrom
  <1>11. l = 1
    BY <1>2, <1>3, <1>10 DEF Queue, InOrderOfCalls
  <1>12. 1 < k
    <2>1. k # l
      BY <1>5, <1>6, <1>8
    <2>. QED
      BY <1>11, <2>1
  <1>13. s[l].packet[2] < s[k].packet[2]
    BY <1>2, <1>11, <1>12 DEF Queue, InOrderOfCalls
  <1>. QED
    BY <1>5, <1>6, <1>8, <1>13

LEMMA LineInvInit == Init => LineInv
  <1>. SUFFICES ASSUME Init PROVE LineInv
    OBVIOUS
  <1>1. \A n \in Node : tx[n] = <<>> /\ rx[n] = <<>>
    BY DEF Init
  <1>2. \A n \in Node : DOMAIN Delivered(n) = {}
    BY DEF Init, Delivered
  <1>. QED
    BY <1>1, <1>2 DEF LineInv, Sorted, Ahead, SortedPackets, PacketsAhead

\* What is in a driver, is to be retrieved or was made available was sent.
LEMMA SentEverywhere ==
    ASSUME IInv, FlightInv
    PROVE  /\ \A n \in Node : \A k \in DOMAIN tx[n] :
                  \E q \in PacketId : \E j \in Pieces(q) : tx[n][k].packet = q /\ IsSent(q, j)
           /\ \A n \in Node : \A k \in DOMAIN rx[n] :
                  \E q \in PacketId : \E j \in Pieces(q) : rx[n][k].packet = q /\ IsSent(q, j)
           /\ \A n \in Node : \A k \in DOMAIN Delivered(n) :
                  /\ Delivered(n)[k] \in PacketId
                  /\ \E j \in Pieces(Delivered(n)[k]) : IsSent(Delivered(n)[k], j)
  <1>1. FramesGenuine /\ OnePlace /\ DeliveredOnce
    BY DEF FlightInv
  <1>2. ASSUME NEW n \in Node, NEW k \in DOMAIN tx[n]
        PROVE  \E q \in PacketId : \E j \in Pieces(q) : tx[n][k].packet = q /\ IsSent(q, j)
    <2>1. Genuine(tx[n][k]) /\ tx[n][k].packet[1] = n
      BY <1>1 DEF FramesGenuine, TxFrames
    <2>2. PICK q \in PacketId : q = tx[n][k].packet
      BY <2>1 DEF Genuine
    <2>3. PICK j \in Pieces(q) : j = tx[n][k].piece
      BY <2>1, <2>2 DEF Genuine
    <2>4. At(tx[q[1]], q, j)
      BY <2>1, <2>2, <2>3 DEF At
    <2>. QED
      BY <1>1, <2>2, <2>4 DEF OnePlace
  <1>3. ASSUME NEW n \in Node, NEW k \in DOMAIN rx[n]
        PROVE  \E q \in PacketId : \E j \in Pieces(q) : rx[n][k].packet = q /\ IsSent(q, j)
    <2>1. Genuine(rx[n][k])
      BY <1>1 DEF FramesGenuine, RxFrames
    <2>2. PICK q \in PacketId : q = rx[n][k].packet
      BY <2>1 DEF Genuine
    <2>3. PICK j \in Pieces(q) : j = rx[n][k].piece
      BY <2>1, <2>2 DEF Genuine
    <2>4. At(rx[n], q, j)
      BY <2>2, <2>3 DEF At
    <2>. QED
      BY <1>1, <2>2, <2>4 DEF OnePlace
  <1>4. ASSUME NEW n \in Node, NEW k \in DOMAIN Delivered(n)
        PROVE  /\ Delivered(n)[k] \in PacketId
               /\ \E j \in Pieces(Delivered(n)[k]) : IsSent(Delivered(n)[k], j)
    <2>1. PICK q \in PacketId : q = Delivered(n)[k]
      BY <1>1 DEF DeliveredOnce
    <2>2. 0 \in Pieces(q) /\ Got(n, q, 0)
      BY <2>1, PieceRange DEF Got, IsDelivered
    <2>. QED
      BY <1>1, <2>1, <2>2 DEF OnePlace
  <1>. QED
    BY <1>2, <1>3, <1>4

\* sendPacket and sendWaitingMessages: the new frame comes last.
LEMMA SendLine ==
    ASSUME SizesFit, IInv, SendInv, FlightInv, LineInv, NEW n \in Node,
           SendsPiece(n) \/ UNCHANGED tx, DeliversNothing, UNCHANGED rx
    PROVE  LineInv'
  <1>1. CASE UNCHANGED tx
    BY <1>1 DEF LineInv, Sorted, Ahead, SortedPackets, PacketsAhead, DeliversNothing
  <1>2. CASE SendsPiece(n)
    <2>1. PICK p \in PacketId : \E i \in Pieces(p) :
             ~IsSent(p, i) /\ tx' = [tx EXCEPT ![n] = Append(@, FrameOf(p, i))]
      BY <1>2 DEF SendsPiece
    <2>2. PICK i \in Pieces(p) :
             ~IsSent(p, i) /\ tx' = [tx EXCEPT ![n] = Append(@, FrameOf(p, i))]
      BY <2>1
    <2>3. PICK f \in Frame : f = FrameOf(p, i)
      BY FrameOfType
    <2>4. f.packet = p
      BY <2>3, FrameOfFields
    <2>5. /\ tx[n] \in Seq(Frame) /\ tx'[n] = Append(tx[n], f)
          /\ \A m \in Node : m # n => tx'[m] = tx[m]
      BY <2>2, <2>3, FlightTypes
    <2>6. /\ \A k \in DOMAIN tx[n] : Precedes(tx[n][k].packet, p)
          /\ \A m \in Node : \A k \in DOMAIN rx[m] : Precedes(rx[m][k].packet, p)
          /\ \A m \in Node : \A k \in DOMAIN Delivered(m) : Precedes(Delivered(m)[k], p)
      BY <2>2, SentEverywhere, SentInLine
    <2>7. /\ Sorted(tx'[n])
          /\ \A m \in Node : Ahead(rx[m], tx'[n]) /\ PacketsAhead(Delivered(m), tx'[n])
      BY <2>4, <2>5, <2>6, AppendInLine DEF LineInv
    <2>8. /\ \A m \in Node : Delivered(m)' = Delivered(m)
          /\ \A m, l \in Node : Sorted(tx'[l]) /\ Ahead(rx[m], tx'[l])
                                /\ PacketsAhead(Delivered(m), tx'[l])
      BY <2>5, <2>7 DEF LineInv, DeliversNothing
    <2>. QED
      BY <2>8 DEF LineInv
  <1>. QED
    BY <1>1, <1>2

LEMMA OtherBoards ==
    ASSUME NEW p, NEW q, p[1] # q[1]
    PROVE  Precedes(p, q)
  BY DEF Precedes

\* The oldest frame of a driver that keeps the order goes to the other boards.
LEMMA TransmitLine ==
    ASSUME InOrder, IInv, FlightInv, LineInv, NEW n \in Node, NEW k \in DOMAIN tx[n],
           Transmit(n, k)
    PROVE  LineInv'
  <1>1. k = 1 /\ UNCHANGED receiver
    BY DEF Transmit
  <1>2. \A m \in Node : Delivered(m)' = Delivered(m)
    BY <1>1, ReceiverUnchanged
  <1>3. PICK f \in Frame : f = tx[n][1]
    BY <1>1, FlightTypes
  <1>4. PICK missed \in SUBSET (Node \ {n}) :
           rx' = [m \in Node |-> IF m \in missed \cup {n} THEN rx[m] ELSE Append(rx[m], f)]
    BY <1>1, <1>3 DEF Transmit
  <1>5. /\ IsRest(tx'[n], tx[n]) /\ 1 \in DOMAIN tx[n] /\ tx[n] \in Seq(Frame)
        /\ \A l \in Node : l # n => tx'[l] = tx[l]
    <2>1. /\ tx'[n] = RemoveAt(tx[n], 1) /\ tx[n] \in Seq(Frame) /\ 1 \in DOMAIN tx[n]
          /\ \A l \in Node : l # n => tx'[l] = tx[l]
      BY <1>1, FlightTypes DEF Transmit
    <2>2. PICK t : t = RemoveAt(tx[n], 1)
      OBVIOUS
    <2>3. NoCopies(tx[n])
      BY DEF FlightInv, FramesGenuine, TxFrames
    <2>4. \A j \in DOMAIN t : /\ t[j] = tx[n][IF j < 1 THEN j ELSE j + 1]
                              /\ (IF j < 1 THEN j ELSE j + 1) \in DOMAIN tx[n]
      BY <2>1, <2>2, <2>3, RemoveFrames
    <2>5. \A j \in DOMAIN t : j \in Nat \ {0}
      <3>1. t \in Seq(Frame)
        BY <2>1, <2>2, RemoveFrame
      <3>. QED
        BY <3>1
    <2>6. IsRest(t, tx[n])
      BY <2>4, <2>5 DEF IsRest
    <2>. QED
      BY <2>1, <2>2, <2>6
  <1>6. /\ Sorted(tx'[n]) /\ \A j \in DOMAIN tx'[n] : Precedes(f.packet, tx'[n][j].packet)
        /\ \A m \in Node : Ahead(rx[m], tx'[n]) /\ PacketsAhead(Delivered(m), tx'[n])
    BY <1>3, <1>5, RestInLine DEF LineInv
  <1>7. \A l \in Node : l # n =>
            \A j \in DOMAIN tx[l] : Precedes(f.packet, tx[l][j].packet)
    <2>1. f.packet[1] = n
      BY <1>3, <1>5 DEF FlightInv, FramesGenuine, TxFrames
    <2>2. \A l \in Node : \A j \in DOMAIN tx[l] : tx[l][j].packet[1] = l
      BY DEF FlightInv, FramesGenuine, TxFrames
    <2>. QED
      BY <2>1, <2>2, OtherBoards
  <1>8. \A l \in Node :
           /\ Sorted(tx'[l]) /\ \A j \in DOMAIN tx'[l] : Precedes(f.packet, tx'[l][j].packet)
           /\ \A m \in Node : Ahead(rx[m], tx'[l]) /\ PacketsAhead(Delivered(m), tx'[l])
    BY <1>5, <1>6, <1>7 DEF LineInv
  <1>9. ASSUME NEW m \in Node
        PROVE  /\ Sorted(rx'[m]) /\ PacketsAhead(Delivered(m), rx'[m])
               /\ \A l \in Node : Ahead(rx'[m], tx'[l])
    <2>1. /\ rx[m] \in Seq(Frame) /\ Sorted(rx[m]) /\ PacketsAhead(Delivered(m), rx[m])
          /\ \A j \in DOMAIN rx[m] : Precedes(rx[m][j].packet, f.packet)
          /\ \A j \in DOMAIN Delivered(m) : Precedes(Delivered(m)[j], f.packet)
      BY <1>3, <1>5, FlightTypes DEF LineInv, Ahead, PacketsAhead
    <2>2. rx'[m] = rx[m] \/ rx'[m] = Append(rx[m], f)
      BY <1>4
    <2>. QED
      BY <1>8, <2>1, <2>2, AppendInLine
  <1>. QED
    BY <1>2, <1>8, <1>9 DEF LineInv

\* A frame is retrieved; when it completes a packet, the packet is its own.
LEMMA RetrieveLine ==
    ASSUME IInv, FlightInv, LineInv, NEW n \in Node, Retrieve(n),
           \/ DeliversNothing
           \/ Delivers(n, Head(rx[n]).packet)
    PROVE  LineInv'
  <1>1. /\ rx[n] \in Seq(Frame) /\ rx[n] # <<>> /\ rx'[n] = Tail(rx[n])
        /\ \A m \in Node : m # n => rx'[m] = rx[m]
        /\ UNCHANGED tx
    BY FlightTypes DEF Retrieve
  <1>2. /\ IsRest(rx'[n], rx[n]) /\ 1 \in DOMAIN rx[n] /\ Head(rx[n]) = rx[n][1]
    BY <1>1 DEF IsRest
  <1>3. PICK p \in PacketId : p = rx[n][1].packet
    BY <1>1, <1>2, OldestFrame
  <1>4. /\ Sorted(rx'[n]) /\ \A j \in DOMAIN rx'[n] : Precedes(p, rx'[n][j].packet)
        /\ \A l \in Node : Ahead(rx'[n], tx[l]) /\ PacketsAhead(Delivered(n), rx'[n])
    BY <1>1, <1>2, <1>3, RestInLine DEF LineInv
  <1>5. /\ \A l \in Node : \A j \in DOMAIN tx[l] : Precedes(p, tx[l][j].packet)
        /\ \A j \in DOMAIN Delivered(n) : Precedes(Delivered(n)[j], p)
    BY <1>2, <1>3 DEF LineInv, Ahead, PacketsAhead
  <1>6. /\ SortedPackets(Delivered(n)') /\ PacketsAhead(Delivered(n)', rx'[n])
        /\ \A l \in Node : PacketsAhead(Delivered(n)', tx[l])
    <2>. PICK d \in Seq(PacketId \cup {Nothing}) : d = Delivered(n)
      BY DeliveredSteps DEF IInv
    <2>1. /\ SortedPackets(d) /\ PacketsAhead(d, rx'[n])
          /\ \A l \in Node : PacketsAhead(d, tx[l])
      BY <1>4 DEF LineInv
    <2>2. CASE Delivered(n)' = d
      BY <2>1, <2>2
    <2>3. CASE Delivered(n)' = Append(d, p)
      <3>. PICK e : e = Append(d, p)
        OBVIOUS
      <3>1. /\ DOMAIN e = 1 .. Len(d) + 1 /\ DOMAIN d = 1 .. Len(d) /\ Len(d) \in Nat
            /\ e[Len(d) + 1] = p /\ \A k \in DOMAIN d : k \in DOMAIN e /\ e[k] = d[k]
        OBVIOUS
      <3>2. \A k \in DOMAIN e : (k = Len(d) + 1 /\ e[k] = p) \/ (k \in DOMAIN d /\ e[k] = d[k])
        BY <3>1
      <3>3. SortedPackets(e)
        <4>1. SUFFICES ASSUME NEW j \in DOMAIN e, NEW k \in DOMAIN e, j < k
                       PROVE  Precedes(e[j], e[k])
          BY DEF SortedPackets
        <4>2. j \in DOMAIN d /\ e[j] = d[j]
          BY <3>1, <3>2, <4>1
        <4>. QED
          BY <1>5, <2>1, <3>2, <4>1, <4>2 DEF SortedPackets
      <3>4. /\ PacketsAhead(e, rx'[n])
            /\ \A l \in Node : PacketsAhead(e, tx[l])
        BY <1>4, <1>5, <2>1, <3>2 DEF PacketsAhead
      <3>. QED
        BY <2>3, <3>3, <3>4
    <2>. QED
      BY <1>2, <1>3, <2>2, <2>3 DEF DeliversNothing, Delivers
  <1>7. \A m \in Node : m # n => Delivered(m)' = Delivered(m)
    BY DEF DeliversNothing, Delivers
  <1>8. ASSUME NEW m \in Node
        PROVE  /\ Sorted(rx'[m]) /\ SortedPackets(Delivered(m)')
               /\ PacketsAhead(Delivered(m)', rx'[m])
               /\ \A l \in Node : Ahead(rx'[m], tx[l]) /\ PacketsAhead(Delivered(m)', tx[l])
    BY <1>1, <1>4, <1>6, <1>7 DEF LineInv
  <1>. QED
    BY <1>1, <1>8 DEF LineInv

LEMMA LineStep ==
    ASSUME DistinctKeys, SizesFit, MaxWarnings = 0, InOrder, ChannelInv, LineInv, [Next]_vars
    PROVE  LineInv'
  <1>1. IInv /\ SendInv /\ FlightInv
    BY DEF ChannelInv
  <1>2. CASE UNCHANGED vars
    <2>1. DeliversNothing /\ UNCHANGED <<tx, rx>>
      BY <1>1, <1>2, StutterFlight DEF vars
    <2>. QED
      BY <2>1 DEF LineInv, DeliversNothing
  <1>3. ASSUME NEW n \in Node, SendDirectly(n) \/ SendLater(n)
        PROVE  LineInv'
    <2>1. (SendsPiece(n) \/ UNCHANGED tx) /\ UNCHANGED <<receiver, rx>>
      BY <1>1, <1>3, SendPacketBoard
    <2>2. DeliversNothing
      BY <2>1, ReceiverUnchanged DEF DeliversNothing
    <2>. QED
      BY <1>1, <2>1, <2>2, SendLine
  <1>4. ASSUME NEW n \in Node, DropWaiting(n) \/ SendShort(n) \/ SendFragment(n)
        PROVE  LineInv'
    <2>1. SendsPiece(n) /\ UNCHANGED <<receiver, rx>>
      BY <1>1, <1>4, SendWaitingBoard
    <2>2. DeliversNothing
      BY <2>1, ReceiverUnchanged DEF DeliversNothing
    <2>. QED
      BY <1>1, <2>1, <2>2, SendLine
  <1>5. ASSUME NEW n \in Node, RetrieveShort(n) \/ RetrieveIllegal(n) \/ RetrieveFragment(n)
        PROVE  LineInv'
    <2>1. Retrieve(n)
      BY <1>5 DEF RetrieveShort, RetrieveIllegal, RetrieveFragment
    <2>2. DeliversNothing \/ Delivers(n, Head(rx[n]).packet)
      BY <1>1, <1>5, RetrieveFlight
    <2>. QED
      BY <1>1, <2>1, <2>2, RetrieveLine
  <1>6. ASSUME NEW n \in Node, DropPacket(n)
        PROVE  LineInv'
    <2>1. DeliversNothing /\ UNCHANGED <<tx, rx>>
      BY <1>1, <1>6, DropFlight DEF DropPacket
    <2>. QED
      BY <2>1 DEF LineInv, DeliversNothing
  <1>7. ASSUME NEW n \in Node, NEW k \in DOMAIN tx[n], Transmit(n, k)
        PROVE  LineInv'
    BY <1>1, <1>7, TransmitLine
  <1>8. ASSUME NEW n \in Node
        PROVE  ~Warn(n) /\ ~Recover(n)
    <2>1. warnings \in 0 .. MaxWarnings
      BY <1>1 DEF IInv, TypeOK
    <2>. QED
      BY <1>1, <2>1 DEF Warn, Recover, SendInv
  <1>9. CASE Next
    <2>1. PICK n \in Node :
             \/ SendDirectly(n) \/ SendLater(n) \/ Update(n) \/ DropPacket(n)
             \/ \E k \in DOMAIN tx[n] : Transmit(n, k)
             \/ Warn(n) \/ Recover(n)
      BY <1>9 DEF Next
    <2>. QED
      BY <1>3, <1>4, <1>5, <1>6, <1>7, <1>8, <2>1 DEF Update
  <1>. QED
    BY <1>2, <1>9

\* Fragmented packets of a board become available elsewhere in the order of sendPacket
\* when the driver transmits its frames in order, whatever frames are lost; the short
\* ones may pass them (connector_impl.hpp:81).  Under the hypotheses of ChannelAlways.
THEOREM AlwaysInOrder ==
    ASSUME DistinctKeys, SizesFit, MaxWarnings = 0, InOrder PROVE Spec => []FragmentedInOrder
  <1>1. ASSUME ChannelInv, LineInv PROVE FragmentedInOrder
    <2>1. SUFFICES ASSUME NEW n \in Node,
                          NEW i \in DOMAIN Delivered(n), NEW j \in DOMAIN Delivered(n),
                          i < j, Delivered(n)[i][1] = Delivered(n)[j][1],
                          IsFragmented(Delivered(n)[i]), IsFragmented(Delivered(n)[j])
                   PROVE  Delivered(n)[i][2] < Delivered(n)[j][2]
      BY DEF FragmentedInOrder
    <2>2. PICK p \in PacketId, q \in PacketId : p = Delivered(n)[i] /\ q = Delivered(n)[j]
      BY <1>1 DEF ChannelInv, FlightInv, DeliveredOnce
    <2>3. p[2] <= q[2]
      BY <1>1, <2>1, <2>2 DEF LineInv, SortedPackets, Precedes
    <2>4. p # q
      <3>1. i \in Nat /\ j \in Nat /\ i # j
        <4>1. Delivered(n) \in Seq(PacketId \cup {Nothing})
          BY <1>1, DeliveredSteps DEF ChannelInv, IInv
        <4>. QED
          BY <2>1, <4>1
      <3>. QED
        BY <1>1, <2>2, <3>1 DEF ChannelInv, FlightInv, DeliveredOnce
    <2>5. p[2] # q[2]
      <3>1. p = <<p[1], p[2]>> /\ q = <<q[1], q[2]>>
        BY CounterType
      <3>. QED
        BY <2>1, <2>2, <2>4, <3>1
    <2>6. p[2] \in Nat /\ q[2] \in Nat
      BY CounterType
    <2>. QED
      BY <2>2, <2>3, <2>5, <2>6
  <1>2. ChannelInv /\ LineInv => FragmentedInOrder
    BY <1>1
  <1>3. ChannelInv /\ LineInv /\ [Next]_vars => LineInv'
    BY LineStep
  <1>. QED
    BY LineInvInit, <1>2, <1>3, ChannelAlways, PTL DEF Spec
=============================================================================
