----------------------------- MODULE RprProofs -----------------------------
(***************************************************************************)
(* Proofs about Rpr, for any ring, messages, callbacks and bounds.         *)
(***************************************************************************)
EXTENDS Rpr, FiniteSetTheorems, FunctionTheorems, SequenceTheorems, TLAPS

-----------------------------------------------------------------------------
(* The ring and the parts of frames                                        *)

LEMMA PrecedingStation ==
    ASSUME NEW n \in Station
    PROVE  Preceding(n) \in Station /\ Following[Preceding(n)] = n
  BY RingAssumption DEF Preceding

LEMMA PartsOfFrame ==
    ASSUME NEW m \in Message
    PROVE  Frame[m] = <<Start, Header(m), Payload(m), Check(m), End>>
  BY DEF Frame

LEMMA FiveInSequence ==
    ASSUME NEW S, NEW a \in S, NEW b \in S, NEW c \in S, NEW d \in S, NEW e \in S
    PROVE  <<a, b, c, d, e>> \in Seq(S)
  OBVIOUS

LEMMA PartSets ==
    /\ Start \in Part /\ End \in Part /\ Torn \in Part /\ MisreadHeaders \subseteq Part
    /\ \A m \in Message : ToSet(Frame[m]) \subseteq Part
    /\ \A x \in Part :
           \/ x = Start \/ x = End \/ x \in MisreadHeaders \/ x = Torn
           \/ \E m \in Message : x \in ToSet(Frame[m])
  <1>. DEFINE F == UNION {ToSet(Frame[m]) : m \in Message}
  <1>. PICK s, e, t, M : s = Start /\ e = End /\ t = Torn /\ M = MisreadHeaders
    OBVIOUS
  <1>1. Part = F \cup {s, e} \cup M \cup {t}
    BY DEF Part
  <1>2. \A x \in F : \E m \in Message : x \in ToSet(Frame[m])
    OBVIOUS
  <1>3. \A m \in Message : ToSet(Frame[m]) \subseteq F
    OBVIOUS
  <1>. HIDE DEF F
  <1>. QED
    BY <1>1, <1>2, <1>3

LEMMA PartKinds ==
    /\ \A m \in Message : Frame[m] \in Seq(Part)
    /\ \A x \in Part :
           \/ x = Start \/ x = End \/ x \in MisreadHeaders \/ x = Torn
           \/ \E m \in Message : x = Header(m) \/ x = Payload(m) \/ x = Check(m)
  <1>1. ASSUME NEW m \in Message
        PROVE  Frame[m] \in Seq(Part)
    <2>1. ToSet(Frame[m]) \subseteq Part
      BY PartSets
    <2>2. \A k \in 1..5 : Frame[m][k] \in ToSet(Frame[m])
      BY PartsOfFrame DEF ToSet
    <2>3. /\ Start \in Part /\ Header(m) \in Part /\ Payload(m) \in Part
          /\ Check(m) \in Part /\ End \in Part
      <3>1. /\ Frame[m][1] = Start /\ Frame[m][2] = Header(m) /\ Frame[m][3] = Payload(m)
            /\ Frame[m][4] = Check(m) /\ Frame[m][5] = End
        BY PartsOfFrame
      <3>2. /\ Frame[m][1] \in Part /\ Frame[m][2] \in Part /\ Frame[m][3] \in Part
            /\ Frame[m][4] \in Part /\ Frame[m][5] \in Part
        BY <2>1, <2>2
      <3>. QED
        BY <3>1, <3>2
    <2>. QED
      BY <2>3, PartsOfFrame, FiveInSequence
  <1>2. ASSUME NEW x \in Part
        PROVE  \/ x = Start \/ x = End \/ x \in MisreadHeaders \/ x = Torn
               \/ \E m \in Message : x = Header(m) \/ x = Payload(m) \/ x = Check(m)
    <2>. SUFFICES ASSUME ~(x = Start \/ x = End \/ x \in MisreadHeaders \/ x = Torn)
                  PROVE  \E m \in Message : x = Header(m) \/ x = Payload(m) \/ x = Check(m)
      OBVIOUS
    <2>1. PICK m \in Message : x \in ToSet(Frame[m])
      BY PartSets
    <2>2. PICK k \in 1..5 : x = Frame[m][k]
      BY <2>1, PartsOfFrame DEF ToSet
    <2>. QED
      BY <2>2, PartsOfFrame
  <1>. QED
    BY <1>1, <1>2

\* What tells the parts apart.
LEMMA PartFields ==
    /\ Start.part = "start" /\ End.part = "end"
    /\ Torn.part = "torn" /\ Torn.size = 1
    /\ \A x \in MisreadHeaders : x.part = "misread" /\ x.size = 4
    /\ \A m \in Message :
           /\ Header(m).part = "header" /\ Header(m).size = 4
           /\ Header(m).source = Address[Source[m]] /\ Header(m).destination = Wire(m)
           /\ Payload(m).part = "payload" /\ Payload(m).size = 1 /\ Payload(m).value = m
           /\ Check(m).part = "check" /\ Check(m).size = 2
           /\ Check(m).value = <<Header(m), Payload(m)>>
  BY DEF Start, End, Header, Payload, Check, Torn, MisreadHeaders

LEMMA PartSize ==
    ASSUME NEW x \in Part, x.part \notin {"start", "end"}
    PROVE  x.size \in Nat
  BY PartKinds, PartFields

LEMMA CrcMessage ==
    ASSUME NEW parts \in Seq(Part), CrcOk(parts)
    PROVE  \E m \in Message : parts = <<Header(m), Payload(m), Check(m)>>
  <1>0. Len(parts) = 3 /\ parts[3].part = "check"
    BY DEF CrcOk
  <1>1. parts[3] \in Part
    <2>1. Len(parts) = 3 /\ \A i \in 1 .. Len(parts) : parts[i] \in Part
      BY <1>0, SMTT(30)
    <2>2. 3 \in 1 .. Len(parts)
      BY <2>1
    <2>. QED
      BY <2>1, <2>2
  <1>2. PICK m \in Message : parts[3] = Check(m)
    BY <1>0, <1>1, PartKinds, PartFields
  <1>3. SubSeq(parts, 1, 2) = <<Header(m), Payload(m)>>
    <2>1. SubSeq(parts, 1, 2) = parts[3].value
      BY DEF CrcOk
    <2>2. parts[3].value = <<Header(m), Payload(m)>>
      BY <1>2, PartFields
    <2>. QED
      BY <2>1, <2>2
  <1>4. SubSeq(parts, 1, 2)[1] = parts[1] /\ SubSeq(parts, 1, 2)[2] = parts[2]
    BY <1>0, SubSeqProperties
  <1>5. parts[1] = Header(m) /\ parts[2] = Payload(m)
    <2>. PICK h, p : h = Header(m) /\ p = Payload(m)
      OBVIOUS
    <2>1. <<h, p>>[1] = h /\ <<h, p>>[2] = p
      OBVIOUS
    <2>. QED
      BY <1>3, <1>4, <2>1
  <1>6. parts = <<parts[1], parts[2], parts[3]>>
    BY <1>0
  <1>. QED
    BY <1>2, <1>5, <1>6

-----------------------------------------------------------------------------
(* Types                                                                   *)

Kind == MessageType \cup {"ANY"}
Origins == {0} \cup {x.source : x \in Part}
Received == [type : Kind, source : Origins, message : Message]

\* What a station keeps of frames is made of their parts.
TypeInv ==
    /\ TypeOK
    /\ receiveBuffer \in [Station -> [type : Kind, source : Origins]]
    /\ crc \in [Station -> Seq(Part)]
    /\ receivedMessages \in [Station -> Seq(Received)]
    /\ messagesToSend \in [Station -> Seq(Message)]
    /\ todo \in [Station -> Seq(Message)]
    /\ sent \in [Station -> Seq(Message)]
    /\ written \in [Station -> Seq(Message)]
    /\ handled \in [Station -> Seq(Message)]

LEMMA TypeInvInit == Init => TypeInv
  <1>. SUFFICES ASSUME Init PROVE TypeInv
    OBVIOUS
  <1>1. 0 \in 0 .. MaxLosses /\ QueueSize \in Nat /\ 0 <= QueueSize
    BY BoundAssumption
  <1>2. todo \in [Station -> Seq(Message)]
    BY MessageAssumption DEF Init
  <1>3. Idle \in [start : BOOLEAN, end : BOOLEAN, destination : BOOLEAN, source : BOOLEAN]
    BY DEF Idle
  <1>4. \A n \in Station : /\ receiveBuffer[n].type = "ANY"
                           /\ messagesToSend[n] = <<>> /\ receivedMessages[n] = <<>>
                           /\ handled[n] = <<>> /\ sent[n] = <<>> /\ written[n] = <<>>
                           /\ todo[n] \in Seq(Message)
    BY <1>2 DEF Init
  <1>5. TypeOK
    BY <1>1, <1>3, <1>4 DEF Init, TypeOK, MessageType
  <1>. QED
    BY <1>2, <1>5 DEF Init, TypeInv, Kind, Origins

\* sendMessage, called by the program of n with a message of its own.
LEMMA SendType ==
    ASSUME TypeInv, NEW n \in Station, SendOwn(n)
    PROVE  /\ link' \in [Station -> Seq(Part)]
           /\ messagesToSend' \in [Station -> Seq(Message)]
           /\ \A p \in Station : Len(messagesToSend'[p]) <= QueueSize
           /\ todo' \in [Station -> Seq(Message)]
           /\ sent' \in [Station -> Seq(Message)]
           /\ written' \in [Station -> Seq(Message)]
  <1>1. /\ todo \in [Station -> Seq(Message)] /\ messagesToSend \in [Station -> Seq(Message)]
        /\ sent \in [Station -> Seq(Message)] /\ written \in [Station -> Seq(Message)]
        /\ link \in [Station -> Seq(Part)]
        /\ \A p \in Station : Len(messagesToSend[p]) <= QueueSize
        /\ QueueSize \in Nat
    BY BoundAssumption DEF TypeInv, TypeOK
  <1>2. PICK m \in Message : m = Head(todo[n]) /\ SendMessage(n, m)
    BY <1>1 DEF SendOwn
  <1>3. todo' \in [Station -> Seq(Message)]
    BY <1>1 DEF SendOwn
  <1>4. CASE Enqueue(n, m)
    <2>1. /\ messagesToSend' = [messagesToSend EXCEPT ![n] = Append(@, m)]
          /\ sent' = [sent EXCEPT ![n] = Append(@, m)] /\ UNCHANGED <<link, written>>
          /\ Len(messagesToSend[n]) < QueueSize
      BY <1>4 DEF Enqueue
    <2>. QED
      BY <1>1, <1>3, <2>1
  <1>5. CASE Refuse(n, m)
    BY <1>1, <1>3, <1>5 DEF Refuse
  <1>6. CASE SendNow(n, m)
    <2>1. /\ messagesToSend' = [messagesToSend EXCEPT ![n] = PopMessage(@)]
          /\ sent' = [sent EXCEPT ![n] = Append(@, m)]
          /\ written' = [written EXCEPT ![n] = Append(@, m)]
          /\ link' = [link EXCEPT ![n] = @ \o Frame[m]]
      BY <1>6 DEF SendNow, WriteMessage, Written
    <2>2. PopMessage(messagesToSend[n]) \in Seq(Message)
          /\ Len(PopMessage(messagesToSend[n])) <= QueueSize
      BY <1>1 DEF PopMessage
    <2>3. /\ messagesToSend' \in [Station -> Seq(Message)]
          /\ \A p \in Station : Len(messagesToSend'[p]) <= QueueSize
      BY <1>1, <2>1, <2>2
    <2>4. link[n] \o Frame[m] \in Seq(Part)
      BY <1>1, PartKinds
    <2>. QED
      BY <1>1, <1>3, <2>1, <2>3, <2>4
  <1>. QED
    BY <1>2, <1>4, <1>5, <1>6 DEF SendMessage

LEMMA BeginUpdateType ==
    ASSUME TypeInv, NEW n \in Station, BeginUpdate(n)
    PROVE  /\ link' \in [Station -> Seq(Part)]
           /\ messagesToSend' \in [Station -> Seq(Message)]
           /\ \A p \in Station : Len(messagesToSend'[p]) <= QueueSize
           /\ written' \in [Station -> Seq(Message)]
           /\ updating' \in [Station -> BOOLEAN]
  <1>1. /\ messagesToSend \in [Station -> Seq(Message)]
        /\ written \in [Station -> Seq(Message)]
        /\ link \in [Station -> Seq(Part)] /\ updating \in [Station -> BOOLEAN]
        /\ \A p \in Station : Len(messagesToSend[p]) <= QueueSize
        /\ QueueSize \in Nat
    BY BoundAssumption DEF TypeInv, TypeOK
  <1>2. updating' \in [Station -> BOOLEAN]
    BY <1>1 DEF BeginUpdate
  <1>3. CASE MessageWaits(n)
    <2>1. PICK m \in Message : m = Head(messagesToSend[n])
      BY <1>1, <1>3 DEF MessageWaits
    <2>2. /\ messagesToSend' =
                 [messagesToSend EXCEPT ![n] = PopMessage(PopMessage(@))]
          /\ written' = [written EXCEPT ![n] = Append(@, m)]
          /\ link' = [link EXCEPT ![n] = @ \o Frame[m]]
      BY <1>3, <2>1 DEF BeginUpdate, WriteMessage, Written
    <2>3. ASSUME NEW q \in Seq(Message), Len(q) <= QueueSize
          PROVE  PopMessage(q) \in Seq(Message) /\ Len(PopMessage(q)) <= QueueSize
      BY <1>1, <2>3 DEF PopMessage
    <2>4. /\ PopMessage(PopMessage(messagesToSend[n])) \in Seq(Message)
          /\ Len(PopMessage(PopMessage(messagesToSend[n]))) <= QueueSize
      BY <1>1, <2>3
    <2>5. /\ messagesToSend' \in [Station -> Seq(Message)]
          /\ \A p \in Station : Len(messagesToSend'[p]) <= QueueSize
      BY <1>1, <2>2, <2>4
    <2>6. link[n] \o Frame[m] \in Seq(Part)
      BY <1>1, PartKinds
    <2>. QED
      BY <1>1, <1>2, <2>2, <2>5, <2>6
  <1>4. CASE ~MessageWaits(n)
    BY <1>1, <1>2, <1>4 DEF BeginUpdate
  <1>. QED
    BY <1>3, <1>4

\* update takes a byte from one wire and writes what it passes on to the other.
LEMMA ReadLink ==
    ASSUME link \in [Station -> Seq(Part)], NEW n \in Station,
           NEW out \in Seq(Part), link[Preceding(n)] # <<>>, Read(n, out)
    PROVE  /\ link' \in [Station -> Seq(Part)]
           /\ NextByte(n) \in Part
  <1>. PICK p \in Station : p = Preceding(n)
    BY PrecedingStation
  <1>1. Tail(link[p]) \in Seq(Part) /\ Head(link[p]) \in Part
    OBVIOUS
  <1>. PICK rest \in [Station -> Seq(Part)] : rest = [link EXCEPT ![p] = Tail(@)]
    BY <1>1
  <1>2. link' = [rest EXCEPT ![n] = @ \o out]
    BY DEF Read
  <1>3. rest[n] \o out \in Seq(Part)
    OBVIOUS
  <1>. QED
    BY <1>1, <1>2, <1>3 DEF NextByte

\* The flags that update sets.
LEMMA StatusType ==
    ASSUME NEW n \in Station, NEW a \in BOOLEAN, NEW b \in BOOLEAN,
           status \in [Station -> [start : BOOLEAN, end : BOOLEAN,
                                   destination : BOOLEAN, source : BOOLEAN]]
    PROVE  /\ [status EXCEPT ![n].start = a, ![n].end = b] \in
                  [Station -> [start : BOOLEAN, end : BOOLEAN,
                               destination : BOOLEAN, source : BOOLEAN]]
           /\ [status EXCEPT ![n].destination = a, ![n].source = b] \in
                  [Station -> [start : BOOLEAN, end : BOOLEAN,
                               destination : BOOLEAN, source : BOOLEAN]]
  OBVIOUS

LEMMA ReceivedType ==
    ASSUME TypeInv, NEW n \in Station, IsForMe(n)
    PROVE  ReceivedMessage(n) \in Received
  <1>1. crc[n] \in Seq(Part) /\ receiveBuffer[n] \in [type : Kind, source : Origins]
    BY DEF TypeInv
  <1>2. PICK m \in Message : crc[n] = <<Header(m), Payload(m), Check(m)>>
    BY <1>1, CrcMessage DEF IsForMe
  <1>3. crc[n][2] = Payload(m)
    <2>. PICK h, p, c : h = Header(m) /\ p = Payload(m) /\ c = Check(m)
      OBVIOUS
    <2>1. <<h, p, c>>[2] = p
      OBVIOUS
    <2>. QED
      BY <1>2, <2>1
  <1>4. crc[n][2].value = m
    BY <1>3, PartFields
  <1>. QED
    BY <1>1, <1>4 DEF ReceivedMessage, Received

\* What one round of the loop of update leaves alone.
LEMMA ReadType ==
    ASSUME TypeInv, NEW n \in Station, link[Preceding(n)] # <<>>, NEW out \in Seq(Part),
           Read(n, out),
           updating' \in [Station -> BOOLEAN],
           status' \in [Station -> [start : BOOLEAN, end : BOOLEAN,
                                    destination : BOOLEAN, source : BOOLEAN]],
           length' \in [Station -> Nat],
           receiveBuffer' \in [Station -> [type : Kind, source : Origins]],
           crc' \in [Station -> Seq(Part)],
           receivedMessages' \in [Station -> Seq(Received)],
           \A p \in Station : Len(receivedMessages'[p]) <= QueueSize
    PROVE  TypeInv'
  <1>1. link' \in [Station -> Seq(Part)]
    BY ReadLink DEF TypeInv, TypeOK
  <1>2. UNCHANGED <<messagesToSend, todo, losses, sent, written, handled>>
    BY DEF Read
  <1>3. TypeOK'
    BY <1>1, <1>2 DEF TypeInv, TypeOK, Kind
  <1>. QED
    BY <1>2, <1>3 DEF TypeInv

LEMMA ReadByteType ==
    ASSUME TypeInv, NEW n \in Station, ReadByte(n)
    PROVE  TypeInv'
  <1>1. link[Preceding(n)] # <<>>
    BY DEF ReadByte
  <1>2. NextByte(n) \in Part
    <2>1. link[Preceding(n)] \in Seq(Part)
      BY PrecedingStation DEF TypeInv, TypeOK
    <2>. QED
      BY <1>1, <2>1 DEF NextByte
  <1>3. /\ updating \in [Station -> BOOLEAN]
        /\ status \in [Station -> [start : BOOLEAN, end : BOOLEAN,
                                   destination : BOOLEAN, source : BOOLEAN]]
        /\ length \in [Station -> Nat]
        /\ receiveBuffer \in [Station -> [type : Kind, source : Origins]]
        /\ crc \in [Station -> Seq(Part)]
        /\ receivedMessages \in [Station -> Seq(Received)]
        /\ \A p \in Station : Len(receivedMessages[p]) <= QueueSize
        /\ QueueSize \in Nat
    BY BoundAssumption DEF TypeInv, TypeOK
  <1>4. /\ <<>> \in Seq(Part) /\ <<NextByte(n)>> \in Seq(Part)
        /\ crc[n] \in Seq(Part) /\ Append(crc[n], NextByte(n)) \in Seq(Part)
        /\ length[n] \in Nat
    BY <1>2, <1>3
  <1>5. CASE ReadStart(n)
    <2>1. /\ Read(n, <<>>) /\ UNCHANGED <<updating, receiveBuffer, receivedMessages>>
          /\ status' = [status EXCEPT ![n].start = TRUE, ![n].end = FALSE]
          /\ length' = [length EXCEPT ![n] = 0] /\ crc' = [crc EXCEPT ![n] = <<>>]
      BY <1>5 DEF ReadStart
    <2>2. status' \in [Station -> [start : BOOLEAN, end : BOOLEAN,
                                   destination : BOOLEAN, source : BOOLEAN]]
      BY <1>3, <2>1, StatusType
    <2>3. length' \in [Station -> Nat] /\ crc' \in [Station -> Seq(Part)]
      BY <1>3, <1>4, <2>1
    <2>. QED
      BY <1>1, <1>3, <1>4, <2>1, <2>2, <2>3, ReadType
  <1>6. CASE ReadEnd(n)
    <2>1. PICK out : out = IF Complete(n) /\ PassesOn(n) THEN <<End>> ELSE <<>>
      OBVIOUS
    <2>2. /\ Read(n, out) /\ UNCHANGED <<updating, receiveBuffer>>
          /\ status' = IF Complete(n)
                       THEN [status EXCEPT ![n].start = FALSE, ![n].end = TRUE]
                       ELSE status
          /\ length' = [length EXCEPT ![n] = 0] /\ crc' = [crc EXCEPT ![n] = <<>>]
      BY <1>6, <2>1 DEF ReadEnd
    <2>3. End = NextByte(n)
      BY <1>2, <1>6, PartKinds, PartFields DEF ReadEnd
    <2>4. out \in Seq(Part)
      BY <1>4, <2>1, <2>3
    <2>5. status' \in [Station -> [start : BOOLEAN, end : BOOLEAN,
                                   destination : BOOLEAN, source : BOOLEAN]]
      BY <1>3, <2>2, StatusType
    <2>6. length' \in [Station -> Nat] /\ crc' \in [Station -> Seq(Part)]
      BY <1>3, <1>4, <2>2
    <2>7. /\ receivedMessages' \in [Station -> Seq(Received)]
          /\ \A p \in Station : Len(receivedMessages'[p]) <= QueueSize
      <3>1. CASE UNCHANGED receivedMessages
        BY <1>3, <3>1
      <3>2. CASE ~UNCHANGED receivedMessages
        <4>1. /\ IsForMe(n) /\ Len(receivedMessages[n]) < QueueSize
              /\ receivedMessages' =
                     [receivedMessages EXCEPT ![n] = Append(@, ReceivedMessage(n))]
          BY <1>6, <3>2 DEF ReadEnd
        <4>2. PICK r \in Received : r = ReceivedMessage(n)
          BY <4>1, ReceivedType
        <4>. QED
          BY <1>3, <4>1, <4>2
      <3>. QED
        BY <3>1, <3>2
    <2>. QED
      BY <1>1, <1>3, <2>2, <2>4, <2>5, <2>6, <2>7, ReadType
  <1>7. CASE ReadStray(n)
    <2>1. Read(n, <<>>) /\ UNCHANGED <<status, length, receiveBuffer, crc, receivedMessages>>
          /\ updating' = [updating EXCEPT ![n] = FALSE]
      BY <1>7 DEF ReadStray, reception
    <2>2. updating' \in [Station -> BOOLEAN]
      BY <1>3, <2>1
    <2>. QED
      BY <1>1, <1>3, <1>4, <2>1, <2>2, ReadType
  <1>8. CASE ReadHeader(n)
    <2> DEFINE header == NextByte(n)
               type == TypeFor(n, header.destination)
               own == IsOwn(n, header)
    <2>1. PICK out : out = IF ~own /\ type # "UNICAST" THEN <<Start, header>> ELSE <<>>
      OBVIOUS
    <2>2. /\ IsData(n) /\ Read(n, out) /\ UNCHANGED <<updating, receivedMessages>>
          /\ status' = [status EXCEPT ![n].destination = type # "ANY", ![n].source = own]
          /\ receiveBuffer' = [receiveBuffer EXCEPT ![n] =
                                   [type |-> type, source |-> header.source]]
          /\ crc' = [crc EXCEPT ![n] = IF type # "ANY" THEN Append(@, header) ELSE @]
          /\ length' = [length EXCEPT ![n] = header.size]
      BY <1>8, <2>1 DEF ReadHeader
    <2>3. header.size \in Nat
      BY <1>2, <2>2, PartSize DEF IsData
    <2>4. type \in Kind /\ header.source \in Origins
      BY <1>2 DEF TypeFor, Kind, MessageType, Origins
    <2>5. own \in BOOLEAN /\ (type # "ANY") \in BOOLEAN
      BY DEF IsOwn
    <2>6. out \in Seq(Part)
      <3>1. Start \in Part
        BY PartSets
      <3>2. ASSUME NEW x \in Part, NEW y \in Part
            PROVE  <<x, y>> \in Seq(Part)
        OBVIOUS
      <3>. QED
        BY <1>2, <1>4, <2>1, <3>1, <3>2
    <2>. HIDE DEF header, type, own
    <2>7. receiveBuffer' \in [Station -> [type : Kind, source : Origins]]
      BY <1>3, <2>2, <2>4
    <2>8. status' \in [Station -> [start : BOOLEAN, end : BOOLEAN,
                                   destination : BOOLEAN, source : BOOLEAN]]
      BY <1>3, <2>2, <2>5, StatusType
    <2>9. length' \in [Station -> Nat] /\ crc' \in [Station -> Seq(Part)]
      BY <1>3, <1>4, <2>2, <2>3 DEF header
    <2>. QED
      BY <1>1, <1>3, <2>2, <2>6, <2>7, <2>8, <2>9, ReadType
  <1>9. CASE ReadPayload(n)
    <2>1. PICK out : out = IF PassesOn(n) THEN <<NextByte(n)>> ELSE <<>>
      OBVIOUS
    <2>2. /\ IsData(n) /\ Read(n, out)
          /\ UNCHANGED <<updating, status, receiveBuffer, receivedMessages>>
          /\ crc' = [crc EXCEPT ![n] = IF status[n].destination
                                       THEN Append(@, NextByte(n)) ELSE @]
          /\ length' = [length EXCEPT ![n] = @ + NextByte(n).size]
      BY <1>9, <2>1 DEF ReadPayload
    <2>3. PICK size \in Nat : size = NextByte(n).size
      BY <1>2, <2>2, PartSize DEF IsData
    <2>4. out \in Seq(Part)
      BY <1>4, <2>1
    <2>5. length' \in [Station -> Nat] /\ crc' \in [Station -> Seq(Part)]
      BY <1>3, <1>4, <2>2, <2>3
    <2>. QED
      BY <1>1, <1>3, <2>2, <2>4, <2>5, ReadType
  <1>. QED
    BY <1>5, <1>6, <1>7, <1>8, <1>9 DEF ReadByte

\* Node::update calls the callbacks, which may send a message of the program.
LEMMA CallbackType ==
    ASSUME TypeInv, NEW n \in Station, Callback(n)
    PROVE  TypeInv'
  <1>1. /\ receivedMessages \in [Station -> Seq(Received)] /\ receivedMessages[n] # <<>>
        /\ \A p \in Station : Len(receivedMessages[p]) <= QueueSize
        /\ handled \in [Station -> Seq(Message)] /\ QueueSize \in Nat
    BY BoundAssumption DEF TypeInv, TypeOK, Callback
  <1>2. /\ receivedMessages' = [receivedMessages EXCEPT ![n] = Tail(@)]
        /\ UNCHANGED <<updating, reception, losses>>
    BY DEF Callback
  <1>3. /\ receivedMessages' \in [Station -> Seq(Received)]
        /\ \A p \in Station : Len(receivedMessages'[p]) <= QueueSize
    BY <1>1, <1>2
  <1>4. handled' \in [Station -> Seq(Message)]
    <2>1. PICK r \in Received : r = Head(receivedMessages[n])
      BY <1>1
    <2>2. PICK m \in Message : m = r.message
      BY DEF Received
    <2>3. UNCHANGED handled \/ handled' = [handled EXCEPT ![n] = Append(@, m)]
      BY <2>1, <2>2 DEF Callback, history
    <2>4. handled[n] \in Seq(Message) /\ Append(handled[n], m) \in Seq(Message)
      BY <1>1
    <2>. QED
      BY <1>1, <2>3, <2>4
  <1>5. \/ SendOwn(n)
        \/ UNCHANGED <<link, messagesToSend, todo, sent, written>>
    BY DEF Callback, history
  <1>6. /\ link' \in [Station -> Seq(Part)]
        /\ messagesToSend' \in [Station -> Seq(Message)]
        /\ \A p \in Station : Len(messagesToSend'[p]) <= QueueSize
        /\ todo' \in [Station -> Seq(Message)]
        /\ sent' \in [Station -> Seq(Message)]
        /\ written' \in [Station -> Seq(Message)]
    BY <1>5, SendType DEF TypeInv, TypeOK
  <1>. QED
    BY <1>2, <1>3, <1>4, <1>6 DEF TypeInv, TypeOK, reception

\* The numbers of a byte and of an address.
Byte == 0 .. 255

LEMMA InRange ==
    ASSUME NEW N \in Int
    PROVE  \A i : i \in 0 .. N <=> i \in Int /\ 0 <= i /\ i <= N
  OBVIOUS

LEMMA ByteRange ==
    ASSUME NEW i
    PROVE  i \in Byte <=> i \in Int /\ 0 <= i /\ i <= 255
  <1>. PICK N \in Int : N = 255
    OBVIOUS
  <1>1. i \in 0 .. N <=> i \in Int /\ 0 <= i /\ i <= N
    BY InRange
  <1>. QED
    BY <1>1 DEF Byte

LEMMA AddressRange ==
    ASSUME NEW i
    PROVE  i \in 0 .. ADDRESS_VALUE <=> i \in Int /\ 0 <= i /\ i <= 32767
  <1>. PICK N \in Int : N = ADDRESS_VALUE
    BY DEF ADDRESS_VALUE
  <1>1. i \in 0 .. N <=> i \in Int /\ 0 <= i /\ i <= N
    BY InRange
  <1>2. N = 32767
    BY DEF ADDRESS_VALUE
  <1>3. i \in 0 .. ADDRESS_VALUE <=> i \in Int /\ 0 <= i /\ i <= N
    BY <1>1
  <1>. QED
    BY <1>2, <1>3, SMTT(30)

LEMMA AddressBytesType ==
    ASSUME NEW x, NEW g \in BOOLEAN, NEW a \in 0 .. ADDRESS_VALUE,
           NEW b \in 0 .. ADDRESS_VALUE,
           x.destination = [group |-> g, address |-> a], x.source = b
    PROVE  AddressBytes(x) \in Seq(Byte) /\ Len(AddressBytes(x)) = 4
  <1>. PICK i, j, k, l : /\ i = a % 256
                         /\ j = a \div 256 + (IF g THEN 128 ELSE 0)
                         /\ k = b % 256 /\ l = b \div 256
    OBVIOUS
  <1>1. /\ a \in Int /\ 0 <= a /\ a <= 32767
        /\ b \in Int /\ 0 <= b /\ b <= 32767
    BY AddressRange
  <1>2. /\ i \in Int /\ 0 <= i /\ i <= 255 /\ j \in Int /\ 0 <= j /\ j <= 255
        /\ k \in Int /\ 0 <= k /\ k <= 255 /\ l \in Int /\ 0 <= l /\ l <= 255
    BY <1>1
  <1>3. x.destination.address = a /\ x.destination.group = g
    OBVIOUS
  <1>4. AddressBytes(x) = <<i, j, k, l>>
    BY <1>3 DEF AddressBytes
  <1>5. i \in Byte /\ j \in Byte /\ k \in Byte /\ l \in Byte
    BY <1>2, ByteRange
  <1>. QED
    BY <1>4, <1>5

LEMMA Elements ==
    ASSUME NEW S, NEW s \in Seq(S), NEW k, Len(s) = k
    PROVE  \A i \in 1 .. k : s[i] \in S
  <1>1. \A i \in 1 .. Len(s) : s[i] \in S
    OBVIOUS
  <1>. QED
    BY <1>1

LEMMA RemovedByte ==
    ASSUME NEW S, NEW s \in Seq(S), Len(s) = 4, NEW k \in 1 .. 4, NEW x \in S
    PROVE  /\ Append(RemoveAt(s, k), x) \in Seq(S)
           /\ Len(Append(RemoveAt(s, k), x)) = 4
  <1>1. k \in Int /\ 1 <= k /\ k <= 4
    OBVIOUS
  <1>2. \A i \in 1 .. 4 : s[i] \in S
    BY Elements
  <1>. PICK u, v : u = SubSeq(s, 1, k - 1) /\ v = SubSeq(s, k + 1, 4)
    OBVIOUS
  <1>3. u \in Seq(S) /\ Len(u) = k - 1
    <2>1. \A i \in 1 .. k - 1 : s[i] \in S
      BY <1>1, <1>2
    <2>. QED
      BY <1>1, <2>1
  <1>4. v \in Seq(S) /\ Len(v) = 4 - k
    <2>. PICK c \in Int, d \in Int : c = k + 1 /\ d = 4
      BY <1>1
    <2>1. \A i \in c .. d : s[i] \in S
      BY <1>1, <1>2
    <2>2. /\ SubSeq(s, c, d) \in Seq(S)
          /\ Len(SubSeq(s, c, d)) = IF c <= d THEN d - c + 1 ELSE 0
      BY <2>1, SubSeqProperties
    <2>. QED
      BY <1>1, <2>2
  <1>5. u \o v \in Seq(S) /\ Len(u \o v) = 3
    BY <1>1, <1>3, <1>4
  <1>6. RemoveAt(s, k) = u \o v
    BY DEF RemoveAt
  <1>. QED
    BY <1>5, <1>6

\* An address from its two bytes, the upper bit of the second being none of it.
LEMMA TwoBytes ==
    ASSUME NEW i \in Byte, NEW j \in Byte
    PROVE  (j % 128) * 256 + i \in 0 .. ADDRESS_VALUE
  <1>1. i \in Int /\ 0 <= i /\ i <= 255 /\ j \in Int /\ 0 <= j
    BY ByteRange
  <1>2. j % 128 \in Int /\ 0 <= j % 128 /\ j % 128 <= 127
    BY <1>1
  <1>. PICK y : y = j % 128
    OBVIOUS
  <1>3. y * 256 + i \in Int /\ 0 <= y * 256 + i /\ y * 256 + i <= 32767
    BY <1>1, <1>2
  <1>. QED
    BY <1>3, AddressRange

LEMMA MisreadHeaderType ==
    ASSUME NEW s \in Seq(Byte), Len(s) = 4
    PROVE  MisreadHeader(s) \in MisreadHeaders
  <1>1. \A p \in 1 .. 4 : s[p] \in Byte
    BY Elements
  <1>. PICK i \in Byte, j \in Byte, k \in Byte, l \in Byte :
                i = s[1] /\ j = s[2] /\ k = s[3] /\ l = s[4]
    BY <1>1
  <1>2. (j >= 128) \in BOOLEAN
    <2>1. j \in Int
      BY ByteRange
    <2>. QED
      BY <2>1
  <1>. PICK a \in 0 .. ADDRESS_VALUE, b \in 0 .. ADDRESS_VALUE, g \in BOOLEAN :
                a = (j % 128) * 256 + i /\ b = (l % 128) * 256 + k /\ g = (j >= 128)
    BY <1>2, TwoBytes, ZenonT(30)
  <1>3. MisreadHeader(s) = [part |-> "misread", size |-> 4,
                            destination |-> [group |-> g, address |-> a], source |-> b]
    BY DEF MisreadHeader
  <1>. QED
    BY <1>3 DEF MisreadHeaders

\* Addresses of which a byte is missing are read as some other addresses.
LEMMA MisreadType ==
    ASSUME NEW x \in Part, x.part \in {"header", "misread"}, NEW y \in Misread(x)
    PROVE  y \in MisreadHeaders
  <1>1. \E g \in BOOLEAN, a, b \in 0 .. ADDRESS_VALUE :
            x.destination = [group |-> g, address |-> a] /\ x.source = b
    <2>1. CASE x \in MisreadHeaders
      BY <2>1 DEF MisreadHeaders
    <2>2. CASE x \notin MisreadHeaders
      <3>1. PICK m \in Message : x = Header(m)
        BY <2>2, PartKinds, PartFields
      <3>2. x.source = Address[Source[m]] /\ Address[Source[m]] \in 0 .. ADDRESS_VALUE
        BY <3>1, PartFields, RingAssumption, MessageAssumption
      <3>3. PICK a \in 0 .. ADDRESS_VALUE : a = Destination[m]
        BY MessageAssumption
      <3>4. ADDRESS_VALUE \in 0 .. ADDRESS_VALUE
        <4>1. ADDRESS_VALUE = 32767
          BY DEF ADDRESS_VALUE
        <4>. QED
          BY <4>1, AddressRange, SMTT(30)
      <3>5. x.destination = IF Type[m] = "BROADCAST"
                            THEN [group |-> TRUE, address |-> ADDRESS_VALUE]
                            ELSE [group |-> Type[m] = "MULTICAST", address |-> a]
        BY <3>1, <3>3, PartFields DEF Wire
      <3>6. (Type[m] = "MULTICAST") \in BOOLEAN
        OBVIOUS
      <3>. QED
        BY <3>2, <3>4, <3>5, <3>6
    <2>. QED
      BY <2>1, <2>2
  <1>2. AddressBytes(x) \in Seq(Byte) /\ Len(AddressBytes(x)) = 4
    BY <1>1, AddressBytesType
  <1>3. PICK k \in 1 .. 4, next \in Byte :
                y = MisreadHeader(Append(RemoveAt(AddressBytes(x), k), next))
    <2>1. Octet \subseteq Byte
      BY MessageAssumption DEF Byte
    <2>. QED
      BY <2>1 DEF Misread
  <1>. PICK s : s = Append(RemoveAt(AddressBytes(x), k), next)
    OBVIOUS
  <1>4. s \in Seq(Byte) /\ Len(s) = 4
    BY <1>2, RemovedByte
  <1>. QED
    BY <1>3, <1>4, MisreadHeaderType

\* What a loss makes of the wire of n.
LEMMA LossCases ==
    ASSUME NEW n \in Station, Lose(n), NEW l, l = link[n], l \in Seq(Part),
           link \in [Station -> Seq(Part)]
    PROVE  /\ l # <<>> /\ \A p \in Station \ {n} : link'[p] = link[p]
           /\ link' = [link EXCEPT ![n] = link'[n]]
           /\ \/ /\ l[1].part \notin {"header", "misread", "check"}
                 /\ link'[n] = Tail(l)
              \/ l[1].part = "check" /\ link'[n] = <<Torn>> \o Tail(l)
              \/ /\ l[1].part \in {"header", "misread"} /\ Len(l) >= 2
                 /\ \E y \in MisreadHeaders :
                       \/ /\ l[2].part \in {"payload", "torn"}
                          /\ link'[n] = <<y>> \o Tail(Tail(l))
                       \/ /\ l[2].part = "check"
                          /\ link'[n] = <<y>> \o <<Torn>> \o Tail(Tail(l))
  <1>1. l # <<>>
    BY DEF Lose
  <1>2. /\ Tail(l) \in Seq(Part) /\ Head(l) = l[1] /\ l[1] \in Part
    BY <1>1
  <1>3. <<>> \o Tail(l) = Tail(l)
    BY <1>2
  <1>4. CASE LoseByte(n)
    <2>1. /\ l[1].part \notin {"header", "misread"}
          /\ link' = [link EXCEPT ![n] = Shorter(l[1]) \o Tail(l)]
      BY <1>2, <1>4 DEF LoseByte
    <2>2. Shorter(l[1]) = IF l[1].part = "check" THEN <<Torn>> ELSE <<>>
      BY DEF Shorter
    <2>. QED
      BY <1>1, <1>3, <2>1, <2>2
  <1>5. CASE LoseAddressByte(n)
    <2>1. PICK y \in Misread(l[1]) :
                 link' = [link EXCEPT ![n] = <<y>> \o Shorter(l[2]) \o Tail(Tail(l))]
      BY <1>2, <1>5 DEF LoseAddressByte
    <2>2. /\ l[1].part \in {"header", "misread"} /\ Len(l) > 1
          /\ l[2].part \in {"payload", "check", "torn"}
      BY <1>2, <1>5 DEF LoseAddressByte
    <2>3. y \in MisreadHeaders
      BY <1>2, <2>1, <2>2, MisreadType
    <2>4. Shorter(l[2]) = IF l[2].part = "check" THEN <<Torn>> ELSE <<>>
      BY DEF Shorter
    <2>5. <<y>> \o <<>> = <<y>>
      OBVIOUS
    <2>6. Len(l) >= 2
      BY <2>2
    <2>7. /\ link'[n] = <<y>> \o Shorter(l[2]) \o Tail(Tail(l))
          /\ \A p \in Station \ {n} : link'[p] = link[p]
          /\ link' = [link EXCEPT ![n] = link'[n]]
      BY <2>1
    <2>8. CASE l[2].part = "check"
      BY <1>1, <2>2, <2>3, <2>4, <2>6, <2>7, <2>8
    <2>9. CASE l[2].part # "check"
      BY <1>1, <2>2, <2>3, <2>4, <2>5, <2>6, <2>7, <2>9
    <2>. QED
      BY <2>8, <2>9
  <1>. QED
    BY <1>4, <1>5 DEF Lose

LEMMA LoseType ==
    ASSUME TypeInv, NEW n \in Station, Lose(n)
    PROVE  link' \in [Station -> Seq(Part)]
  <1>. PICK l : l = link[n]
    OBVIOUS
  <1>1. link \in [Station -> Seq(Part)] /\ l \in Seq(Part)
    BY DEF TypeInv, TypeOK
  <1>2. Torn \in Part /\ MisreadHeaders \subseteq Part
    BY PartSets
  <1>3. ASSUME NEW x \in Part, NEW y \in Part, NEW r \in Seq(Part)
        PROVE  <<x>> \o r \in Seq(Part) /\ <<x>> \o <<y>> \o r \in Seq(Part)
    OBVIOUS
  <1>4. /\ l # <<>> => Tail(l) \in Seq(Part)
        /\ Len(l) >= 2 => Tail(Tail(l)) \in Seq(Part)
    <2>1. ASSUME NEW r \in Seq(Part), r # <<>>
          PROVE  Tail(r) \in Seq(Part) /\ Len(Tail(r)) = Len(r) - 1 /\ Len(r) \in Nat
      BY <2>1
    <2>2. ASSUME Len(l) >= 2
          PROVE  l # <<>> /\ Tail(l) # <<>>
      <3>1. l # <<>>
        BY <2>2
      <3>2. Len(Tail(l)) = Len(l) - 1 /\ Len(l) \in Nat
        BY <1>1, <2>1, <3>1
      <3>. PICK r : r = Tail(l)
        OBVIOUS
      <3>3. Len(r) >= 1
        BY <2>2, <3>2
      <3>4. r # <<>>
        BY <3>3
      <3>. QED
        BY <3>1, <3>4
    <2>. QED
      BY <1>1, <2>1, <2>2
  <1>5. link'[n] \in Seq(Part)
    <2>1. \/ l # <<>> /\ link'[n] = Tail(l)
          \/ l # <<>> /\ link'[n] = <<Torn>> \o Tail(l)
          \/ /\ Len(l) >= 2
             /\ \E y \in MisreadHeaders : \/ link'[n] = <<y>> \o Tail(Tail(l))
                                          \/ link'[n] = <<y>> \o <<Torn>> \o Tail(Tail(l))
      BY <1>1, LossCases
    <2>. QED
      BY <1>2, <1>3, <1>4, <2>1
  <1>6. link' = [link EXCEPT ![n] = link'[n]]
    BY <1>1, LossCases
  <1>. QED
    BY <1>1, <1>5, <1>6

LEMMA TypeStep == TypeInv /\ [Next]_vars => TypeInv'
  <1>. SUFFICES ASSUME TypeInv, [Next]_vars PROVE TypeInv'
    OBVIOUS
  <1>1. CASE UNCHANGED vars
    BY <1>1 DEF TypeInv, TypeOK, vars, reception, queues, history
  <1>2. ASSUME NEW n \in Station, Send(n)
        PROVE  TypeInv'
    <2>1. SendOwn(n) /\ UNCHANGED <<updating, reception, receivedMessages, losses, handled>>
      BY <1>2 DEF Send
    <2>. QED
      BY <2>1, SendType DEF TypeInv, TypeOK, reception
  <1>3. ASSUME NEW n \in Station, BeginUpdate(n)
        PROVE  TypeInv'
    <2>1. UNCHANGED <<reception, receivedMessages, todo, losses, sent, handled>>
      BY <1>3 DEF BeginUpdate
    <2>. QED
      BY <1>3, <2>1, BeginUpdateType DEF TypeInv, TypeOK, reception
  <1>4. ASSUME NEW n \in Station, EndUpdate(n)
        PROVE  TypeInv'
    <2>1. /\ UNCHANGED <<link, reception, queues, todo, losses, history>>
          /\ updating' = [updating EXCEPT ![n] = FALSE]
      BY <1>4 DEF EndUpdate
    <2>. QED
      BY <2>1 DEF TypeInv, TypeOK, reception, queues, history
  <1>5. ASSUME NEW n \in Station, Lose(n)
        PROVE  TypeInv'
    <2>1. /\ UNCHANGED <<updating, reception, queues, todo, history>>
          /\ losses' = losses + 1 /\ losses < MaxLosses
      BY <1>5 DEF Lose
    <2>2. losses' \in 0 .. MaxLosses
      BY <2>1, BoundAssumption DEF TypeInv, TypeOK
    <2>3. link' \in [Station -> Seq(Part)]
      BY <1>5, LoseType
    <2>. QED
      BY <2>1, <2>2, <2>3 DEF TypeInv, TypeOK, reception, queues, history
  <1>6. CASE Next
    BY <1>2, <1>3, <1>4, <1>5, <1>6, ReadByteType, CallbackType DEF Next, Update
  <1>. QED
    BY <1>1, <1>6

\* The queues stay within their capacity, and what is on a wire are parts of frames or what
\* a loss has left of them.
THEOREM TypeCorrect == Spec => []TypeOK
  <1>1. TypeInv => TypeOK
    BY DEF TypeInv
  <1>. QED
    BY TypeInvInit, TypeStep, <1>1, PTL DEF Spec

-----------------------------------------------------------------------------
(* What is on the wires: which part of which message each byte is          *)

Nobody == CHOOSE x : x \notin Message

\* The parts of a frame by their place: 1 the start delimiter, 2 the addresses, 3 the
\* payload, 4 the check sequence, 5 the end delimiter.  The addresses may be misread and
\* the check sequence torn.
Fitting(t) ==
    /\ t.at = 1 => t.part = Start
    /\ t.at = 2 => t.part = Header(t.of) \/ t.part \in MisreadHeaders
    /\ t.at = 3 => t.part = Payload(t.of)
    /\ t.at = 4 => t.part = Check(t.of) \/ t.part = Torn
    /\ t.at = 5 => t.part = End

Token ==
    {t \in [of : Message \cup {Nobody}, at : 1 .. 5, part : Part] : Fitting(t)}

PartOf(t) == t.part

\* Nothing of it was lost.
Exact(t) == t.part = Frame[t.of][t.at]

IsHeader(t) == t.part.part = "header"

TokenOf(m, k) == [of |-> m, at |-> k, part |-> Frame[m][k]]

\* Before the first byte.
Nothing == [of |-> Nobody, at |-> 5, part |-> End]

FrameTokens(m) == [k \in 1 .. 5 |-> TokenOf(m, k)]

Final(s) == s[Len(s)]

\* The stream s of a wire with content l: the last byte read from it, then what is
\* on it.
Labels(s, l) ==
    /\ s \in Seq(Token) /\ l \in Seq(Part) /\ Len(s) = Len(l) + 1
    /\ \A i \in 1 .. Len(l) : s[i + 1].of \in Message /\ l[i] = PartOf(s[i + 1])

\* What may come after t where bytes may be lost: addresses, with their own start
\* delimiter if one is there, and behind addresses only what is left of their frame.
Allowed(t, u) ==
    \/ u.at = 2 /\ (t.at = 1 => t.of = u.of)
    \/ u.at = 1 /\ t.at # 1
    \/ u.at \in 3 .. 5 /\ t.of = u.of /\ t.at \in 2 .. u.at - 1

Chained(s) == \A i \in 1 .. Len(s) - 1 : Allowed(s[i], s[i + 1])

\* Nothing is lost: the next byte of the frame, or a frame after the other.
Next5(t, u) ==
    /\ Exact(u)
    /\ \/ t.at = 5 /\ u.at = 1
       \/ t.of = u.of /\ u.at = t.at + 1

Unbroken(s) == \A i \in 1 .. Len(s) - 1 : Next5(s[i], s[i + 1])

\* A header that a station could take for one: not in the middle of a frame.
IsLive(s, i) ==
    i \in 2 .. Len(s) /\ s[i].at = 2 /\ IsHeader(s[i]) /\ s[i - 1].at \in {1, 5}

LEMMA ConcatElements ==
    ASSUME NEW S, NEW s \in Seq(S), NEW w \in Seq(S)
    PROVE  /\ s \o w \in Seq(S) /\ Len(s \o w) = Len(s) + Len(w)
           /\ Len(s) \in Nat /\ Len(w) \in Nat
           /\ \A i \in 1 .. Len(s) : (s \o w)[i] = s[i]
           /\ \A i \in 1 .. Len(w) : (s \o w)[Len(s) + i] = w[i]
           /\ \A i \in 1 .. Len(s) + Len(w) :
                  \/ i \in 1 .. Len(s) /\ (s \o w)[i] = s[i]
                  \/ i - Len(s) \in 1 .. Len(w) /\ (s \o w)[i] = w[i - Len(s)]
  <1>1. Len(s) \in Nat /\ Len(w) \in Nat
    OBVIOUS
  <1>2. s \o w \in Seq(S) /\ Len(s \o w) = Len(s) + Len(w)
    OBVIOUS
  <1>3. \A i \in 1 .. Len(s) + Len(w) :
            (s \o w)[i] = IF i <= Len(s) THEN s[i] ELSE w[i - Len(s)]
    OBVIOUS
  <1>. QED
    BY <1>1, <1>2, <1>3

LEMMA TailRest ==
    ASSUME NEW S, NEW s \in Seq(S), s # <<>>
    PROVE  /\ Tail(s) \in Seq(S) /\ Len(s) \in Nat /\ Len(s) >= 1
           /\ Len(Tail(s)) = Len(s) - 1 /\ Head(s) = s[1]
           /\ \A i \in 1 .. Len(s) - 1 : Tail(s)[i] = s[i + 1]
  OBVIOUS

\* The k-th element is gone.
Cut(s, k) == [i \in 1 .. Len(s) - 1 |-> IF i < k THEN s[i] ELSE s[i + 1]]

LEMMA CutRest ==
    ASSUME NEW S, NEW s \in Seq(S), NEW k \in 1 .. Len(s)
    PROVE  /\ Cut(s, k) \in Seq(S) /\ Len(s) \in Nat /\ Len(Cut(s, k)) = Len(s) - 1
           /\ \A i \in 1 .. k - 1 : Cut(s, k)[i] = s[i]
           /\ \A i \in k .. Len(s) - 1 : Cut(s, k)[i] = s[i + 1]
  <1>1. Len(s) \in Nat /\ Len(s) - 1 \in Nat /\ k \in Int /\ 1 <= k /\ k <= Len(s)
    OBVIOUS
  <1>2. \A i \in 1 .. Len(s) - 1 : (IF i < k THEN s[i] ELSE s[i + 1]) \in S
    BY <1>1
  <1>3. Cut(s, k) \in Seq(S)
    BY <1>1, <1>2 DEF Cut
  <1>4. Len(Cut(s, k)) = Len(s) - 1
    BY <1>1, <1>3 DEF Cut
  <1>5. \A i \in 1 .. k - 1 : i \in 1 .. Len(s) - 1 /\ i < k
    BY <1>1
  <1>6. \A i \in k .. Len(s) - 1 : i \in 1 .. Len(s) - 1 /\ ~(i < k)
    BY <1>1
  <1>. QED
    BY <1>1, <1>3, <1>4, <1>5, <1>6 DEF Cut

\* The k-th token stands for less than before.
Marked(s, k, x) == [s EXCEPT ![k] = [@ EXCEPT !.part = x]]

\* What a loss may make of t.
Marks(t, x) ==
    \/ t.at = 2 /\ x \in MisreadHeaders
    \/ t.at = 4 /\ x = Torn

LEMMA MarkedToken ==
    ASSUME NEW t \in Token, NEW x, NEW u, u = [t EXCEPT !.part = x], Marks(t, x)
    PROVE  u \in Token /\ u.of = t.of /\ u.at = t.at /\ u.part = x /\ ~IsHeader(u)
  <1>1. t \in [of : Message \cup {Nobody}, at : 1 .. 5, part : Part]
    BY DEF Token
  <1>2. x \in Part /\ x.part # "header"
    BY PartSets, PartFields DEF Marks
  <1>3. /\ u \in [of : Message \cup {Nobody}, at : 1 .. 5, part : Part]
        /\ u.of = t.of /\ u.at = t.at /\ u.part = x
    BY <1>1, <1>2
  <1>4. Fitting(u)
    BY <1>3 DEF Fitting, Marks
  <1>. QED
    BY <1>2, <1>3, <1>4 DEF Token, IsHeader

LEMMA TokenOfType ==
    ASSUME NEW m \in Message, NEW k \in 1 .. 5, NEW t, t = TokenOf(m, k)
    PROVE  t \in Token /\ t.of = m /\ t.at = k /\ PartOf(t) = Frame[m][k] /\ Exact(t)
  <1>1. t.of = m /\ t.at = k /\ t.part = Frame[m][k]
    BY DEF TokenOf
  <1>2. Frame[m][k] \in Part
    <2>1. Frame[m] \in Seq(Part)
      BY PartKinds
    <2>. PICK a, b, c, d, e : Frame[m] = <<a, b, c, d, e>>
      BY PartsOfFrame
    <2>2. Len(Frame[m]) = 5
      OBVIOUS
    <2>. QED
      BY <2>1, <2>2, Elements
  <1>3. t \in [of : Message \cup {Nobody}, at : 1 .. 5, part : Part]
    BY <1>2 DEF TokenOf
  <1>4. Fitting(t)
    <2>1. /\ Frame[m][1] = Start /\ Frame[m][2] = Header(m) /\ Frame[m][3] = Payload(m)
          /\ Frame[m][4] = Check(m) /\ Frame[m][5] = End
      BY PartsOfFrame
    <2>. QED
      BY <1>1, <2>1 DEF Fitting
  <1>. QED
    BY <1>1, <1>3, <1>4 DEF Token, PartOf, Exact

LEMMA NothingType == Nothing \in Token /\ Nothing.at = 5
  <1>1. End \in Part
    BY DEF Part
  <1>. QED
    BY <1>1 DEF Nothing, Token, Fitting

LEMMA TokensOfFrame ==
    ASSUME NEW m \in Message
    PROVE  /\ FrameTokens(m) \in Seq(Token) /\ Len(FrameTokens(m)) = 5
           /\ \A k \in 1 .. 5 : /\ FrameTokens(m)[k] = TokenOf(m, k)
                                /\ Frame[m][k] = PartOf(FrameTokens(m)[k])
           /\ Chained(FrameTokens(m)) /\ Unbroken(FrameTokens(m))
           /\ Frame[m] \in Seq(Part) /\ Len(Frame[m]) = 5
  <1>1. \A k \in 1 .. 5 : TokenOf(m, k) \in Token
    BY TokenOfType
  <1>2. FrameTokens(m) \in Seq(Token) /\ Len(FrameTokens(m)) = 5
    BY <1>1 DEF FrameTokens
  <1>3. \A k \in 1 .. 5 : /\ FrameTokens(m)[k] = TokenOf(m, k)
                          /\ Frame[m][k] = PartOf(FrameTokens(m)[k])
    BY TokenOfType DEF FrameTokens
  <1>4. Chained(FrameTokens(m))
    <2>. SUFFICES ASSUME NEW i \in 1 .. 4
                  PROVE  Allowed(FrameTokens(m)[i], FrameTokens(m)[i + 1])
      BY <1>2 DEF Chained
    <2>1. /\ FrameTokens(m)[i] = TokenOf(m, i)
          /\ FrameTokens(m)[i + 1] = TokenOf(m, i + 1)
      BY <1>3
    <2>. PICK t, u : t = TokenOf(m, i) /\ u = TokenOf(m, i + 1)
      OBVIOUS
    <2>2. t.of = m /\ t.at = i /\ u.of = m /\ u.at = i + 1
      BY DEF TokenOf
    <2>. QED
      BY <2>1, <2>2 DEF Allowed
  <1>5. Unbroken(FrameTokens(m))
    <2>. SUFFICES ASSUME NEW i \in 1 .. 4
                  PROVE  Next5(FrameTokens(m)[i], FrameTokens(m)[i + 1])
      BY <1>2 DEF Unbroken
    <2>1. /\ FrameTokens(m)[i] = TokenOf(m, i)
          /\ FrameTokens(m)[i + 1] = TokenOf(m, i + 1)
      BY <1>3
    <2>. PICK t, u : t = TokenOf(m, i) /\ u = TokenOf(m, i + 1)
      OBVIOUS
    <2>2. t.of = m /\ t.at = i /\ u.of = m /\ u.at = i + 1 /\ Exact(u)
      BY DEF TokenOf, Exact
    <2>. QED
      BY <2>1, <2>2 DEF Next5
  <1>6. Frame[m] \in Seq(Part) /\ Len(Frame[m]) = 5
    <2>1. Frame[m] \in Seq(Part)
      BY PartKinds
    <2>2. PICK a, b, c, d, e : Frame[m] = <<a, b, c, d, e>>
      BY PartsOfFrame
    <2>. QED
      BY <2>1, <2>2
  <1>. QED
    BY <1>2, <1>3, <1>4, <1>5, <1>6

\* Taking a byte from the front, losing it there, and adding some at the end.
LEMMA LabelsTail ==
    ASSUME NEW s, NEW l, Labels(s, l), l # <<>>
    PROVE  /\ Labels(Tail(s), Tail(l)) /\ Tail(s)[1] = s[2]
           /\ Final(Tail(s)) = Final(s) /\ Len(s) >= 2
           /\ s[2] \in Token /\ s[2].of \in Message /\ Head(l) = PartOf(s[2])
  <1>1. /\ s \in Seq(Token) /\ l \in Seq(Part) /\ Len(s) = Len(l) + 1
        /\ \A i \in 1 .. Len(l) : s[i + 1].of \in Message /\ l[i] = PartOf(s[i + 1])
    BY DEF Labels
  <1>2. Len(l) \in Nat /\ Len(l) >= 1 /\ Len(s) >= 2 /\ s # <<>>
    BY <1>1
  <1>3. /\ Tail(l) \in Seq(Part) /\ Len(Tail(l)) = Len(l) - 1 /\ Head(l) = l[1]
        /\ \A i \in 1 .. Len(l) - 1 : Tail(l)[i] = l[i + 1]
    BY <1>1, TailRest
  <1>4. /\ Tail(s) \in Seq(Token) /\ Len(Tail(s)) = Len(s) - 1
        /\ \A i \in 1 .. Len(s) - 1 : Tail(s)[i] = s[i + 1]
    BY <1>1, <1>2, TailRest
  <1>5. \A i \in 1 .. Len(Tail(l)) :
            Tail(s)[i + 1].of \in Message /\ Tail(l)[i] = PartOf(Tail(s)[i + 1])
    <2>. TAKE i \in 1 .. Len(Tail(l))
    <2>1. i \in Nat /\ i + 1 \in 1 .. Len(l) /\ i \in 1 .. Len(l) - 1
          /\ i + 1 \in 1 .. Len(s) - 1
      BY <1>1, <1>2, <1>3
    <2>. QED
      BY <1>1, <1>3, <1>4, <2>1
  <1>6. Final(Tail(s)) = Final(s)
    BY <1>1, <1>2, <1>4 DEF Final
  <1>7. s[2] \in Token /\ s[2].of \in Message /\ l[1] = PartOf(s[2])
    <2>1. 1 \in 1 .. Len(l) /\ 1 + 1 = 2 /\ 2 \in 1 .. Len(s)
      BY <1>1, <1>2
    <2>. QED
      BY <1>1, <2>1
  <1>8. Tail(s)[1] = s[2]
    BY <1>1, <1>2, <1>4
  <1>. QED
    BY <1>1, <1>2, <1>3, <1>4, <1>5, <1>6, <1>7, <1>8 DEF Labels

LEMMA LabelsCut ==
    ASSUME NEW s, NEW l, Labels(s, l), NEW k \in 1 .. Len(l)
    PROVE  Labels(Cut(s, k + 1), Cut(l, k)) /\ Cut(s, k + 1)[1] = s[1]
  <1>1. /\ s \in Seq(Token) /\ l \in Seq(Part) /\ Len(s) = Len(l) + 1
        /\ \A i \in 1 .. Len(l) : s[i + 1].of \in Message /\ l[i] = PartOf(s[i + 1])
    BY DEF Labels
  <1>2. /\ Len(l) \in Nat /\ k \in Int /\ 1 <= k /\ k <= Len(l)
        /\ k + 1 \in 1 .. Len(s)
    BY <1>1
  <1>. PICK s2, l2 : s2 = Cut(s, k + 1) /\ l2 = Cut(l, k)
    OBVIOUS
  <1>3. /\ l2 \in Seq(Part) /\ Len(l2) = Len(l) - 1
        /\ \A i \in 1 .. k - 1 : l2[i] = l[i]
        /\ \A i \in k .. Len(l) - 1 : l2[i] = l[i + 1]
    BY <1>1, CutRest
  <1>4. /\ s2 \in Seq(Token) /\ Len(s2) = Len(s) - 1
        /\ \A i \in 1 .. (k + 1) - 1 : s2[i] = s[i]
        /\ \A i \in k + 1 .. Len(s) - 1 : s2[i] = s[i + 1]
    BY <1>1, <1>2, CutRest
  <1>5. ASSUME NEW i \in 1 .. Len(l2)
        PROVE  s2[i + 1].of \in Message /\ l2[i] = PartOf(s2[i + 1])
    <2>1. i \in Int /\ 1 <= i /\ i <= Len(l) - 1
      BY <1>2, <1>3
    <2>2. CASE i < k
      <3>1. i \in 1 .. k - 1 /\ i + 1 \in 1 .. (k + 1) - 1 /\ i \in 1 .. Len(l)
        BY <1>2, <2>1, <2>2
      <3>. QED
        BY <1>1, <1>3, <1>4, <3>1
    <2>3. CASE ~(i < k)
      <3>1. /\ i \in k .. Len(l) - 1 /\ i + 1 \in k + 1 .. Len(s) - 1
            /\ i + 1 \in 1 .. Len(l)
        BY <1>1, <1>2, <2>1, <2>3
      <3>. QED
        BY <1>1, <1>3, <1>4, <3>1
    <2>. QED
      BY <2>2, <2>3
  <1>6. s2[1] = s[1] /\ Len(s2) = Len(l2) + 1
    BY <1>1, <1>2, <1>3, <1>4
  <1>. QED
    BY <1>3, <1>4, <1>5, <1>6 DEF Labels

LEMMA NotEmpty ==
    ASSUME NEW S, NEW s \in Seq(S), Len(s) >= 1
    PROVE  s # <<>>
  OBVIOUS

LEMMA SecondTail ==
    ASSUME NEW S, NEW l \in Seq(S), Len(l) >= 2
    PROVE  /\ Tail(Tail(l)) \in Seq(S) /\ Len(Tail(Tail(l))) = Len(l) - 2
           /\ \A i \in 1 .. Len(l) - 2 : Tail(Tail(l))[i] = l[i + 2]
  <1>1. l # <<>> /\ Len(l) \in Nat
    OBVIOUS
  <1>. PICK t : t = Tail(l)
    OBVIOUS
  <1>2. /\ t \in Seq(S) /\ Len(t) = Len(l) - 1
        /\ \A i \in 1 .. Len(l) - 1 : t[i] = l[i + 1]
    BY <1>1, TailRest
  <1>3. Len(t) >= 1
    BY <1>1, <1>2
  <1>4. t # <<>>
    BY <1>2, <1>3, NotEmpty
  <1>5. /\ Tail(t) \in Seq(S) /\ Len(Tail(t)) = Len(t) - 1
        /\ \A i \in 1 .. Len(t) - 1 : Tail(t)[i] = t[i + 1]
    BY <1>2, <1>4, TailRest
  <1>6. ASSUME NEW i \in 1 .. Len(l) - 2
        PROVE  Tail(t)[i] = l[i + 2]
    <2>1. i \in 1 .. Len(t) - 1 /\ i + 1 \in 1 .. Len(l) - 1 /\ (i + 1) + 1 = i + 2
      BY <1>1, <1>2
    <2>. QED
      BY <1>2, <1>5, <2>1
  <1>. QED
    BY <1>1, <1>2, <1>5, <1>6

\* The first elements of a sequence are replaced.
Replaced(l, k, x) == [l EXCEPT ![k] = x]

LEMMA HeadReplaced ==
    ASSUME NEW S, NEW l \in Seq(S), l # <<>>, NEW x
    PROVE  <<x>> \o Tail(l) = Replaced(l, 1, x)
  BY DEF Replaced

LEMMA SecondReplaced ==
    ASSUME NEW S, NEW l \in Seq(S), Len(l) >= 2, NEW x \in S, NEW y \in S,
           NEW l1, l1 = Replaced(l, 1, x)
    PROVE  <<x>> \o <<y>> \o Tail(Tail(l)) = Replaced(l1, 2, y)
  <1>1. /\ Len(l) \in Nat /\ l # <<>> /\ 1 \in 1 .. Len(l) /\ 2 \in 1 .. Len(l)
        /\ <<x>> \in Seq(S) /\ <<y>> \in Seq(S)
    OBVIOUS
  <1>. PICK r : r = Tail(Tail(l))
    OBVIOUS
  <1>2. r \in Seq(S) /\ Len(r) = Len(l) - 2 /\ \A i \in 1 .. Len(l) - 2 : r[i] = l[i + 2]
    BY <1>1, SecondTail
  <1>. PICK u, t : u = <<x>> \o <<y>> /\ t = Replaced(l1, 2, y)
    OBVIOUS
  <1>3. <<x>> \o <<y>> \o r = u \o r
    OBVIOUS
  <1>4. u \in Seq(S) /\ Len(u) = 2 /\ u[1] = x /\ u[2] = y
    <2>. PICK a \in Seq(S), b \in Seq(S) :
              a = <<x>> /\ b = <<y>> /\ Len(a) = 1 /\ Len(b) = 1 /\ a[1] = x /\ b[1] = y
      BY <1>1
    <2>1. /\ a \o b \in Seq(S) /\ Len(a \o b) = Len(a) + Len(b)
          /\ \A i \in 1 .. Len(a) + Len(b) :
                 (a \o b)[i] = IF i <= Len(a) THEN a[i] ELSE b[i - Len(a)]
      BY ConcatProperties
    <2>2. /\ a \o b \in Seq(S) /\ Len(a \o b) = 2
          /\ (a \o b)[1] = a[1] /\ (a \o b)[2] = b[1]
      BY <2>1
    <2>. QED
      BY <2>2
  <1>5. /\ u \o r \in Seq(S) /\ Len(u \o r) = Len(l)
        /\ \A i \in 1 .. Len(l) : (u \o r)[i] = IF i <= 2 THEN u[i] ELSE r[i - 2]
    <2>1. /\ u \o r \in Seq(S) /\ Len(u \o r) = Len(u) + Len(r)
          /\ \A i \in 1 .. Len(u) + Len(r) :
                 (u \o r)[i] = IF i <= Len(u) THEN u[i] ELSE r[i - Len(u)]
      BY <1>2, <1>4, ConcatProperties
    <2>. QED
      BY <1>1, <1>2, <1>4, <2>1, SMTT(30)
  <1>6. /\ l1 \in Seq(S) /\ Len(l1) = Len(l)
        /\ \A i \in 1 .. Len(l) : l1[i] = IF i = 1 THEN x ELSE l[i]
    BY <1>1, ExceptSeq DEF Replaced
  <1>7. /\ t \in Seq(S) /\ Len(t) = Len(l)
        /\ \A i \in 1 .. Len(l) : t[i] = IF i = 2 THEN y ELSE l1[i]
    BY <1>1, <1>6, ExceptSeq DEF Replaced
  <1>8. ASSUME NEW i \in 1 .. Len(l)
        PROVE  (u \o r)[i] = t[i]
    <2>1. CASE i <= 2
      <3>1. i = 1 \/ i = 2
        BY <2>1
      <3>2. 1 \in 1 .. Len(l) /\ 2 \in 1 .. Len(l) /\ 1 <= 2 /\ 2 <= 2 /\ 1 # 2
        BY <1>1
      <3>3. (u \o r)[1] = x /\ t[1] = x
        BY <1>4, <1>5, <1>6, <1>7, <3>2
      <3>4. (u \o r)[2] = y /\ t[2] = y
        BY <1>4, <1>5, <1>7, <3>2
      <3>. QED
        BY <3>1, <3>3, <3>4
    <2>2. CASE ~(i <= 2)
      <3>1. i - 2 \in 1 .. Len(l) - 2 /\ (i - 2) + 2 = i /\ i # 1 /\ i # 2
        BY <1>1, <2>2
      <3>2. (u \o r)[i] = l[i]
        <4>. PICK k \in 1 .. Len(l) - 2 : k = i - 2 /\ k + 2 = i
          BY <3>1
        <4>1. r[k] = l[k + 2]
          BY <1>2
        <4>. QED
          BY <1>5, <2>2, <4>1
      <3>3. t[i] = l[i]
        BY <1>6, <1>7, <3>1
      <3>. QED
        BY <3>2, <3>3
    <2>. QED
      BY <2>1, <2>2
  <1>9. u \o r = t
    <2>. PICK v : v = u \o r
      OBVIOUS
    <2>1. /\ v \in Seq(S) /\ t \in Seq(S) /\ Len(v) = Len(t)
          /\ \A i \in 1 .. Len(v) : v[i] = t[i]
      BY <1>5, <1>7, <1>8
    <2>2. v = t
      BY <2>1, SeqEqual
    <2>. QED
      BY <2>2
  <1>. QED
    BY <1>3, <1>9

LEMMA SecondGone ==
    ASSUME NEW S, NEW l \in Seq(S), Len(l) >= 2, NEW x \in S,
           NEW l1, l1 = Replaced(l, 1, x)
    PROVE  <<x>> \o Tail(Tail(l)) = Cut(l1, 2)
  <1>1. /\ Len(l) \in Nat /\ l # <<>> /\ 1 \in 1 .. Len(l) /\ 2 \in 1 .. Len(l)
    OBVIOUS
  <1>. PICK r : r = Tail(Tail(l))
    OBVIOUS
  <1>2. r \in Seq(S) /\ Len(r) = Len(l) - 2 /\ \A i \in 1 .. Len(l) - 2 : r[i] = l[i + 2]
    BY <1>1, SecondTail
  <1>. PICK u, t : u = <<x>> /\ t = Cut(l1, 2)
    OBVIOUS
  <1>4. u \in Seq(S) /\ Len(u) = 1 /\ u[1] = x
    OBVIOUS
  <1>5. /\ u \o r \in Seq(S) /\ Len(u \o r) = Len(l) - 1
        /\ \A i \in 1 .. Len(l) - 1 : (u \o r)[i] = IF i <= 1 THEN u[i] ELSE r[i - 1]
    <2>1. /\ u \o r \in Seq(S) /\ Len(u \o r) = Len(u) + Len(r)
          /\ \A i \in 1 .. Len(u) + Len(r) :
                 (u \o r)[i] = IF i <= Len(u) THEN u[i] ELSE r[i - Len(u)]
      BY <1>2, <1>4, ConcatProperties
    <2>2. Len(u) + Len(r) = Len(l) - 1
      BY <1>1, <1>2, <1>4
    <2>. QED
      BY <1>4, <2>1, <2>2
  <1>6. /\ l1 \in Seq(S) /\ Len(l1) = Len(l)
        /\ \A i \in 1 .. Len(l) : l1[i] = IF i = 1 THEN x ELSE l[i]
    BY <1>1, ExceptSeq DEF Replaced
  <1>7. /\ t \in Seq(S) /\ Len(t) = Len(l) - 1
        /\ \A i \in 1 .. 2 - 1 : t[i] = l1[i]
        /\ \A i \in 2 .. Len(l) - 1 : t[i] = l1[i + 1]
    <2>1. ASSUME NEW f \in Seq(S), NEW k \in 1 .. Len(f)
          PROVE  /\ Cut(f, k) \in Seq(S) /\ Len(Cut(f, k)) = Len(f) - 1
                 /\ \A i \in 1 .. k - 1 : Cut(f, k)[i] = f[i]
                 /\ \A i \in k .. Len(f) - 1 : Cut(f, k)[i] = f[i + 1]
      BY CutRest
    <2>2. l1 \in Seq(S) /\ 2 \in 1 .. Len(l1)
      BY <1>1, <1>6
    <2>3. Cut(l1, 2) \in Seq(S) /\ Len(Cut(l1, 2)) = Len(l1) - 1
      BY <2>1, <2>2
    <2>4. \A i \in 1 .. 2 - 1 : Cut(l1, 2)[i] = l1[i]
      BY <2>1, <2>2
    <2>5. \A i \in 2 .. Len(l1) - 1 : Cut(l1, 2)[i] = l1[i + 1]
      BY <2>1, <2>2
    <2>. QED
      BY <1>6, <2>3, <2>4, <2>5
  <1>8. ASSUME NEW i \in 1 .. Len(l) - 1
        PROVE  (u \o r)[i] = t[i]
    <2>1. CASE i <= 1
      <3>1. i = 1 /\ i \in 1 .. 2 - 1 /\ i \in 1 .. Len(l)
        BY <1>1, <2>1
      <3>. QED
        BY <1>4, <1>5, <1>6, <1>7, <2>1, <3>1
    <2>2. CASE ~(i <= 1)
      <3>1. /\ i - 1 \in 1 .. Len(l) - 2 /\ (i - 1) + 2 = i + 1 /\ i \in 2 .. Len(l) - 1
            /\ i + 1 \in 1 .. Len(l) /\ i + 1 # 1
        BY <1>1, <2>2
      <3>2. (u \o r)[i] = l[i + 1]
        BY <1>2, <1>5, <2>2, <3>1
      <3>3. t[i] = l[i + 1]
        BY <1>6, <1>7, <3>1
      <3>. QED
        BY <3>2, <3>3
    <2>. QED
      BY <2>1, <2>2
  <1>. QED
    BY <1>5, <1>7, <1>8, SeqEqual

MarkedOnly(s, s2, j) ==
    /\ Len(s2) = Len(s)
    /\ \A i \in 1 .. Len(s) : s2[i].of = s[i].of /\ s2[i].at = s[i].at
    /\ \A i \in 1 .. Len(s) : i # j => s2[i] = s[i]
    /\ ~IsHeader(s2[j])

LEMMA LabelsMarked ==
    ASSUME NEW s, NEW l, Labels(s, l), NEW k \in 1 .. Len(l), NEW j, j = k + 1,
           NEW x, Marks(s[j], x),
           NEW s2, s2 = Marked(s, j, x), NEW l2, l2 = Replaced(l, k, x)
    PROVE  Labels(s2, l2) /\ MarkedOnly(s, s2, j)
  <1>1. /\ s \in Seq(Token) /\ l \in Seq(Part) /\ Len(s) = Len(l) + 1
        /\ \A i \in 1 .. Len(l) : s[i + 1].of \in Message /\ l[i] = PartOf(s[i + 1])
    BY DEF Labels
  <1>2. /\ Len(l) \in Nat /\ k \in Int /\ 1 <= k /\ k <= Len(l) /\ Len(s) \in Nat
        /\ j \in 1 .. Len(s)
    BY <1>1
  <1>. PICK t, u : t = s[j] /\ u = [t EXCEPT !.part = x]
    OBVIOUS
  <1>3. t \in Token
    BY <1>1, <1>2
  <1>4. /\ u \in Token /\ u.of = t.of /\ u.at = t.at /\ u.part = x /\ ~IsHeader(u)
    BY <1>3, MarkedToken
  <1>5. s2 = [s EXCEPT ![j] = u]
    BY <1>2, <1>1 DEF Marked
  <1>6. /\ s2 \in Seq(Token) /\ Len(s2) = Len(s) /\ s2[j] = u
        /\ \A i \in 1 .. Len(s) : i # j => s2[i] = s[i]
    <2>1. /\ s2 \in Seq(Token) /\ Len(s2) = Len(s)
          /\ \A i \in 1 .. Len(s) : s2[i] = IF i = j THEN u ELSE s[i]
      <3>1. /\ [s EXCEPT ![j] = u] \in Seq(Token)
            /\ Len([s EXCEPT ![j] = u]) = Len(s)
            /\ \A i \in 1 .. Len(s) : [s EXCEPT ![j] = u][i] = IF i = j THEN u ELSE s[i]
        BY <1>1, <1>2, <1>4, ExceptSeq
      <3>. QED
        BY <1>5, <3>1
    <2>. QED
      BY <1>2, <2>1
  <1>7. x \in Part
    BY PartSets DEF Marks
  <1>8. /\ l2 \in Seq(Part) /\ Len(l2) = Len(l) /\ l2[k] = x
        /\ \A i \in 1 .. Len(l) : i # k => l2[i] = l[i]
    BY <1>1, <1>2, <1>7 DEF Replaced
  <1>9. ASSUME NEW i \in 1 .. Len(l2)
        PROVE  s2[i + 1].of \in Message /\ l2[i] = PartOf(s2[i + 1])
    <2>1. i \in 1 .. Len(l) /\ i + 1 \in 1 .. Len(s)
      BY <1>1, <1>2, <1>8
    <2>2. CASE i = k
      BY <1>1, <1>4, <1>6, <1>8, <2>1, <2>2 DEF PartOf
    <2>3. CASE i # k
      <3>1. i + 1 # j
        BY <1>2, <2>1, <2>3
      <3>. QED
        BY <1>1, <1>6, <1>8, <2>1, <2>3, <3>1
    <2>. QED
      BY <2>2, <2>3
  <1>10. Labels(s2, l2)
    BY <1>1, <1>6, <1>8, <1>9 DEF Labels
  <1>11. \A i \in 1 .. Len(s) : s2[i].of = s[i].of /\ s2[i].at = s[i].at
    BY <1>4, <1>6
  <1>. QED
    BY <1>4, <1>6, <1>10, <1>11 DEF MarkedOnly

LEMMA LabelsConcat ==
    ASSUME NEW s, NEW l, Labels(s, l), NEW w \in Seq(Token), NEW out \in Seq(Part),
           Len(w) = Len(out),
           \A i \in 1 .. Len(out) : w[i].of \in Message /\ out[i] = PartOf(w[i])
    PROVE  Labels(s \o w, l \o out) /\ (s \o w)[1] = s[1]
  <1>0. s \in Seq(Token) /\ l \in Seq(Part)
    BY DEF Labels
  <1>1. /\ s \in Seq(Token) /\ l \in Seq(Part) /\ Len(s) = Len(l) + 1
        /\ \A i \in 1 .. Len(l) : s[i + 1].of \in Message /\ l[i] = PartOf(s[i + 1])
    BY DEF Labels
  <1>2. /\ s \o w \in Seq(Token) /\ Len(s \o w) = Len(s) + Len(w)
        /\ Len(s) \in Nat /\ Len(w) \in Nat
        /\ \A i \in 1 .. Len(s) : (s \o w)[i] = s[i]
        /\ \A i \in 1 .. Len(w) : (s \o w)[Len(s) + i] = w[i]
    <2>1. \A u, v \in Seq(Token) :
              /\ u \o v \in Seq(Token) /\ Len(u \o v) = Len(u) + Len(v)
              /\ Len(u) \in Nat /\ Len(v) \in Nat
              /\ \A i \in 1 .. Len(u) : (u \o v)[i] = u[i]
              /\ \A i \in 1 .. Len(v) : (u \o v)[Len(u) + i] = v[i]
      BY ConcatElements
    <2>. QED
      BY <1>0, <2>1
  <1>3. /\ l \o out \in Seq(Part) /\ Len(l \o out) = Len(l) + Len(out)
        /\ Len(l) \in Nat /\ Len(out) \in Nat
        /\ \A i \in 1 .. Len(l) + Len(out) :
              \/ i \in 1 .. Len(l) /\ (l \o out)[i] = l[i]
              \/ i - Len(l) \in 1 .. Len(out) /\ (l \o out)[i] = out[i - Len(l)]
    BY <1>0, ConcatElements
  <1>4. ASSUME NEW i \in 1 .. Len(l \o out)
        PROVE  /\ (s \o w)[i + 1].of \in Message
               /\ (l \o out)[i] = PartOf((s \o w)[i + 1])
    <2>0. i \in 1 .. Len(l) + Len(out) /\ i \in Int
      BY <1>3
    <2>1. CASE i \in 1 .. Len(l) /\ (l \o out)[i] = l[i]
      <3>1. i + 1 \in 1 .. Len(s)
        BY <1>1, <1>3, <2>1
      <3>. QED
        BY <1>1, <1>2, <2>1, <3>1
    <2>2. CASE i - Len(l) \in 1 .. Len(out) /\ (l \o out)[i] = out[i - Len(l)]
      <3>1. i - Len(l) \in 1 .. Len(w) /\ i + 1 = Len(s) + (i - Len(l))
        BY <1>1, <1>3, <2>0, <2>2
      <3>2. (s \o w)[i + 1] = w[i - Len(l)]
        BY <1>2, <3>1
      <3>. QED
        BY <2>2, <3>2
    <2>. QED
      BY <1>3, <2>0, <2>1, <2>2
  <1>5. Len(s \o w) = Len(l \o out) + 1 /\ 1 \in 1 .. Len(s)
    BY <1>1, <1>2, <1>3
  <1>. QED
    BY <1>2, <1>3, <1>4, <1>5 DEF Labels

LEMMA ChainedTail ==
    ASSUME NEW s \in Seq(Token), Len(s) >= 2
    PROVE  /\ Chained(s) => Chained(Tail(s))
           /\ Unbroken(s) => Unbroken(Tail(s))
  <1>1. /\ Len(s) \in Nat /\ s # <<>>
    OBVIOUS
  <1>2. /\ Len(Tail(s)) = Len(s) - 1
        /\ \A i \in 1 .. Len(s) - 1 : Tail(s)[i] = s[i + 1]
    BY <1>1, TailRest
  <1>3. ASSUME NEW i \in 1 .. Len(Tail(s)) - 1
        PROVE  /\ i + 1 \in 1 .. Len(s) - 1
               /\ Tail(s)[i] = s[i + 1] /\ Tail(s)[i + 1] = s[(i + 1) + 1]
    BY <1>1, <1>2
  <1>. QED
    BY <1>3 DEF Chained, Unbroken

LEMMA AllowedOver ==
    ASSUME NEW t \in Token, NEW u \in Token, NEW v \in Token,
           Allowed(t, u), Allowed(u, v), u.at # 2
    PROVE  Allowed(t, v)
  <1>1. t.at \in 1 .. 5 /\ u.at \in 1 .. 5 /\ v.at \in 1 .. 5
    BY DEF Token
  <1>2. CASE v.at = 2
    BY <1>1, <1>2 DEF Allowed
  <1>3. CASE v.at = 1
    BY <1>1, <1>3 DEF Allowed
  <1>4. CASE v.at \in 3 .. 5
    <2>1. u.of = v.of /\ u.at \in 2 .. v.at - 1
      BY <1>1, <1>4 DEF Allowed
    <2>2. u.at \in 3 .. 5
      BY <1>1, <1>4, <2>1
    <2>3. t.of = u.of /\ t.at \in 2 .. u.at - 1
      BY <1>1, <2>2 DEF Allowed
    <2>. QED
      BY <1>1, <1>4, <2>1, <2>2, <2>3 DEF Allowed
  <1>. QED
    BY <1>1, <1>2, <1>3, <1>4

LEMMA ChainedCut ==
    ASSUME NEW s \in Seq(Token), NEW k \in 2 .. Len(s), Chained(s), s[k].at # 2
    PROVE  Chained(Cut(s, k))
  <1>1. Len(s) \in Nat /\ k \in Int /\ 2 <= k /\ k <= Len(s) /\ k \in 1 .. Len(s)
    OBVIOUS
  <1>. PICK s2 : s2 = Cut(s, k)
    OBVIOUS
  <1>2. /\ Len(s2) = Len(s) - 1
        /\ \A i \in 1 .. k - 1 : s2[i] = s[i]
        /\ \A i \in k .. Len(s) - 1 : s2[i] = s[i + 1]
    BY <1>1, CutRest
  <1>3. ASSUME NEW i \in 1 .. Len(s2) - 1
        PROVE  Allowed(s2[i], s2[i + 1])
    <2>1. i \in Int /\ i >= 1 /\ i + 2 <= Len(s)
      BY <1>1, <1>2
    <2>2. /\ Allowed(s[i], s[i + 1]) /\ Allowed(s[i + 1], s[(i + 1) + 1])
      <3>1. i \in 1 .. Len(s) - 1 /\ i + 1 \in 1 .. Len(s) - 1
        BY <1>1, <2>1
      <3>. QED
        BY <3>1 DEF Chained
    <2>3. CASE i + 1 < k
      <3>1. i \in 1 .. k - 1 /\ i + 1 \in 1 .. k - 1
        BY <1>1, <2>1, <2>3
      <3>. QED
        BY <1>2, <2>2, <3>1
    <2>4. CASE i + 1 = k
      <3>1. i \in 1 .. k - 1 /\ i + 1 \in k .. Len(s) - 1
        BY <1>1, <2>1, <2>4
      <3>2. s2[i] = s[i] /\ s2[i + 1] = s[(i + 1) + 1]
        BY <1>2, <3>1
      <3>3. s[i] \in Token /\ s[i + 1] \in Token /\ s[(i + 1) + 1] \in Token
        BY <1>1, <2>1
      <3>4. Allowed(s[i], s[(i + 1) + 1])
        BY <2>2, <2>4, <3>3, AllowedOver
      <3>. QED
        BY <3>2, <3>4
    <2>5. CASE k < i + 1
      <3>1. i \in k .. Len(s) - 1 /\ i + 1 \in k .. Len(s) - 1
        BY <1>1, <2>1, <2>5
      <3>. QED
        BY <1>2, <2>2, <3>1
    <2>. QED
      BY <1>1, <2>1, <2>3, <2>4, <2>5
  <1>. QED
    BY <1>3 DEF Chained

LEMMA ChainedConcat ==
    ASSUME NEW s \in Seq(Token), NEW w \in Seq(Token), s # <<>>, w # <<>>
    PROVE  /\ Final(s \o w) = Final(w)
           /\ Chained(s) /\ Chained(w) /\ Allowed(Final(s), w[1]) => Chained(s \o w)
           /\ Unbroken(s) /\ Unbroken(w) /\ Next5(Final(s), w[1]) => Unbroken(s \o w)
  <1>1. /\ Len(s) \in Nat /\ Len(w) \in Nat /\ Len(s) >= 1 /\ Len(w) >= 1
        /\ Len(s \o w) = Len(s) + Len(w)
        /\ \A i \in 1 .. Len(s) : (s \o w)[i] = s[i]
        /\ \A i \in 1 .. Len(w) : (s \o w)[Len(s) + i] = w[i]
    BY ConcatElements
  <1>2. Final(s \o w) = Final(w)
    BY <1>1 DEF Final
  <1>3. ASSUME NEW i \in 1 .. Len(s \o w) - 1
        PROVE  \/ /\ i \in 1 .. Len(s) - 1
                  /\ (s \o w)[i] = s[i] /\ (s \o w)[i + 1] = s[i + 1]
               \/ (s \o w)[i] = Final(s) /\ (s \o w)[i + 1] = w[1]
               \/ /\ i - Len(s) \in 1 .. Len(w) - 1
                  /\ (s \o w)[i] = w[i - Len(s)]
                  /\ (s \o w)[i + 1] = w[(i - Len(s)) + 1]
    <2>0. i \in Int /\ 1 <= i /\ i < Len(s) + Len(w)
      BY <1>1
    <2>1. CASE i < Len(s)
      BY <1>1, <2>0, <2>1
    <2>2. CASE i = Len(s)
      <3>1. (s \o w)[i] = Final(s)
        BY <1>1, <2>2 DEF Final
      <3>2. 1 \in 1 .. Len(w)
        BY <1>1
      <3>3. (s \o w)[Len(s) + 1] = w[1]
        BY <1>1, <3>2
      <3>. QED
        BY <2>2, <3>1, <3>3
    <2>3. CASE i > Len(s)
      <3>1. /\ i - Len(s) \in 1 .. Len(w) - 1 /\ (i - Len(s)) + 1 \in 1 .. Len(w)
            /\ i - Len(s) \in 1 .. Len(w)
            /\ i = Len(s) + (i - Len(s)) /\ i + 1 = Len(s) + ((i - Len(s)) + 1)
        BY <1>1, <2>0, <2>3
      <3>2. (s \o w)[Len(s) + (i - Len(s))] = w[i - Len(s)]
        BY <1>1, <3>1
      <3>3. (s \o w)[Len(s) + ((i - Len(s)) + 1)] = w[(i - Len(s)) + 1]
        BY <1>1, <3>1
      <3>. QED
        BY <3>1, <3>2, <3>3
    <2>. QED
      BY <1>1, <2>0, <2>1, <2>2, <2>3
  <1>4. Chained(s) /\ Chained(w) /\ Allowed(Final(s), w[1]) => Chained(s \o w)
    BY <1>3 DEF Chained
  <1>5. Unbroken(s) /\ Unbroken(w) /\ Next5(Final(s), w[1]) => Unbroken(s \o w)
    BY <1>3 DEF Unbroken
  <1>. QED
    BY <1>2, <1>4, <1>5

\* Which headers are live after the same changes.
LEMMA LiveTail ==
    ASSUME NEW s \in Seq(Token), Len(s) >= 2, NEW i, IsLive(Tail(s), i)
    PROVE  i \in Int /\ IsLive(s, i + 1) /\ Tail(s)[i] = s[i + 1]
  <1>1. Len(s) \in Nat /\ s # <<>>
    OBVIOUS
  <1>2. /\ Len(Tail(s)) = Len(s) - 1
        /\ \A j \in 1 .. Len(s) - 1 : Tail(s)[j] = s[j + 1]
    BY <1>1, TailRest
  <1>3. i \in 2 .. Len(s) - 1 /\ i \in Int /\ i - 1 \in 1 .. Len(s) - 1
    BY <1>1, <1>2 DEF IsLive
  <1>4. Tail(s)[i] = s[i + 1] /\ Tail(s)[i - 1] = s[(i + 1) - 1]
    BY <1>1, <1>2, <1>3
  <1>. QED
    BY <1>1, <1>3, <1>4 DEF IsLive

LEMMA LiveCut ==
    ASSUME NEW s \in Seq(Token), NEW k \in 2 .. Len(s), Chained(s), s[k].at # 2,
           \A j \in 2 .. k - 1 : ~IsLive(s, j),
           NEW s2, s2 = Cut(s, k), NEW i, IsLive(s2, i)
    PROVE  i \in Int /\ IsLive(s, i + 1) /\ s2[i] = s[i + 1]
  <1>1. Len(s) \in Nat /\ k \in Int /\ 2 <= k /\ k <= Len(s) /\ k \in 1 .. Len(s)
    OBVIOUS
  <1>2. /\ Len(s2) = Len(s) - 1
        /\ \A j \in 1 .. k - 1 : s2[j] = s[j]
        /\ \A j \in k .. Len(s) - 1 : s2[j] = s[j + 1]
    BY <1>1, CutRest
  <1>3. i \in 2 .. Len(s) - 1 /\ i \in Int /\ 2 <= i /\ i <= Len(s) - 1
    BY <1>1, <1>2 DEF IsLive
  <1>4. i >= k
    <2>1. SUFFICES ASSUME ~(i >= k) PROVE FALSE
      OBVIOUS
    <2>2. i \in 1 .. k - 1 /\ i - 1 \in 1 .. k - 1 /\ i \in 2 .. k - 1 /\ i \in 2 .. Len(s)
      BY <1>1, <1>3, <2>1
    <2>3. s2[i] = s[i] /\ s2[i - 1] = s[i - 1]
      BY <1>2, <2>2
    <2>4. IsLive(s, i)
      BY <2>2, <2>3 DEF IsLive
    <2>. QED
      BY <2>2, <2>4
  <1>5. s2[i] = s[i + 1]
    <2>1. i \in k .. Len(s) - 1
      BY <1>1, <1>3, <1>4
    <2>. QED
      BY <1>2, <2>1
  <1>6. s[(i + 1) - 1].at \in {1, 5}
    <2>1. CASE i = k
      <3>1. Allowed(s[k - 1], s[k])
        <4>1. k - 1 \in 1 .. Len(s) - 1 /\ (k - 1) + 1 = k
          BY <1>1
        <4>. QED
          BY <4>1 DEF Chained
      <3>2. s[k - 1].at \in {1, 5}
        <4>1. k - 1 \in 1 .. k - 1
          BY <1>1
        <4>. QED
          BY <1>2, <2>1, <4>1 DEF IsLive
      <3>3. s[k].at \in 1 .. 5
        <4>1. s[k] \in Token
          BY <1>1
        <4>. QED
          BY <4>1 DEF Token
      <3>4. s[k].at \in {1, 5}
        BY <3>1, <3>2, <3>3 DEF Allowed
      <3>5. (i + 1) - 1 = k
        BY <1>1, <2>1
      <3>. QED
        BY <3>4, <3>5
    <2>2. CASE i # k
      <3>1. i - 1 \in k .. Len(s) - 1 /\ (i - 1) + 1 = (i + 1) - 1
        BY <1>1, <1>3, <1>4, <2>2
      <3>2. s2[i - 1] = s[(i + 1) - 1]
        BY <1>2, <3>1
      <3>. QED
        BY <3>2 DEF IsLive
    <2>. QED
      BY <2>1, <2>2
  <1>7. i + 1 \in 2 .. Len(s)
    BY <1>1, <1>3
  <1>. QED
    BY <1>3, <1>5, <1>6, <1>7 DEF IsLive

\* Where the header at i of t = s \o w comes from.
LiveIn(s, w, t, i) ==
    \/ IsLive(s, i) /\ t[i] = s[i]
    \/ /\ w # <<>> /\ i = Len(s) + 1 /\ t[i] = w[1]
       /\ w[1].at = 2 /\ Final(s).at \in {1, 5}
    \/ /\ i - Len(s) \in Int /\ IsLive(w, i - Len(s))
       /\ t[i] = w[i - Len(s)]

LEMMA LiveConcat ==
    ASSUME NEW s \in Seq(Token), NEW w \in Seq(Token), s # <<>>,
           NEW t, t = s \o w, NEW i, IsLive(t, i)
    PROVE  LiveIn(s, w, t, i)
  <1>1. /\ Len(s) \in Nat /\ Len(w) \in Nat /\ Len(s) >= 1
        /\ Len(t) = Len(s) + Len(w)
        /\ \A j \in 1 .. Len(s) : t[j] = s[j]
        /\ \A j \in 1 .. Len(w) : t[Len(s) + j] = w[j]
    BY ConcatElements
  <1>2. i \in Int /\ 2 <= i /\ i <= Len(s) + Len(w)
    BY <1>1 DEF IsLive
  <1>3. CASE i <= Len(s)
    BY <1>1, <1>2, <1>3 DEF IsLive, LiveIn
  <1>4. CASE i = Len(s) + 1
    <2>1. 1 \in 1 .. Len(w) /\ Len(s) \in 1 .. Len(s) /\ i - 1 = Len(s)
      BY <1>1, <1>2, <1>4
    <2>2. t[i] = w[1] /\ t[i - 1] = Final(s)
      BY <1>1, <1>4, <2>1 DEF Final
    <2>3. w # <<>>
      BY <1>1, <2>1
    <2>. QED
      BY <1>4, <2>2, <2>3 DEF IsLive, LiveIn
  <1>5. CASE i > Len(s) + 1
    <2>1. /\ i - Len(s) \in 2 .. Len(w) /\ i - Len(s) \in 1 .. Len(w)
          /\ (i - Len(s)) - 1 \in 1 .. Len(w)
          /\ i = Len(s) + (i - Len(s)) /\ i - 1 = Len(s) + ((i - Len(s)) - 1)
      BY <1>1, <1>2, <1>5
    <2>2. t[Len(s) + (i - Len(s))] = w[i - Len(s)]
      BY <1>1, <2>1
    <2>3. t[Len(s) + ((i - Len(s)) - 1)] = w[(i - Len(s)) - 1]
      BY <1>1, <2>1
    <2>. QED
      BY <1>1, <1>2, <2>1, <2>2, <2>3 DEF IsLive, LiveIn
  <1>. QED
    BY <1>1, <1>2, <1>3, <1>4, <1>5

-----------------------------------------------------------------------------
(* Stations and wires                                                      *)

\* What n keeps of the frame whose header it read last, x being its message and c the
\* byte it read last.
Keeps(n, c, x) ==
    /\ x \in Message
    /\ receiveBuffer[n] = [type |-> TypeFor(n, Wire(x)), source |-> Address[Source[x]]]
    /\ status[n].destination = (TypeFor(n, Wire(x)) # "ANY")
    /\ status[n].source = (Address[Source[x]] = Address[n])
    /\ ~status[n].destination => crc[n] = <<>>
    /\ status[n].destination => crc[n] # <<>> /\ crc[n][1] = Header(x)
    /\ Len(crc[n]) = 1 => c.of = x /\ c.at = 2
    /\ Len(crc[n]) > 1 /\ crc[n][2].part = "payload" => crc[n][2].value = x

\* Of a frame whose addresses were misread nothing counts: what the check sequence covers
\* does not begin with a header.
Garbled(n, x) ==
    /\ x = Nobody
    /\ ~status[n].destination => crc[n] = <<>>
    /\ status[n].destination => crc[n] # <<>> /\ crc[n][1].part = "misread"

\* The state of n follows from c, and while n passes on a frame, z, what it has written
\* last, is c or, if that was lost meanwhile, before it in the frame.
Follows(n, c, z, x) ==
    /\ length[n] > 0 => status[n].start /\ length[n] >= 4
    /\ status[n].end => ~status[n].start
    /\ status[n].start /\ length[n] = 0 => c.at \in {1, 5} /\ crc[n] = <<>>
    /\ ~status[n].start => crc[n] = <<>>
    /\ length[n] > 0 => c.at \in 2 .. 4 /\ (Keeps(n, c, x) \/ Garbled(n, x))
    /\ length[n] > 0 /\ PassesOn(n) => z.of = c.of /\ z.at \in 2 .. c.at

Wired(s, l) == Labels(s, l) /\ Chained(s) /\ Final(s).at # 1

\* T[p]: the stream of the wire of p; h[n]: whose header n has read last, of those that
\* were not misread.
Tokens(T, h) ==
    /\ T \in [Station -> Seq(Token)] /\ h \in [Station -> Message \cup {Nobody}]
    /\ \A p \in Station : Wired(T[p], link[p])
    /\ \A n \in Station : Follows(n, T[Preceding(n)][1], Final(T[n]), h[n])

LEMMA PartOfToken ==
    ASSUME NEW t \in Token, t.of \in Message
    PROVE  /\ PartOf(t) \in Part
           /\ t.at = 1 => PartOf(t) = Start
           /\ t.at = 2 => PartOf(t) = Header(t.of) \/ PartOf(t) \in MisreadHeaders
           /\ t.at = 3 => PartOf(t) = Payload(t.of)
           /\ t.at = 4 => PartOf(t) = Check(t.of) \/ PartOf(t) = Torn
           /\ t.at = 5 => PartOf(t) = End
           /\ t.at = 1 <=> PartOf(t).part = "start"
           /\ t.at = 2 <=> PartOf(t).part \in {"header", "misread"}
           /\ t.at = 3 <=> PartOf(t).part = "payload"
           /\ t.at = 4 <=> PartOf(t).part \in {"check", "torn"}
           /\ t.at = 5 <=> PartOf(t).part = "end"
           /\ IsHeader(t) => PartOf(t) = Header(t.of) /\ t.at = 2
           /\ t.at = 2 /\ ~IsHeader(t) => PartOf(t) \in MisreadHeaders
  <1>1. t.at \in 1 .. 5 /\ Fitting(t) /\ PartOf(t) = t.part /\ t.part \in Part
    BY DEF Token, PartOf
  <1>2. CASE t.at = 1
    BY <1>1, <1>2, PartFields DEF Fitting, IsHeader
  <1>3. CASE t.at = 2
    BY <1>1, <1>3, PartFields DEF Fitting, IsHeader
  <1>4. CASE t.at = 3
    BY <1>1, <1>4, PartFields DEF Fitting, IsHeader
  <1>5. CASE t.at = 4
    BY <1>1, <1>5, PartFields DEF Fitting, IsHeader
  <1>6. CASE t.at = 5
    BY <1>1, <1>6, PartFields DEF Fitting, IsHeader
  <1>. QED
    BY <1>1, <1>2, <1>3, <1>4, <1>5, <1>6

\* The wires of two stations are two wires.
LEMMA PrecedingOfFollowing ==
    /\ \A n, k \in Station : Following[n] = Following[k] => n = k
    /\ \A n \in Station : Following[n] \in Station /\ Preceding(Following[n]) = n
  <1>1. PICK f : f = Following
    OBVIOUS
  <1>2. f \in [Station -> Station] /\ \A t \in Station : \E p \in Station : f[p] = t
    BY <1>1, RingAssumption
  <1>3. f \in Surjection(Station, Station)
    BY <1>2 DEF Surjection
  <1>4. f \in Injection(Station, Station)
    BY <1>3, RingAssumption, FS_Surjection
  <1>5. \A n, k \in Station : f[n] = f[k] => n = k
    BY <1>4 DEF Injection, IsInjective
  <1>. QED
    BY <1>1, <1>2, <1>5, PrecedingStation

-----------------------------------------------------------------------------
(* What a step does to the wires                                           *)

Forwards(n, header) == ~IsOwn(n, header) /\ TypeFor(n, header.destination) # "UNICAST"

\* What n writes when it reads u.
Emitted(n, u) ==
    IF u.at = 1 THEN <<>>
    ELSE IF u.at = 5 THEN IF Complete(n) /\ PassesOn(n) THEN <<u>> ELSE <<>>
    ELSE IF ~status[n].start THEN <<>>
    ELSE IF length[n] = 0
         THEN IF Forwards(n, PartOf(u)) THEN <<TokenOf(u.of, 1), u>> ELSE <<>>
    ELSE IF PassesOn(n) THEN <<u>> ELSE <<>>

AfterWrite(T, n, m) == [T EXCEPT ![n] = @ \o FrameTokens(m)]

AfterRead(T, n, w) ==
    LET rest == [T EXCEPT ![Preceding(n)] = Tail(@)] IN [rest EXCEPT ![n] = @ \o w]

AfterLoss(T, n, s) == [T EXCEPT ![n] = s]

\* The byte that n reads next, as a token.
Ahead(T, n) == T[Preceding(n)][2]

LEMMA StreamType ==
    ASSUME NEW s, NEW l, Wired(s, l)
    PROVE  /\ s \in Seq(Token) /\ l \in Seq(Part) /\ s # <<>> /\ Len(s) \in Nat
           /\ Len(s) = Len(l) + 1
           /\ s[1] \in Token /\ Final(s) \in Token
  <1>1. s \in Seq(Token) /\ l \in Seq(Part) /\ Len(s) = Len(l) + 1
    BY DEF Wired, Labels
  <1>2. Len(s) \in Nat /\ Len(l) \in Nat /\ Len(s) >= 1
    BY <1>1
  <1>. QED
    BY <1>1, <1>2 DEF Final

LEMMA TokenAhead ==
    ASSUME NEW T, NEW h, Tokens(T, h), NEW n \in Station, link[Preceding(n)] # <<>>
    PROVE  /\ Ahead(T, n) \in Token /\ Ahead(T, n).of \in Message
           /\ NextByte(n) = PartOf(Ahead(T, n))
           /\ Allowed(T[Preceding(n)][1], Ahead(T, n))
           /\ status[n].start /\ length[n] = 0 /\ IsData(n) => Ahead(T, n).at = 2
  <1>. PICK p \in Station : p = Preceding(n)
    BY PrecedingStation
  <1>1. Wired(T[p], link[p])
    BY DEF Tokens
  <1>2. /\ Len(T[p]) >= 2 /\ T[p][2] \in Token /\ T[p][2].of \in Message
        /\ Head(link[p]) = PartOf(T[p][2])
    BY <1>1, LabelsTail DEF Wired
  <1>3. Allowed(T[p][1], T[p][2])
    <2>1. Len(T[p]) \in Nat /\ Chained(T[p])
      BY <1>1, StreamType DEF Wired
    <2>2. 1 \in 1 .. Len(T[p]) - 1 /\ 1 + 1 = 2
      BY <1>2, <2>1
    <2>. QED
      BY <2>1, <2>2 DEF Chained
  <1>4. ASSUME status[n].start, length[n] = 0, IsData(n)
        PROVE  T[p][2].at = 2
    <2>1. Follows(n, T[p][1], Final(T[n]), h[n])
      BY DEF Tokens
    <2>2. T[p][1].at \in {1, 5}
      BY <1>4, <2>1 DEF Follows
    <2>3. T[p][2].at # 1
      BY <1>2, <1>4, PartOfToken DEF IsData, NextByte
    <2>. QED
      BY <1>3, <2>2, <2>3 DEF Allowed
  <1>. QED
    BY <1>2, <1>3, <1>4 DEF Ahead, NextByte

LEMMA EmittedParts ==
    ASSUME NEW T, NEW h, Tokens(T, h), NEW n \in Station, ReadByte(n),
           NEW w, w = Emitted(n, Ahead(T, n))
    PROVE  \E out \in Seq(Part) :
              /\ Read(n, out) /\ w \in Seq(Token) /\ Len(w) = Len(out)
              /\ \A i \in 1 .. Len(out) : w[i].of \in Message /\ out[i] = PartOf(w[i])
  <1>. PICK u : u = Ahead(T, n)
    OBVIOUS
  <1>1. link[Preceding(n)] # <<>>
    BY DEF ReadByte
  <1>2. /\ u \in Token /\ u.of \in Message /\ NextByte(n) = PartOf(u)
        /\ status[n].start /\ length[n] = 0 /\ IsData(n) => u.at = 2
    BY <1>1, TokenAhead
  <1>3. u.at \in 1 .. 5
    BY <1>2 DEF Token
  <1>4. Follows(n, T[Preceding(n)][1], Final(T[n]), h[n])
    BY DEF Tokens
  <1>5. ASSUME w = <<>>, Read(n, <<>>)
        PROVE  \E out \in Seq(Part) :
                  /\ Read(n, out) /\ w \in Seq(Token) /\ Len(w) = Len(out)
                  /\ \A i \in 1 .. Len(out) : w[i].of \in Message /\ out[i] = PartOf(w[i])
    <2>1. /\ <<>> \in Seq(Part) /\ <<>> \in Seq(Token) /\ Len(<<>>) = 0
          /\ \A i \in 1 .. 0 : FALSE
      OBVIOUS
    <2>. QED
      BY <1>5, <2>1
  <1>6. ASSUME w = <<u>>, Read(n, <<NextByte(n)>>)
        PROVE  \E out \in Seq(Part) :
                  /\ Read(n, out) /\ w \in Seq(Token) /\ Len(w) = Len(out)
                  /\ \A i \in 1 .. Len(out) : w[i].of \in Message /\ out[i] = PartOf(w[i])
    <2>1. PICK x \in Part : x = NextByte(n)
      BY <1>2, PartOfToken
    <2>2. /\ <<x>> \in Seq(Part) /\ <<u>> \in Seq(Token)
          /\ Len(<<x>>) = 1 /\ Len(<<u>>) = 1 /\ <<x>>[1] = x /\ <<u>>[1] = u
      BY <1>2
    <2>3. \A i \in 1 .. Len(<<x>>) : <<u>>[i].of \in Message /\ <<x>>[i] = PartOf(<<u>>[i])
      BY <1>2, <2>1, <2>2
    <2>. QED
      BY <1>6, <2>1, <2>2, <2>3
  <1>7. ASSUME w = <<TokenOf(u.of, 1), u>>, Read(n, <<Start, NextByte(n)>>)
        PROVE  \E out \in Seq(Part) :
                  /\ Read(n, out) /\ w \in Seq(Token) /\ Len(w) = Len(out)
                  /\ \A i \in 1 .. Len(out) : w[i].of \in Message /\ out[i] = PartOf(w[i])
    <2>1. PICK x \in Part : x = NextByte(n)
      BY <1>2, PartOfToken
    <2>2. PICK v : v = TokenOf(u.of, 1)
      OBVIOUS
    <2>3. v \in Token /\ v.of \in Message /\ v.at = 1
      BY <1>2, <2>2, TokenOfType
    <2>4. PICK y \in Part : y = Start /\ y = PartOf(v)
      BY <2>3, PartOfToken
    <2>5. /\ <<y, x>> \in Seq(Part) /\ <<v, u>> \in Seq(Token)
          /\ Len(<<y, x>>) = 2 /\ Len(<<v, u>>) = 2
          /\ <<y, x>>[1] = y /\ <<v, u>>[1] = v /\ <<y, x>>[2] = x /\ <<v, u>>[2] = u
      BY <1>2, <2>3
    <2>6. \A i \in 1 .. 2 : i = 1 \/ i = 2
      OBVIOUS
    <2>7. \A i \in 1 .. Len(<<y, x>>) :
              <<v, u>>[i].of \in Message /\ <<y, x>>[i] = PartOf(<<v, u>>[i])
      BY <1>2, <2>1, <2>3, <2>4, <2>5, <2>6
    <2>. QED
      BY <1>7, <2>1, <2>2, <2>4, <2>5, <2>7
  <1>8. CASE ReadStart(n)
    <2>1. u.at = 1
      BY <1>2, <1>8, PartOfToken DEF ReadStart
    <2>. QED
      BY <1>5, <1>8, <2>1 DEF ReadStart, Emitted
  <1>9. CASE ReadEnd(n)
    <2>1. u.at = 5 /\ NextByte(n) = End
      BY <1>2, <1>9, PartOfToken DEF ReadEnd
    <2>. QED
      BY <1>5, <1>6, <1>9, <2>1 DEF ReadEnd, Emitted
  <1>10. CASE ReadStray(n)
    <2>1. u.at # 1 /\ u.at # 5
      BY <1>2, <1>10, PartOfToken DEF ReadStray, IsData
    <2>. QED
      BY <1>5, <1>10, <2>1 DEF ReadStray, Emitted
  <1>11. CASE ReadHeader(n)
    <2>1. u.at = 2 /\ NextByte(n) = PartOf(u) /\ status[n].start /\ length[n] = 0
      BY <1>2, <1>11 DEF ReadHeader
    <2>2. CASE Forwards(n, PartOf(u))
      <3>1. Read(n, <<Start, NextByte(n)>>)
        BY <1>11, <2>1, <2>2 DEF ReadHeader, Forwards
      <3>2. w = <<TokenOf(u.of, 1), u>>
        BY <2>1, <2>2 DEF Emitted
      <3>. QED
        BY <1>7, <3>1, <3>2
    <2>3. CASE ~Forwards(n, PartOf(u))
      BY <1>5, <1>11, <2>1, <2>3 DEF ReadHeader, Emitted, Forwards
    <2>. QED
      BY <2>2, <2>3
  <1>12. CASE ReadPayload(n)
    <2>1. u.at # 1 /\ u.at # 5 /\ status[n].start /\ length[n] >= 4
      BY <1>2, <1>12, PartOfToken DEF ReadPayload, IsData
    <2>2. length[n] # 0
      BY <2>1
    <2>3. CASE PassesOn(n)
      BY <1>6, <1>12, <2>1, <2>2, <2>3 DEF ReadPayload, Emitted
    <2>4. CASE ~PassesOn(n)
      BY <1>5, <1>12, <2>1, <2>2, <2>4 DEF ReadPayload, Emitted
    <2>. QED
      BY <2>3, <2>4
  <1>. QED
    BY <1>8, <1>9, <1>10, <1>11, <1>12 DEF ReadByte

\* A station writes nothing, or a byte of the frame that it passes on, or, when the
\* addresses are complete, the beginning of a frame.
Emits(n, c, u, z, w) ==
    \/ w = <<>>
    \/ /\ w = <<u>> /\ u.at # 1
       /\ length[n] > 0 /\ PassesOn(n) /\ z.of = c.of /\ z.at \in 2 .. c.at /\ c.at <= 4
    \/ /\ w = <<TokenOf(u.of, 1), u>> /\ u.at = 2
       /\ status[n].start /\ length[n] = 0 /\ Forwards(n, PartOf(u))

LEMMA EmittedCases ==
    ASSUME TypeInv, NEW T, NEW h, Tokens(T, h), NEW n \in Station,
           link[Preceding(n)] # <<>>,
           NEW w, w = Emitted(n, Ahead(T, n))
    PROVE  Emits(n, T[Preceding(n)][1], Ahead(T, n), Final(T[n]), w)
  <1>. PICK u, c, z : u = Ahead(T, n) /\ c = T[Preceding(n)][1] /\ z = Final(T[n])
    OBVIOUS
  <1>1. /\ u \in Token /\ u.of \in Message /\ NextByte(n) = PartOf(u)
        /\ status[n].start /\ length[n] = 0 /\ IsData(n) => u.at = 2
    BY TokenAhead
  <1>2. Follows(n, c, z, h[n])
    BY DEF Tokens
  <1>3. length[n] \in Nat /\ u.at \in 1 .. 5
    BY <1>1 DEF TypeInv, TypeOK, Token
  <1>4. ASSUME u.at # 1, length[n] > 0, PassesOn(n), w = <<u>>
        PROVE  Emits(n, c, u, z, w)
    BY <1>2, <1>4 DEF Follows, Emits
  <1>5. CASE u.at = 5
    <2>1. w = IF Complete(n) /\ PassesOn(n) THEN <<u>> ELSE <<>>
      BY <1>5 DEF Emitted
    <2>2. Complete(n) => length[n] > 0
      BY <1>3 DEF Complete
    <2>. QED
      BY <1>4, <1>5, <2>1, <2>2 DEF Emits
  <1>6. CASE u.at # 1 /\ u.at # 5 /\ status[n].start /\ length[n] = 0
    <2>1. u.at = 2
      BY <1>1, <1>6, PartOfToken DEF IsData
    <2>2. w = IF Forwards(n, PartOf(u)) THEN <<TokenOf(u.of, 1), u>> ELSE <<>>
      BY <1>6 DEF Emitted
    <2>. QED
      BY <1>6, <2>1, <2>2 DEF Emits
  <1>7. CASE u.at # 1 /\ u.at # 5 /\ status[n].start /\ length[n] # 0
    <2>1. w = IF PassesOn(n) THEN <<u>> ELSE <<>>
      BY <1>7 DEF Emitted
    <2>2. length[n] > 0
      BY <1>3, <1>7
    <2>. QED
      BY <1>4, <1>7, <2>1, <2>2 DEF Emits
  <1>8. CASE u.at = 1 \/ (u.at # 5 /\ ~status[n].start)
    BY <1>8 DEF Emitted, Emits
  <1>. QED
    BY <1>5, <1>6, <1>7, <1>8

LEMMA EmitsChain ==
    ASSUME NEW n, NEW c \in Token, NEW u \in Token, NEW z \in Token, NEW w,
           u.of \in Message, Allowed(c, u), z.at # 1, Emits(n, c, u, z, w), w # <<>>
    PROVE  w \in Seq(Token) /\ Chained(w) /\ Allowed(z, w[1]) /\ Final(w) = u /\ u.at # 1
  <1>1. u.at \in 1 .. 5 /\ c.at \in 1 .. 5 /\ z.at \in 1 .. 5
    BY DEF Token
  <1>2. CASE w = <<u>> /\ u.at # 1 /\ z.of = c.of /\ z.at \in 2 .. c.at /\ c.at <= 4
    <2>1. Len(w) = 1 /\ w[1] = u /\ w \in Seq(Token)
      BY <1>2
    <2>2. Chained(w) /\ Final(w) = u
      BY <2>1 DEF Chained, Final
    <2>3. Allowed(z, u)
      BY <1>1, <1>2 DEF Allowed
    <2>. QED
      BY <1>2, <2>1, <2>2, <2>3
  <1>3. CASE w = <<TokenOf(u.of, 1), u>> /\ u.at = 2
    <2>1. PICK v : v = TokenOf(u.of, 1)
      OBVIOUS
    <2>2. v \in Token /\ v.of = u.of /\ v.at = 1
      BY <2>1, TokenOfType
    <2>3. w = <<v, u>>
      BY <1>3, <2>1
    <2>4. Len(w) = 2 /\ w[1] = v /\ w[2] = u /\ w \in Seq(Token)
      BY <2>2, <2>3
    <2>5. Allowed(v, u) /\ Allowed(z, v)
      BY <1>1, <1>3, <2>2 DEF Allowed
    <2>6. Chained(w)
      <3>1. \A i \in 1 .. Len(w) - 1 : i = 1
        BY <2>4
      <3>. QED
        BY <2>4, <2>5, <3>1 DEF Chained
    <2>7. Final(w) = u
      BY <2>4 DEF Final
    <2>. QED
      BY <1>3, <2>4, <2>5, <2>6, <2>7
  <1>. QED
    BY <1>2, <1>3 DEF Emits

\* The stream of a wire stays one when its first byte is read or lost, and when
\* something is written behind it.
LEMMA WiredTail ==
    ASSUME NEW s, NEW l, Wired(s, l), l # <<>>
    PROVE  Wired(Tail(s), Tail(l)) /\ Tail(s)[1] = s[2] /\ Final(Tail(s)) = Final(s)
  <1>1. s \in Seq(Token) /\ Len(s) >= 2
    BY LabelsTail DEF Wired, Labels
  <1>. QED
    BY <1>1, LabelsTail, ChainedTail DEF Wired

\* The end of a stream stands for less than before.
Sinks(z, z2) ==
    \/ z2.of = z.of /\ z2.at = z.at
    \/ z.at # 2 /\ Allowed(z2, z)

\* The stream s2 of l2 is what losses have left of s: its live headers are those of s, d
\* places further on.
Lesser(s, s2, l2, d) ==
    /\ Wired(s2, l2) /\ s2[1] = s[1] /\ Sinks(Final(s), Final(s2)) /\ d \in {0, 1}
    /\ \A i : IsLive(s2, i) => i \in Int /\ IsLive(s, i + d) /\ s2[i] = s[i + d]

LEMMA WiredMarked ==
    ASSUME NEW s, NEW l, Wired(s, l), NEW k \in 1 .. Len(l), NEW j, j = k + 1,
           NEW x, Marks(s[j], x),
           NEW s2, s2 = Marked(s, j, x), NEW l2, l2 = Replaced(l, k, x)
    PROVE  Lesser(s, s2, l2, 0) /\ ~IsLive(s2, j)
  <1>1. /\ s \in Seq(Token) /\ Len(s) \in Nat /\ Chained(s) /\ Final(s).at # 1
        /\ Len(s) = Len(l) + 1 /\ Labels(s, l)
    BY StreamType DEF Wired
  <1>2. /\ Labels(s2, l2) /\ Len(s2) = Len(s)
        /\ \A i \in 1 .. Len(s) : s2[i].of = s[i].of /\ s2[i].at = s[i].at
        /\ \A i \in 1 .. Len(s) : i # j => s2[i] = s[i]
        /\ ~IsHeader(s2[j])
    <2>1. Labels(s2, l2) /\ MarkedOnly(s, s2, j)
      BY <1>1, LabelsMarked
    <2>. QED
      BY <2>1 DEF MarkedOnly
  <1>3. Chained(s2)
    <2>. SUFFICES ASSUME NEW i \in 1 .. Len(s) - 1
                  PROVE  Allowed(s2[i], s2[i + 1])
      BY <1>2 DEF Chained
    <2>1. i \in 1 .. Len(s) /\ i + 1 \in 1 .. Len(s)
      BY <1>1
    <2>2. Allowed(s[i], s[i + 1])
      BY <1>1 DEF Chained
    <2>. QED
      BY <1>2, <2>1, <2>2 DEF Allowed
  <1>4. /\ Final(s2).of = Final(s).of /\ Final(s2).at = Final(s).at
    <2>1. Len(s) \in 1 .. Len(s)
      BY <1>1
    <2>. QED
      BY <1>2, <2>1 DEF Final
  <1>5. s2[1] = s[1]
    <2>1. 1 \in 1 .. Len(s) /\ 1 # j
      BY <1>1
    <2>. QED
      BY <1>2, <2>1
  <1>6. ASSUME NEW i, IsLive(s2, i)
        PROVE  i \in Int /\ i # j /\ IsLive(s, i + 0) /\ s2[i] = s[i + 0]
    <2>1. /\ i \in 2 .. Len(s) /\ i \in 1 .. Len(s) /\ i - 1 \in 1 .. Len(s)
          /\ i \in Int
      BY <1>1, <1>2, <1>6 DEF IsLive
    <2>2. i # j
      BY <1>2, <1>6 DEF IsLive
    <2>3. s2[i] = s[i] /\ s2[i - 1].at = s[i - 1].at
      BY <1>2, <2>1, <2>2
    <2>4. IsLive(s, i)
      BY <1>6, <2>1, <2>3 DEF IsLive
    <2>5. i + 0 = i
      BY <2>1
    <2>. QED
      BY <2>1, <2>2, <2>3, <2>4, <2>5
  <1>7. Wired(s2, l2) /\ Sinks(Final(s), Final(s2))
    BY <1>1, <1>2, <1>3, <1>4 DEF Wired, Sinks
  <1>8. ~IsLive(s2, j)
    BY <1>6
  <1>. QED
    BY <1>5, <1>6, <1>7, <1>8 DEF Lesser

LEMMA WiredCut ==
    ASSUME NEW s, NEW l, Wired(s, l), NEW k \in 1 .. Len(l), NEW j, j = k + 1,
           s[j].at # 2, \A i \in 2 .. k : ~IsLive(s, i),
           NEW s2, s2 = Cut(s, j), NEW l2, l2 = Cut(l, k)
    PROVE  Lesser(s, s2, l2, 1)
  <1>1. /\ s \in Seq(Token) /\ Len(s) \in Nat /\ Chained(s) /\ Final(s).at # 1
        /\ Len(s) = Len(l) + 1 /\ Labels(s, l)
    BY StreamType DEF Wired
  <1>2. /\ k \in Int /\ 1 <= k /\ k + 1 <= Len(s) /\ k + 1 \in 2 .. Len(s)
        /\ k + 1 \in 1 .. Len(s) /\ (k + 1) - 1 = k
    BY <1>1
  <1>3. Labels(s2, l2) /\ s2[1] = s[1]
    <2>1. s2 = Cut(s, k + 1)
      OBVIOUS
    <2>. QED
      BY <1>1, <2>1, LabelsCut
  <1>4. Chained(s2)
    BY <1>1, <1>2, ChainedCut
  <1>5. /\ Len(s2) = Len(s) - 1
        /\ \A i \in 1 .. (k + 1) - 1 : s2[i] = s[i]
        /\ \A i \in k + 1 .. Len(s) - 1 : s2[i] = s[i + 1]
    BY <1>1, <1>2, CutRest
  <1>6. Sinks(Final(s), Final(s2)) /\ Final(s2).at # 1
    <2>1. CASE k + 1 < Len(s)
      <3>1. Len(s) - 1 \in k + 1 .. Len(s) - 1 /\ (Len(s) - 1) + 1 = Len(s)
        BY <1>1, <1>2, <2>1
      <3>2. Final(s2) = Final(s)
        BY <1>5, <3>1 DEF Final
      <3>. QED
        BY <1>1, <3>2 DEF Sinks
    <2>2. CASE k + 1 = Len(s)
      <3>1. k \in 1 .. (k + 1) - 1 /\ k \in 1 .. Len(s) - 1 /\ Len(s) - 1 = k
        BY <1>1, <1>2, <2>2
      <3>2. Final(s) = s[k + 1] /\ Final(s2) = s[k]
        BY <1>5, <2>2, <3>1 DEF Final
      <3>3. Allowed(s[k], s[k + 1])
        BY <1>1, <3>1 DEF Chained
      <3>4. s[k].at \in 1 .. 5 /\ s[k + 1].at \in 1 .. 5
        <4>1. s[k] \in Token /\ s[k + 1] \in Token
          BY <1>1, <1>2, <3>1
        <4>. QED
          BY <4>1 DEF Token
      <3>5. s[k].at # 1
        BY <1>1, <3>2, <3>3, <3>4 DEF Allowed
      <3>. QED
        BY <3>2, <3>3, <3>5 DEF Sinks
    <2>. QED
      BY <1>1, <1>2, <2>1, <2>2
  <1>7. Wired(s2, l2)
    BY <1>3, <1>4, <1>6 DEF Wired
  <1>8. ASSUME NEW i, IsLive(s2, i)
        PROVE  i \in Int /\ IsLive(s, i + 1) /\ s2[i] = s[i + 1]
    <2>1. \A i1 \in 2 .. (k + 1) - 1 : ~IsLive(s, i1)
      BY <1>2
    <2>. PICK q \in 2 .. Len(s) : q = k + 1
      BY <1>2
    <2>2. /\ s[q].at # 2 /\ s2 = Cut(s, q) /\ \A i1 \in 2 .. q - 1 : ~IsLive(s, i1)
      BY <2>1
    <2>. QED
      BY <1>1, <1>8, <2>2, LiveCut
  <1>. QED
    BY <1>3, <1>6, <1>7, <1>8 DEF Lesser

\* One loss after the other.
LEMMA LesserTwice ==
    ASSUME NEW s, NEW s1, NEW l1, NEW s2, NEW l2, NEW d,
           Lesser(s, s1, l1, 0), Lesser(s1, s2, l2, d), Final(s).at # 1,
           Final(s) \in Token, Final(s1) \in Token, Final(s2) \in Token
    PROVE  Lesser(s, s2, l2, d)
  <1>1. s2[1] = s[1]
    BY DEF Lesser
  <1>2. ASSUME NEW i, IsLive(s2, i)
        PROVE  i \in Int /\ IsLive(s, i + d) /\ s2[i] = s[i + d]
    <2>. PICK j : j = i + d
      OBVIOUS
    <2>1. i \in Int /\ IsLive(s1, j) /\ s2[i] = s1[j]
      BY <1>2 DEF Lesser
    <2>2. j \in Int /\ IsLive(s, j + 0) /\ s1[j] = s[j + 0]
      BY <2>1 DEF Lesser
    <2>3. j + 0 = j
      BY <2>2
    <2>. QED
      BY <2>1, <2>2, <2>3
  <1>3. Sinks(Final(s), Final(s2))
    <2>. PICK z, y, x : z = Final(s) /\ y = Final(s1) /\ x = Final(s2)
      OBVIOUS
    <2>1. Sinks(z, y) /\ Sinks(y, x)
      BY DEF Lesser
    <2>2. x \in Token /\ y \in Token /\ z \in Token
      OBVIOUS
    <2>3. CASE y.of = z.of /\ y.at = z.at
      BY <2>1, <2>3 DEF Sinks, Allowed
    <2>4. CASE z.at # 2 /\ Allowed(y, z) /\ x.of = y.of /\ x.at = y.at
      BY <2>4 DEF Sinks, Allowed
    <2>5. CASE z.at # 2 /\ Allowed(y, z) /\ y.at # 2 /\ Allowed(x, y)
      <3>1. Allowed(x, z)
        BY <2>2, <2>5, AllowedOver
      <3>. QED
        BY <2>5, <3>1 DEF Sinks
    <2>. QED
      BY <2>1, <2>3, <2>4, <2>5 DEF Sinks
  <1>. QED
    BY <1>1, <1>2, <1>3 DEF Lesser

LEMMA WiredConcat ==
    ASSUME NEW s, NEW l, Wired(s, l), NEW w \in Seq(Token), NEW out \in Seq(Part),
           Len(w) = Len(out),
           \A i \in 1 .. Len(out) : w[i].of \in Message /\ out[i] = PartOf(w[i]),
           w # <<>> => Chained(w) /\ Allowed(Final(s), w[1]) /\ Final(w).at # 1
    PROVE  /\ Wired(s \o w, l \o out) /\ (s \o w)[1] = s[1]
           /\ Final(s \o w) = IF w = <<>> THEN Final(s) ELSE Final(w)
  <1>1. Labels(s \o w, l \o out) /\ (s \o w)[1] = s[1]
    BY LabelsConcat DEF Wired
  <1>2. s \in Seq(Token) /\ s # <<>> /\ Chained(s) /\ Final(s).at # 1
    BY StreamType DEF Wired
  <1>3. CASE w = <<>>
    <2>1. s \o w = s
      BY <1>2, <1>3
    <2>. QED
      BY <1>1, <1>2, <1>3, <2>1 DEF Wired
  <1>4. CASE w # <<>>
    BY <1>1, <1>2, <1>4, ChainedConcat DEF Wired
  <1>. QED
    BY <1>3, <1>4

AppendsFrame(n, m) == link' = [link EXCEPT ![n] = @ \o Frame[m]]

Extends(T, T2, n, m) ==
    /\ T2 \in [Station -> Seq(Token)]
    /\ \A p \in Station : Wired(T2[p], link'[p]) /\ T2[p][1] = T[p][1]
    /\ \A p \in Station \ {n} : T2[p] = T[p]
    /\ T2[n] = T[n] \o FrameTokens(m)
    /\ Final(T2[n]) = TokenOf(m, 5)

LEMMA WriteWires ==
    ASSUME TypeInv, NEW T, NEW h, Tokens(T, h), NEW n \in Station, NEW m \in Message,
           AppendsFrame(n, m),
           NEW T2, T2 = AfterWrite(T, n, m)
    PROVE  Extends(T, T2, n, m)
  <1>1. T \in [Station -> Seq(Token)] /\ \A p \in Station : Wired(T[p], link[p])
    BY DEF Tokens
  <1>2. /\ FrameTokens(m) \in Seq(Token) /\ Len(FrameTokens(m)) = 5
        /\ Frame[m] \in Seq(Part) /\ Len(Frame[m]) = 5
        /\ \A k \in 1 .. 5 : /\ FrameTokens(m)[k] = TokenOf(m, k)
                             /\ Frame[m][k] = PartOf(FrameTokens(m)[k])
        /\ Chained(FrameTokens(m))
    BY TokensOfFrame
  <1>0. \A k \in 1 .. 5 : TokenOf(m, k).of = m /\ TokenOf(m, k).at = k
    BY TokenOfType
  <1>3. /\ FrameTokens(m) # <<>> /\ FrameTokens(m)[1].at = 1
        /\ Final(FrameTokens(m)) = TokenOf(m, 5)
        /\ Final(FrameTokens(m)).at # 1
    BY <1>0, <1>2 DEF Final
  <1>4. Allowed(Final(T[n]), FrameTokens(m)[1])
    BY <1>1, <1>3 DEF Wired, Allowed
  <1>5. \A i \in 1 .. Len(Frame[m]) : FrameTokens(m)[i].of \in Message
                                      /\ Frame[m][i] = PartOf(FrameTokens(m)[i])
    BY <1>0, <1>2
  <1>6. PICK w, out : w = FrameTokens(m) /\ out = Frame[m]
    OBVIOUS
  <1>7. /\ Wired(T[n] \o w, link[n] \o out) /\ (T[n] \o w)[1] = T[n][1]
        /\ Final(T[n] \o w) = Final(w)
    <2>1. /\ w \in Seq(Token) /\ out \in Seq(Part) /\ Len(w) = Len(out) /\ w # <<>>
          /\ \A i \in 1 .. Len(out) : w[i].of \in Message /\ out[i] = PartOf(w[i])
      BY <1>2, <1>3, <1>5, <1>6
    <2>2. Chained(w) /\ Allowed(Final(T[n]), w[1]) /\ Final(w).at # 1 /\ Wired(T[n], link[n])
      BY <1>1, <1>2, <1>3, <1>4, <1>6
    <2>. QED
      BY <2>1, <2>2, WiredConcat
  <1>8. T[n] \o w \in Seq(Token)
    BY <1>7, StreamType
  <1>9. /\ T2 \in [Station -> Seq(Token)] /\ T2[n] = T[n] \o w
        /\ \A p \in Station \ {n} : T2[p] = T[p]
    BY <1>1, <1>6, <1>8 DEF AfterWrite
  <1>10. link'[n] = link[n] \o out /\ \A p \in Station \ {n} : link'[p] = link[p]
    BY <1>6 DEF AppendsFrame, TypeInv, TypeOK
  <1>. QED
    BY <1>1, <1>3, <1>6, <1>7, <1>9, <1>10 DEF Extends

Transfers(T, T2, n, w) ==
    /\ T2 \in [Station -> Seq(Token)] /\ w \in Seq(Token)
    /\ \A q \in Station : Wired(T2[q], link'[q])
    /\ T2[Preceding(n)][1] = Ahead(T, n)
    /\ \A q \in Station : q # Preceding(n) => T2[q][1] = T[q][1]
    /\ \A q \in Station : q # n => Final(T2[q]) = Final(T[q])
    /\ Final(T2[n]) = IF w = <<>> THEN Final(T[n]) ELSE Ahead(T, n)
    /\ \A q \in Station :
          T2[q] = (IF q = Preceding(n) THEN Tail(T[q]) ELSE T[q])
                  \o (IF q = n THEN w ELSE <<>>)

LEMMA ReadWires ==
    ASSUME TypeInv, NEW T, NEW h, Tokens(T, h), NEW n \in Station, ReadByte(n),
           NEW w, w = Emitted(n, Ahead(T, n)), NEW T2, T2 = AfterRead(T, n, w)
    PROVE  Transfers(T, T2, n, w)
  <1>. PICK p \in Station : p = Preceding(n)
    BY PrecedingStation
  <1>. PICK u : u = Ahead(T, n)
    OBVIOUS
  <1>1. /\ T \in [Station -> Seq(Token)] /\ link \in [Station -> Seq(Part)]
        /\ \A q \in Station : Wired(T[q], link[q])
    BY DEF Tokens, TypeInv, TypeOK
  <1>2. link[p] # <<>>
    BY DEF ReadByte
  <1>3. PICK out \in Seq(Part) :
              /\ Read(n, out) /\ w \in Seq(Token) /\ Len(w) = Len(out)
              /\ \A i \in 1 .. Len(out) : w[i].of \in Message /\ out[i] = PartOf(w[i])
    BY EmittedParts
  <1>4. w # <<>> => /\ Chained(w) /\ Allowed(Final(T[n]), w[1])
                    /\ Final(w) = u /\ Final(w).at # 1
    <2>1. u \in Token /\ u.of \in Message /\ Allowed(T[p][1], u)
      BY <1>2, TokenAhead
    <2>2. T[p][1] \in Token /\ Final(T[n]) \in Token /\ Final(T[n]).at # 1
      BY <1>1, StreamType DEF Wired
    <2>3. Emits(n, T[p][1], u, Final(T[n]), w)
      BY <1>2, EmittedCases
    <2>. QED
      BY <2>1, <2>2, <2>3, EmitsChain
  <1>5. PICK rest : rest = [T EXCEPT ![p] = Tail(@)]
    OBVIOUS
  <1>6. PICK lrest : lrest = [link EXCEPT ![p] = Tail(@)]
    OBVIOUS
  <1>7. T2 = [rest EXCEPT ![n] = @ \o w] /\ link' = [lrest EXCEPT ![n] = @ \o out]
    BY <1>3, <1>5, <1>6 DEF AfterRead, Read
  <1>8. /\ \A q \in Station : q # p => rest[q] = T[q] /\ lrest[q] = link[q]
        /\ rest[p] = Tail(T[p]) /\ lrest[p] = Tail(link[p])
        /\ DOMAIN rest = Station /\ DOMAIN lrest = Station
        /\ rest = [q \in Station |-> rest[q]]
    BY <1>1, <1>5, <1>6
  <1>9. /\ Wired(Tail(T[p]), Tail(link[p])) /\ Tail(T[p])[1] = u
        /\ Final(Tail(T[p])) = Final(T[p])
    BY <1>1, <1>2, WiredTail DEF Ahead
  <1>10. \A q \in Station : /\ Wired(rest[q], lrest[q])
                            /\ rest[q][1] = IF q = p THEN u ELSE T[q][1]
                            /\ Final(rest[q]) = Final(T[q])
    BY <1>1, <1>8, <1>9
  <1>11. /\ \A q \in Station : q # n => T2[q] = rest[q] /\ link'[q] = lrest[q]
         /\ T2[n] = rest[n] \o w /\ link'[n] = lrest[n] \o out
    BY <1>7, <1>8
  <1>12. /\ Wired(rest[n] \o w, lrest[n] \o out) /\ (rest[n] \o w)[1] = rest[n][1]
         /\ Final(rest[n] \o w) = IF w = <<>> THEN Final(rest[n]) ELSE Final(w)
    <2>1. /\ w \in Seq(Token) /\ out \in Seq(Part) /\ Len(w) = Len(out)
          /\ \A i \in 1 .. Len(out) : w[i].of \in Message /\ out[i] = PartOf(w[i])
      BY <1>3
    <2>2. /\ w # <<>> => Chained(w) /\ Allowed(Final(rest[n]), w[1]) /\ Final(w).at # 1
          /\ Wired(rest[n], lrest[n])
      BY <1>4, <1>10
    <2>. QED
      BY <2>1, <2>2, WiredConcat
  <1>13. \A q \in Station : Wired(T2[q], link'[q])
    BY <1>10, <1>11, <1>12
  <1>14. T2 \in [Station -> Seq(Token)]
    <2>1. \A q \in Station : T2[q] \in Seq(Token)
      BY <1>13, StreamType
    <2>2. T2 = [q \in Station |-> T2[q]]
      BY <1>7, <1>8
    <2>. QED
      BY <2>1, <2>2
  <1>15. \A q \in Station :
                 T2[q] = (IF q = p THEN Tail(T[q]) ELSE T[q])
                         \o (IF q = n THEN w ELSE <<>>)
    <2>1. \A q \in Station : rest[q] \in Seq(Token)
      BY <1>10, StreamType
    <2>2. \A q \in Station : rest[q] \o <<>> = rest[q]
      BY <2>1
    <2>. QED
      BY <1>8, <1>11, <2>2
  <1>. QED
    BY <1>3, <1>4, <1>10, <1>11, <1>12, <1>13, <1>14, <1>15, ZenonT(30) DEF Transfers

\* The stream of a wire that has lost a byte.
LEMMA LostStream ==
    ASSUME TypeInv, NEW T, NEW h, Tokens(T, h), NEW n \in Station, Lose(n),
           NEW s, s = T[n]
    PROVE  \E s2, d : Lesser(s, s2, link'[n], d)
  <1>. PICK l, l2 : l = link[n] /\ l2 = link'[n]
    OBVIOUS
  <1>1. Wired(s, l) /\ link \in [Station -> Seq(Part)] /\ l \in Seq(Part)
    BY DEF Tokens, TypeInv, TypeOK
  <1>2. /\ l # <<>>
        /\ \/ l[1].part \notin {"header", "misread", "check"} /\ l2 = Tail(l)
           \/ l[1].part = "check" /\ l2 = <<Torn>> \o Tail(l)
           \/ /\ l[1].part \in {"header", "misread"} /\ Len(l) >= 2
              /\ \E y \in MisreadHeaders :
                    \/ /\ l[2].part \in {"payload", "torn"}
                       /\ l2 = <<y>> \o Tail(Tail(l))
                    \/ /\ l[2].part = "check"
                       /\ l2 = <<y>> \o <<Torn>> \o Tail(Tail(l))
    BY <1>1, LossCases
  <1>3. /\ Len(l) \in Nat /\ Len(l) >= 1 /\ 1 \in 1 .. Len(l)
        /\ s \in Seq(Token) /\ Final(s) \in Token /\ Final(s).at # 1
        /\ Len(s) = Len(l) + 1 /\ 1 + 1 = 2
    BY <1>1, <1>2, StreamType DEF Wired
  <1>4. ASSUME NEW k \in 1 .. Len(l)
        PROVE  /\ s[k + 1] \in Token /\ s[k + 1].of \in Message
               /\ l[k] = PartOf(s[k + 1])
    <2>1. k + 1 \in 1 .. Len(s)
      BY <1>3
    <2>2. s[k + 1] \in Token
      BY <1>3, <2>1
    <2>. QED
      BY <1>1, <2>2 DEF Wired, Labels
  <1>5. ASSUME NEW k \in 1 .. Len(l)
        PROVE  /\ l[k].part \in {"header", "misread"} <=> s[k + 1].at = 2
               /\ l[k].part \in {"check", "torn"} <=> s[k + 1].at = 4
    BY <1>4, PartOfToken
  <1>6. CASE l[1].part \notin {"header", "misread", "check"} /\ l2 = Tail(l)
    <2>1. l2 = Cut(l, 1)
      <3>1. /\ Tail(l) \in Seq(Part) /\ Len(Tail(l)) = Len(l) - 1
            /\ \A i \in 1 .. Len(l) - 1 : Tail(l)[i] = l[i + 1]
        BY <1>1, <1>2, TailRest
      <3>2. /\ Cut(l, 1) \in Seq(Part) /\ Len(Cut(l, 1)) = Len(l) - 1
            /\ \A i \in 1 .. Len(l) - 1 : Cut(l, 1)[i] = l[i + 1]
        BY <1>1, <1>3, CutRest
      <3>. PICK f, g : f = Tail(l) /\ g = Cut(l, 1)
        OBVIOUS
      <3>3. /\ f \in Seq(Part) /\ g \in Seq(Part) /\ Len(f) = Len(g)
            /\ \A i \in 1 .. Len(f) : f[i] = g[i]
        BY <3>1, <3>2
      <3>4. f = g
        BY <3>3, SeqEqual
      <3>. QED
        BY <1>6, <3>4
    <2>. PICK k, j, s2 : k = 1 /\ j = 2 /\ s2 = Cut(s, j)
      OBVIOUS
    <2>2. k \in 1 .. Len(l) /\ j = k + 1 /\ s[j].at # 2
      BY <1>3, <1>5, <1>6
    <2>3. \A i \in 2 .. k : ~IsLive(s, i)
      OBVIOUS
    <2>4. Lesser(s, s2, l2, 1)
      BY <1>1, <2>1, <2>2, <2>3, WiredCut
    <2>. QED
      BY <2>4
  <1>7. CASE l[1].part = "check" /\ l2 = <<Torn>> \o Tail(l)
    <2>1. l2 = Replaced(l, 1, Torn)
      BY <1>1, <1>3, <1>7, HeadReplaced
    <2>. PICK k, j, x, s2 : k = 1 /\ j = 2 /\ x = Torn /\ s2 = Marked(s, j, x)
      OBVIOUS
    <2>2. k \in 1 .. Len(l) /\ j = k + 1 /\ Marks(s[j], x) /\ l2 = Replaced(l, k, x)
      BY <1>3, <1>5, <1>7, <2>1 DEF Marks
    <2>3. Lesser(s, s2, l2, 0)
      BY <1>1, <2>2, WiredMarked
    <2>. QED
      BY <2>3
  <1>8. ASSUME NEW y \in MisreadHeaders, Len(l) >= 2,
               l[1].part \in {"header", "misread"}
        PROVE  \E s1 : /\ Lesser(s, s1, Replaced(l, 1, y), 0) /\ ~IsLive(s1, 2)
                       /\ s1[2 + 1] = s[2 + 1] /\ Final(s1) \in Token
                       /\ 2 \in 1 .. Len(Replaced(l, 1, y))
    <2>. PICK l1 : l1 = Replaced(l, 1, y)
      OBVIOUS
    <2>. PICK k, j, s1 : k = 1 /\ j = 2 /\ s1 = Marked(s, j, y)
      OBVIOUS
    <2>. PICK t : t = s[j]
      OBVIOUS
    <2>7. t.at = 2
      <3>1. s[1 + 1].at = 2 /\ 1 + 1 = j
        BY <1>3, <1>5, <1>8
      <3>. QED
        BY <3>1
    <2>8. Marks(t, y)
      BY <2>7 DEF Marks
    <2>1. k \in 1 .. Len(l) /\ j = k + 1 /\ Marks(s[j], y) /\ l1 = Replaced(l, k, y)
      BY <1>3, <2>8
    <2>2. Lesser(s, s1, l1, 0) /\ ~IsLive(s1, j)
      BY <1>1, <2>1, WiredMarked
    <2>3. s1[2 + 1] = s[2 + 1]
      BY <1>3, <1>8 DEF Marked
    <2>4. Wired(s1, l1)
      BY <2>2 DEF Lesser
    <2>5. Final(s1) \in Token
      BY <2>4, StreamType
    <2>6. 2 \in 1 .. Len(l1)
      BY <1>1, <1>3, <1>8 DEF Replaced
    <2>. QED
      BY <2>2, <2>3, <2>5, <2>6
  <1>9. CASE /\ l[1].part \in {"header", "misread"} /\ Len(l) >= 2
             /\ \E y \in MisreadHeaders :
                   l[2].part \in {"payload", "torn"} /\ l2 = <<y>> \o Tail(Tail(l))
    <2>1. PICK y \in MisreadHeaders :
                 l[2].part \in {"payload", "torn"} /\ l2 = <<y>> \o Tail(Tail(l))
      BY <1>9
    <2>. PICK l1 : l1 = Replaced(l, 1, y)
      OBVIOUS
    <2>2. PICK s1 : /\ Lesser(s, s1, l1, 0) /\ ~IsLive(s1, 2)
                    /\ s1[2 + 1] = s[2 + 1] /\ Final(s1) \in Token /\ 2 \in 1 .. Len(l1)
      BY <1>8, <1>9
    <2>0. y \in Part /\ Torn \in Part
      BY PartSets
    <2>3. s1[2 + 1].at # 2
      <3>1. 2 \in 1 .. Len(l)
        BY <1>3, <1>9
      <3>. QED
        BY <1>5, <2>1, <2>2, <3>1
    <2>4. l2 = Cut(l1, 2)
      BY <1>1, <1>9, <2>0, <2>1, SecondGone
    <2>5. \A j \in 2 .. 2 : ~IsLive(s1, j)
      BY <2>2
    <2>6. Wired(s1, l1)
      BY <2>2 DEF Lesser
    <2>. PICK k, j, s2 : k = 2 /\ j = 3 /\ s2 = Cut(s1, j)
      OBVIOUS
    <2>10. /\ k \in 1 .. Len(l1) /\ j = k + 1 /\ s1[j].at # 2 /\ l2 = Cut(l1, k)
           /\ \A i \in 2 .. k : ~IsLive(s1, i)
      BY <2>2, <2>3, <2>4, <2>5
    <2>7. Lesser(s1, s2, l2, 1)
      BY <2>6, <2>10, WiredCut
    <2>8. Final(s2) \in Token
      <3>1. Wired(s2, l2)
        BY <2>7 DEF Lesser
      <3>. QED
        BY <3>1, StreamType
    <2>9. Lesser(s, s2, l2, 1)
      BY <1>3, <2>2, <2>7, <2>8, LesserTwice
    <2>. QED
      BY <2>9
  <1>10. CASE /\ l[1].part \in {"header", "misread"} /\ Len(l) >= 2
              /\ \E y \in MisreadHeaders :
                    l[2].part = "check" /\ l2 = <<y>> \o <<Torn>> \o Tail(Tail(l))
    <2>1. PICK y \in MisreadHeaders :
                 l[2].part = "check" /\ l2 = <<y>> \o <<Torn>> \o Tail(Tail(l))
      BY <1>10
    <2>. PICK l1 : l1 = Replaced(l, 1, y)
      OBVIOUS
    <2>2. PICK s1 : /\ Lesser(s, s1, l1, 0) /\ ~IsLive(s1, 2)
                    /\ s1[2 + 1] = s[2 + 1] /\ Final(s1) \in Token /\ 2 \in 1 .. Len(l1)
      BY <1>8, <1>10
    <2>0. y \in Part /\ Torn \in Part
      BY PartSets
    <2>3. s1[2 + 1].at = 4
      <3>1. 2 \in 1 .. Len(l)
        BY <1>3, <1>10
      <3>. QED
        BY <1>5, <2>1, <2>2, <3>1
    <2>4. l2 = Replaced(l1, 2, Torn)
      <3>. PICK w \in Part : w = Torn
        BY <2>0
      <3>1. Len(l) >= 2
        BY <1>10
      <3>2. <<y>> \o <<w>> \o Tail(Tail(l)) = Replaced(l1, 2, w)
        BY <1>1, <2>0, <3>1, SecondReplaced, SMTT(30)
      <3>. QED
        BY <2>1, <3>2
    <2>5. Wired(s1, l1)
      BY <2>2 DEF Lesser
    <2>. PICK k, j, x, s2 : k = 2 /\ j = 3 /\ x = Torn /\ s2 = Marked(s1, j, x)
      OBVIOUS
    <2>9. /\ k \in 1 .. Len(l1) /\ j = k + 1 /\ Marks(s1[j], x)
          /\ l2 = Replaced(l1, k, x)
      BY <2>2, <2>3, <2>4 DEF Marks
    <2>6. Lesser(s1, s2, l2, 0)
      BY <2>5, <2>9, WiredMarked
    <2>7. Final(s2) \in Token
      <3>1. Wired(s2, l2)
        BY <2>6 DEF Lesser
      <3>. QED
        BY <3>1, StreamType
    <2>8. Lesser(s, s2, l2, 0)
      BY <1>3, <2>2, <2>6, <2>7, LesserTwice
    <2>. QED
      BY <2>8
  <1>. QED
    BY <1>2, <1>6, <1>7, <1>9, <1>10

\* The streams after a loss.
Loses(T, T2, n, d) ==
    /\ T2 \in [Station -> Seq(Token)]
    /\ Lesser(T[n], T2[n], link'[n], d)
    /\ \A p \in Station \ {n} : T2[p] = T[p]
    /\ \A p \in Station : Wired(T2[p], link'[p]) /\ T2[p][1] = T[p][1]

LEMMA LossWires ==
    ASSUME TypeInv, NEW T, NEW h, Tokens(T, h), NEW n \in Station, Lose(n)
    PROVE  \E T2, d : Loses(T, T2, n, d)
  <1>1. /\ T \in [Station -> Seq(Token)] /\ link \in [Station -> Seq(Part)]
        /\ \A q \in Station : Wired(T[q], link[q])
    BY DEF Tokens, TypeInv, TypeOK
  <1>2. PICK s2, d : Lesser(T[n], s2, link'[n], d)
    BY LostStream
  <1>3. s2 \in Seq(Token) /\ Wired(s2, link'[n]) /\ s2[1] = T[n][1]
    BY <1>2, StreamType DEF Lesser
  <1>4. PICK T2 : T2 = AfterLoss(T, n, s2)
    OBVIOUS
  <1>5. /\ T2 \in [Station -> Seq(Token)] /\ T2[n] = s2
        /\ \A p \in Station \ {n} : T2[p] = T[p]
    BY <1>1, <1>3, <1>4 DEF AfterLoss
  <1>6. \A p \in Station \ {n} : link'[p] = link[p]
    <2>. PICK l : l = link[n]
      OBVIOUS
    <2>1. l \in Seq(Part)
      BY <1>1
    <2>. QED
      BY <1>1, <2>1, LossCases
  <1>. QED
    BY <1>1, <1>2, <1>3, <1>5, <1>6, ZenonT(30) DEF Loses

-----------------------------------------------------------------------------
(* Every step keeps the tokens                                             *)

SameReception(n) ==
    /\ status'[n] = status[n] /\ length'[n] = length[n]
    /\ receiveBuffer'[n] = receiveBuffer[n] /\ crc'[n] = crc[n]

LEMMA FollowsSame ==
    ASSUME NEW n \in Station, NEW c, NEW z, NEW z2, NEW x, Follows(n, c, z, x),
           SameReception(n),
           length[n] > 0 /\ PassesOn(n) => z2.of = c.of /\ z2.at \in 2 .. c.at
    PROVE  Follows(n, c, z2, x)'
  <1>1. PassesOn(n)' = PassesOn(n)
    BY DEF SameReception, PassesOn
  <1>2. Keeps(n, c, x) => Keeps(n, c, x)'
    BY DEF SameReception, Keeps, TypeFor, Wire, Header
  <1>3. Garbled(n, x) => Garbled(n, x)'
    BY DEF SameReception, Garbled
  <1>. QED
    BY <1>1, <1>2, <1>3 DEF Follows, SameReception

LEMMA QuietTokens ==
    ASSUME NEW T, NEW h, Tokens(T, h), UNCHANGED <<link, reception>>
    PROVE  Tokens(T, h)'
  <1>1. \A n \in Station : SameReception(n)
    BY DEF reception, SameReception
  <1>2. \A n \in Station : Follows(n, T[Preceding(n)][1], Final(T[n]), h[n])'
    <2>. TAKE n \in Station
    <2>. PICK c, z : c = T[Preceding(n)][1] /\ z = Final(T[n])
      OBVIOUS
    <2>1. Follows(n, c, z, h[n])
      BY DEF Tokens
    <2>2. length[n] > 0 /\ PassesOn(n) => z.of = c.of /\ z.at \in 2 .. c.at
      BY <2>1 DEF Follows
    <2>3. Follows(n, c, z, h[n])'
      BY <1>1, <2>1, <2>2, FollowsSame
    <2>. QED
      BY <2>3
  <1>. QED
    BY <1>2 DEF Tokens

LEMMA WriteTokens ==
    ASSUME TypeInv, NEW T, NEW h, Tokens(T, h), NEW n \in Station, NEW m \in Message,
           AppendsFrame(n, m), UNCHANGED reception,
           ~status[n].start, NEW T2, T2 = AfterWrite(T, n, m)
    PROVE  Tokens(T2, h)'
  <1>1. /\ T2 \in [Station -> Seq(Token)]
        /\ \A p \in Station : Wired(T2[p], link'[p]) /\ T2[p][1] = T[p][1]
        /\ \A p \in Station \ {n} : T2[p] = T[p]
    <2>1. Extends(T, T2, n, m)
      BY WriteWires
    <2>. QED
      BY <2>1 DEF Extends
  <1>2. \A k \in Station : Follows(k, T2[Preceding(k)][1], Final(T2[k]), h[k])'
    <2>. TAKE k \in Station
    <2>. PICK c, z, z2 : c = T[Preceding(k)][1] /\ z = Final(T[k]) /\ z2 = Final(T2[k])
      OBVIOUS
    <2>1. Follows(k, c, z, h[k])
      BY DEF Tokens
    <2>2. length[k] > 0 /\ PassesOn(k) => z2.of = c.of /\ z2.at \in 2 .. c.at
      <3>1. CASE k = n
        BY <2>1, <3>1 DEF Follows
      <3>2. CASE k # n
        BY <1>1, <2>1, <3>2 DEF Follows
      <3>. QED
        BY <3>1, <3>2
    <2>3. SameReception(k)
      BY DEF reception, SameReception
    <2>4. Follows(k, c, z2, h[k])'
      BY <2>1, <2>2, <2>3, FollowsSame
    <2>5. T2[Preceding(k)][1] = c
      BY <1>1, PrecedingStation
    <2>. QED
      BY <2>4, <2>5
  <1>3. h \in [Station -> Message \cup {Nobody}]
    BY DEF Tokens
  <1>. QED
    BY <1>1, <1>2, <1>3 DEF Tokens

LEMMA LossTokens ==
    ASSUME TypeInv, NEW T, NEW h, Tokens(T, h), NEW n \in Station, Lose(n),
           NEW T2, NEW d, Loses(T, T2, n, d)
    PROVE  Tokens(T2, h)'
  <1>1. /\ T2 \in [Station -> Seq(Token)]
        /\ \A p \in Station : Wired(T2[p], link'[p]) /\ T2[p][1] = T[p][1]
        /\ \A p \in Station \ {n} : T2[p] = T[p]
        /\ Sinks(Final(T[n]), Final(T2[n]))
    BY DEF Loses, Lesser
  <1>2. \A k \in Station : Follows(k, T2[Preceding(k)][1], Final(T2[k]), h[k])'
    <2>. TAKE k \in Station
    <2>. PICK c, z, z2 : c = T[Preceding(k)][1] /\ z = Final(T[k]) /\ z2 = Final(T2[k])
      OBVIOUS
    <2>1. Follows(k, c, z, h[k])
      BY DEF Tokens
    <2>2. length[k] > 0 /\ PassesOn(k) => z2.of = c.of /\ z2.at \in 2 .. c.at
      <3>1. SUFFICES ASSUME length[k] > 0, PassesOn(k)
                     PROVE  z2.of = c.of /\ z2.at \in 2 .. c.at
        OBVIOUS
      <3>2. z.of = c.of /\ z.at \in 2 .. c.at /\ c.at \in 2 .. 4
        BY <2>1, <3>1 DEF Follows
      <3>3. Sinks(z, z2)
        <4>1. CASE k = n
          BY <1>1, <4>1
        <4>2. CASE k # n
          BY <1>1, <4>2 DEF Sinks
        <4>. QED
          BY <4>1, <4>2
      <3>4. CASE z2.of = z.of /\ z2.at = z.at
        BY <3>2, <3>4
      <3>5. CASE z.at # 2 /\ Allowed(z2, z)
        <4>1. z.at \in 3 .. 4
          BY <3>2, <3>5
        <4>2. z2.of = z.of /\ z2.at \in 2 .. z.at - 1
          BY <3>5, <4>1 DEF Allowed
        <4>. QED
          BY <3>2, <4>1, <4>2
      <3>. QED
        BY <3>3, <3>4, <3>5 DEF Sinks
    <2>3. SameReception(k)
      BY DEF reception, SameReception, Lose
    <2>4. Follows(k, c, z2, h[k])'
      BY <2>1, <2>2, <2>3, FollowsSame
    <2>5. T2[Preceding(k)][1] = c
      BY <1>1, PrecedingStation
    <2>. QED
      BY <2>4, <2>5
  <1>3. h \in [Station -> Message \cup {Nobody}]
    BY DEF Tokens
  <1>. QED
    BY <1>1, <1>2, <1>3 DEF Tokens

\* A data byte that comes in when a start delimiter was the last.
TakesHeader(n) == IsData(n) /\ status[n].start /\ length[n] = 0

HeaderOf(u) == IF IsHeader(u) THEN u.of ELSE Nobody

AfterHeader(T, h, n) ==
    IF TakesHeader(n) THEN [h EXCEPT ![n] = HeaderOf(Ahead(T, n))] ELSE h

LEMMA FollowsHeader ==
    ASSUME TypeInv, NEW n \in Station, NEW c \in Token, NEW u \in Token, u.of \in Message,
           NextByte(n) = PartOf(u), u.at = 2, NEW z, NEW z2, NEW x,
           Follows(n, c, z, x), ReadHeader(n),
           Forwards(n, PartOf(u)) => z2 = u
    PROVE  Follows(n, u, z2, HeaderOf(u))'
  <1>. PICK m \in Message : m = u.of
    OBVIOUS
  <1>. PICK header : header = PartOf(u)
    OBVIOUS
  <1>. PICK type : type = TypeFor(n, header.destination)
    OBVIOUS
  <1>1. NextByte(n) = header /\ header.size = 4
    BY PartOfToken, PartFields
  <1>2. status[n].start /\ length[n] = 0 /\ crc[n] = <<>> /\ ~status[n].end
    BY DEF ReadHeader, Follows
  <1>3. /\ status' = [status EXCEPT ![n].destination = type # "ANY",
                                    ![n].source = IsOwn(n, header)]
        /\ receiveBuffer' = [receiveBuffer EXCEPT ![n] =
                                 [type |-> type, source |-> header.source]]
        /\ crc' = [crc EXCEPT ![n] = IF type # "ANY" THEN Append(@, header) ELSE @]
        /\ length' = [length EXCEPT ![n] = header.size]
    BY <1>1 DEF ReadHeader
  <1>4. /\ status'[n].start /\ ~status'[n].end
        /\ status'[n].destination = (type # "ANY")
        /\ status'[n].source = (header.source = Address[n])
    BY <1>2, <1>3 DEF TypeInv, TypeOK, IsOwn
  <1>5. receiveBuffer'[n] = [type |-> type, source |-> header.source]
    BY <1>3 DEF TypeInv
  <1>6. length'[n] = 4
    BY <1>1, <1>3 DEF TypeInv, TypeOK
  <1>7. crc'[n] = IF type # "ANY" THEN <<header>> ELSE <<>>
    BY <1>2, <1>3 DEF TypeInv
  <1>8. Len(<<header>>) = 1 /\ <<header>>[1] = header /\ <<header>> # <<>> /\ Len(<<>>) = 0
    OBVIOUS
  <1>9. ~status'[n].destination => crc'[n] = <<>>
    BY <1>4, <1>7
  <1>10. status'[n].destination => crc'[n] # <<>> /\ crc'[n][1] = header
    BY <1>4, <1>7, <1>8
  <1>11. ASSUME IsHeader(u)
         PROVE  Keeps(n, u, HeaderOf(u))'
    <2>1. /\ header = Header(m) /\ header.destination = Wire(m)
          /\ header.source = Address[Source[m]]
      BY <1>11, PartOfToken, PartFields
    <2>2. TypeFor(n, Wire(m))' = type /\ Header(m)' = header
      BY <2>1 DEF TypeFor, Wire, Header
    <2>3. ~(Len(crc'[n]) > 1)
      BY <1>7, <1>8
    <2>4. status'[n].source = (Address[Source[m]] = Address[n])
      BY <1>4, <2>1
    <2>5. receiveBuffer'[n] = [type |-> type, source |-> Address[Source[m]]]
      BY <1>5, <2>1
    <2>6. Keeps(n, u, m)'
      BY <1>4, <1>9, <1>10, <2>2, <2>3, <2>4, <2>5 DEF Keeps
    <2>7. HeaderOf(u)' = m
      BY <1>11 DEF HeaderOf, IsHeader
    <2>. QED
      BY <2>6, <2>7
  <1>12. ASSUME ~IsHeader(u)
         PROVE  Garbled(n, HeaderOf(u))'
    <2>1. header.part = "misread"
      BY <1>12, PartOfToken, PartFields
    <2>2. HeaderOf(u)' = Nobody
      BY <1>12 DEF HeaderOf, IsHeader
    <2>3. Garbled(n, HeaderOf(u))'
      BY <1>9, <1>10, <2>1, <2>2 DEF Garbled
    <2>. QED
      BY <2>3
  <1>13. PassesOn(n)' => z2 = u
    <2>1. receiveBuffer'[n].type = type
      BY <1>5
    <2>2. PassesOn(n)' => ~IsOwn(n, header) /\ type # "UNICAST"
      BY <1>4, <2>1 DEF PassesOn, IsOwn
    <2>. QED
      BY <2>2 DEF Forwards
  <1>14. Keeps(n, u, HeaderOf(u))' \/ Garbled(n, HeaderOf(u))'
    BY <1>11, <1>12 DEF HeaderOf, IsHeader
  <1>. QED
    BY <1>4, <1>6, <1>13, <1>14 DEF Follows

LEMMA FollowsPayload ==
    ASSUME TypeInv, NEW n \in Station, NEW c \in Token, NEW u \in Token, u.of \in Message,
           Allowed(c, u), NextByte(n) = PartOf(u), NEW z, NEW z2, NEW x,
           Follows(n, c, z, x), ReadPayload(n),
           PassesOn(n) => z2 = u
    PROVE  Follows(n, u, z2, x)'
  <1>1. /\ IsData(n) /\ status[n].start /\ length[n] >= 4 /\ length[n] \in Nat
        /\ length[n] > 0
    BY DEF ReadPayload, TypeInv, TypeOK
  <1>2. /\ u.at \in 2 .. 4 /\ c.at \in 2 .. 4 /\ ~status[n].end
        /\ Keeps(n, c, x) \/ Garbled(n, x)
    <2>1. u.at \in 1 .. 5 /\ u.at # 1 /\ u.at # 5
      BY <1>1, PartOfToken DEF IsData, Token
    <2>. QED
      BY <1>1, <2>1 DEF Follows
  <1>. PICK b \in Part : b = NextByte(n)
    BY PartOfToken
  <1>3. b.size \in Nat
    BY <1>1, PartSize DEF IsData
  <1>4. /\ status'[n] = status[n] /\ receiveBuffer'[n] = receiveBuffer[n]
        /\ length'[n] = length[n] + b.size
        /\ crc'[n] = IF status[n].destination THEN Append(crc[n], b) ELSE crc[n]
    BY DEF ReadPayload, TypeInv, TypeOK
  <1>5. length'[n] >= 4
    BY <1>1, <1>3, <1>4
  <1>6. /\ TypeFor(n, Wire(x))' = TypeFor(n, Wire(x))
        /\ Header(x)' = Header(x)
    BY DEF TypeFor, Wire, Header
  <1>7. ASSUME Keeps(n, c, x)
        PROVE  Keeps(n, u, x)'
    <2>1. CASE ~status[n].destination
      <3>1. crc'[n] = <<>> /\ Len(crc'[n]) = 0
        BY <1>7, <1>4, <2>1 DEF Keeps
      <3>2. Len(crc'[n]) # 1 /\ ~(Len(crc'[n]) > 1)
        BY <3>1
      <3>3. ~status'[n].destination
        BY <1>4, <2>1
      <3>. QED
        BY <1>7, <1>4, <1>6, <2>1, <3>1, <3>2, <3>3 DEF Keeps
    <2>2. CASE status[n].destination
      <3>1. /\ crc[n] \in Seq(Part) /\ crc[n] # <<>> /\ crc[n][1] = Header(x)
            /\ crc'[n] = Append(crc[n], b)
        BY <1>7, <1>4, <2>2 DEF Keeps, TypeInv
      <3>. PICK l \in Nat : l = Len(crc[n])
        BY <3>1
      <3>2. l >= 1 /\ Len(crc'[n]) = l + 1 /\ crc'[n] # <<>> /\ crc'[n][1] = crc[n][1]
            /\ crc'[n][l + 1] = b
            /\ \A i \in 1 .. l : crc'[n][i] = crc[n][i]
        BY <3>1
      <3>5. x \in Message
        BY <1>7 DEF Keeps
      <3>3. Len(crc'[n]) # 1
        BY <3>2
      <3>4. ASSUME crc'[n][2].part = "payload"
            PROVE  crc'[n][2].value = x
        <4>1. CASE l = 1
          <5>1. crc'[n][2] = b /\ c.of = x /\ c.at = 2
            BY <1>7, <3>2, <4>1 DEF Keeps
          <5>2. u.at = 3
            BY <3>4, <5>1, PartOfToken
          <5>3. u.of = x
            BY <5>1, <5>2 DEF Allowed
          <5>4. b = Payload(x)
            BY <5>2, <5>3, PartOfToken
          <5>. QED
            BY <5>1, <5>4, <3>5, PartFields
        <4>2. CASE l > 1
          <5>1. crc'[n][2] = crc[n][2]
            BY <3>2, <4>2
          <5>. QED
            BY <1>7, <3>4, <4>2, <5>1 DEF Keeps
        <4>3. l = 1 \/ l > 1
          <5>1. l >= 1
            BY <3>2
          <5>2. \A j \in Nat : j >= 1 => j = 1 \/ j > 1
            OBVIOUS
          <5>3. l \in Nat
            OBVIOUS
          <5>. QED
            BY <5>1, <5>2, <5>3, Zenon
        <4>. QED
          BY <4>1, <4>2, <4>3
      <3>. QED
        BY <1>7, <1>4, <1>6, <2>2, <3>1, <3>2, <3>3, <3>4 DEF Keeps
    <2>. QED
      BY <2>1, <2>2
  <1>11. ASSUME Garbled(n, x)
         PROVE  Garbled(n, x)'
    <2>1. CASE ~status[n].destination
      BY <1>4, <1>11, <2>1 DEF Garbled
    <2>2. CASE status[n].destination
      <3>1. /\ crc[n] \in Seq(Part) /\ crc[n] # <<>> /\ crc[n][1].part = "misread"
            /\ crc'[n] = Append(crc[n], b)
        BY <1>4, <1>11, <2>2 DEF Garbled, TypeInv
      <3>2. crc'[n] # <<>> /\ crc'[n][1] = crc[n][1]
        BY <3>1
      <3>3. status'[n].destination /\ x = Nobody
        BY <1>4, <1>11, <2>2 DEF Garbled
      <3>. QED
        BY <3>1, <3>2, <3>3 DEF Garbled
    <2>. QED
      BY <2>1, <2>2
  <1>8. PassesOn(n)' => z2 = u
    BY <1>4 DEF PassesOn
  <1>9. status'[n].start /\ ~status'[n].end
    BY <1>1, <1>2, <1>4
  <1>10. length'[n] # 0
    BY <1>1, <1>5, <1>3, <1>4
  <1>. QED
    BY <1>2, <1>5, <1>7, <1>8, <1>9, <1>10, <1>11 DEF Follows

LEMMA FollowsRead ==
    ASSUME TypeInv, NEW n \in Station, NEW c \in Token, NEW u \in Token, u.of \in Message,
           Allowed(c, u), NextByte(n) = PartOf(u),
           status[n].start /\ length[n] = 0 /\ IsData(n) => u.at = 2,
           NEW z, NEW z2, NEW x, NEW x2, Follows(n, c, z, x), ReadByte(n),
           z2 = IF Emitted(n, u) = <<>> THEN z ELSE u,
           x2 = IF TakesHeader(n) THEN HeaderOf(u) ELSE x
    PROVE  Follows(n, u, z2, x2)'
  <1>1. u.at \in 1 .. 5 /\ length[n] \in Nat
    BY DEF Token, TypeInv, TypeOK
  <1>2. CASE ReadStart(n)
    <2>1. u.at = 1
      BY <1>2, PartOfToken DEF ReadStart
    <2>2. /\ status'[n].start /\ ~status'[n].end /\ length'[n] = 0 /\ crc'[n] = <<>>
      BY <1>2 DEF ReadStart, TypeInv, TypeOK
    <2>. QED
      BY <2>1, <2>2 DEF Follows
  <1>3. CASE ReadEnd(n)
    <2>1. u.at = 5
      BY <1>3, PartOfToken DEF ReadEnd
    <2>2. length'[n] = 0 /\ crc'[n] = <<>>
      BY <1>3 DEF ReadEnd, TypeInv, TypeOK
    <2>3. status'[n].end => ~status'[n].start
      <3>1. CASE Complete(n)
        BY <1>3, <3>1 DEF ReadEnd, TypeInv, TypeOK
      <3>2. CASE ~Complete(n)
        BY <1>3, <3>2 DEF ReadEnd, Follows
      <3>. QED
        BY <3>1, <3>2
    <2>. QED
      BY <2>1, <2>2, <2>3 DEF Follows
  <1>4. CASE ReadStray(n)
    <2>1. SameReception(n) /\ ~status[n].start
      BY <1>4 DEF ReadStray, reception, SameReception
    <2>2. length[n] = 0
      BY <1>1, <2>1 DEF Follows
    <2>. QED
      BY <2>1, <2>2 DEF Follows, SameReception
  <1>5. CASE ReadHeader(n)
    <2>1. TakesHeader(n) /\ u.at = 2 /\ status[n].start /\ length[n] = 0
      BY <1>5 DEF ReadHeader, TakesHeader
    <2>2. Forwards(n, PartOf(u)) => z2 = u
      <3>1. ASSUME Forwards(n, PartOf(u))
            PROVE  Emitted(n, u) = <<TokenOf(u.of, 1), u>>
        BY <2>1, <3>1 DEF Emitted
      <3>2. <<TokenOf(u.of, 1), u>> # <<>>
        OBVIOUS
      <3>. QED
        BY <3>1, <3>2
    <2>3. Follows(n, u, z2, HeaderOf(u))'
      BY <1>5, <2>1, <2>2, FollowsHeader
    <2>. QED
      BY <2>1, <2>3
  <1>6. CASE ReadPayload(n)
    <2>1. /\ ~TakesHeader(n) /\ status[n].start /\ length[n] # 0 /\ u.at # 1 /\ u.at # 5
      BY <1>1, <1>6, PartOfToken DEF ReadPayload, TakesHeader, IsData
    <2>2. PassesOn(n) => z2 = u
      <3>1. ASSUME PassesOn(n)
            PROVE  Emitted(n, u) = <<u>>
        BY <2>1, <3>1 DEF Emitted
      <3>. QED
        BY <3>1
    <2>3. Follows(n, u, z2, x)'
      BY <1>6, <2>2, FollowsPayload
    <2>. QED
      BY <2>1, <2>3
  <1>. QED
    BY <1>2, <1>3, <1>4, <1>5, <1>6 DEF ReadByte

\* The loop of update leaves the other stations alone.
LEMMA ReadElsewhere ==
    ASSUME TypeInv, NEW n \in Station, ReadByte(n), NEW k \in Station, k # n
    PROVE  SameReception(k) /\ Preceding(k) # Preceding(n)
  <1>1. Preceding(k) # Preceding(n)
    BY PrecedingStation
  <1>2. CASE ReadStart(n)
    BY <1>1, <1>2 DEF ReadStart, SameReception, TypeInv, TypeOK
  <1>3. CASE ReadEnd(n)
    BY <1>1, <1>3 DEF ReadEnd, SameReception, TypeInv, TypeOK
  <1>4. CASE ReadStray(n)
    BY <1>1, <1>4 DEF ReadStray, reception, SameReception
  <1>5. CASE ReadHeader(n)
    BY <1>1, <1>5 DEF ReadHeader, SameReception, TypeInv, TypeOK
  <1>6. CASE ReadPayload(n)
    BY <1>1, <1>6 DEF ReadPayload, SameReception, TypeInv, TypeOK
  <1>. QED
    BY <1>1, <1>2, <1>3, <1>4, <1>5, <1>6 DEF ReadByte

LEMMA ReadTokens ==
    ASSUME TypeInv, NEW T, NEW h, Tokens(T, h), NEW n \in Station, ReadByte(n),
           NEW w, w = Emitted(n, Ahead(T, n)),
           NEW T2, T2 = AfterRead(T, n, w), NEW h2, h2 = AfterHeader(T, h, n)
    PROVE  Tokens(T2, h2)'
  <1>. PICK u : u = Ahead(T, n)
    OBVIOUS
  <1>1. link[Preceding(n)] # <<>>
    BY DEF ReadByte
  <1>2. /\ u \in Token /\ u.of \in Message /\ NextByte(n) = PartOf(u)
        /\ Allowed(T[Preceding(n)][1], u)
        /\ status[n].start /\ length[n] = 0 /\ IsData(n) => u.at = 2
    BY <1>1, TokenAhead
  <1>3. /\ T2 \in [Station -> Seq(Token)]
        /\ \A q \in Station : Wired(T2[q], link'[q])
        /\ T2[Preceding(n)][1] = u
        /\ \A q \in Station : q # Preceding(n) => T2[q][1] = T[q][1]
        /\ \A q \in Station : q # n => Final(T2[q]) = Final(T[q])
        /\ Final(T2[n]) = IF w = <<>> THEN Final(T[n]) ELSE u
    <2>1. Transfers(T, T2, n, w)
      BY ReadWires
    <2>. QED
      BY <2>1 DEF Transfers
  <1>4. h \in [Station -> Message \cup {Nobody}]
    BY DEF Tokens
  <1>5. /\ h2 \in [Station -> Message \cup {Nobody}]
        /\ h2[n] = IF TakesHeader(n) THEN HeaderOf(u) ELSE h[n]
        /\ \A q \in Station : q # n => h2[q] = h[q]
    BY <1>2, <1>4 DEF AfterHeader, HeaderOf
  <1>6. ASSUME NEW k \in Station
        PROVE  Follows(k, T2[Preceding(k)][1], Final(T2[k]), h2[k])'
    <2>. PICK c, z, z2 : c = T[Preceding(k)][1] /\ z = Final(T[k]) /\ z2 = Final(T2[k])
      OBVIOUS
    <2>1. Follows(k, c, z, h[k])
      BY DEF Tokens
    <2>2. CASE k = n
      <3>1. c \in Token
        <4>1. Wired(T[Preceding(n)], link[Preceding(n)])
          BY PrecedingStation DEF Tokens
        <4>. QED
          BY <2>2, <4>1, StreamType
      <3>2. PICK x, x2 : x = h[n] /\ x2 = h2[n]
        OBVIOUS
      <3>3. /\ Allowed(c, u) /\ Follows(n, c, z, x)
            /\ z2 = IF Emitted(n, u) = <<>> THEN z ELSE u
            /\ x2 = IF TakesHeader(n) THEN HeaderOf(u) ELSE x
        BY <1>2, <1>3, <1>5, <2>1, <2>2, <3>2
      <3>4. Follows(n, u, z2, x2)'
        BY <1>2, <3>1, <3>3, FollowsRead
      <3>. QED
        BY <1>3, <2>2, <3>2, <3>4
    <2>3. CASE k # n
      <3>1. SameReception(k) /\ Preceding(k) # Preceding(n)
        BY <2>3, ReadElsewhere
      <3>2. T2[Preceding(k)][1] = c /\ z2 = z /\ h2[k] = h[k]
        BY <1>3, <1>5, <2>3, <3>1, PrecedingStation
      <3>3. length[k] > 0 /\ PassesOn(k) => z.of = c.of /\ z.at \in 2 .. c.at
        BY <2>1 DEF Follows
      <3>4. Follows(k, c, z, h[k])'
        BY <2>1, <3>1, <3>3, FollowsSame
      <3>. QED
        BY <3>2, <3>4
    <2>. QED
      BY <2>2, <2>3
  <1>. QED
    BY <1>3, <1>5, <1>6 DEF Tokens

LEMMA InitTokens ==
    ASSUME Init, NEW T, T = [n \in Station |-> <<Nothing>>],
           NEW h, h = [n \in Station |-> Nobody]
    PROVE  Tokens(T, h) /\ \A n \in Station : T[n] = <<Nothing>>
  <1>. PICK t : t = Nothing
    OBVIOUS
  <1>1. t \in Token /\ t.at = 5
    BY NothingType
  <1>2. <<t>> \in Seq(Token) /\ Len(<<t>>) = 1 /\ <<t>>[1] = t
    BY <1>1
  <1>3. \A n \in Station : T[n] = <<t>> /\ link[n] = <<>>
    BY DEF Init
  <1>4. T \in [Station -> Seq(Token)] /\ h \in [Station -> Message \cup {Nobody}]
    BY <1>2
  <1>5. <<>> \in Seq(Part) /\ Len(<<>>) = 0
    OBVIOUS
  <1>6. Wired(<<t>>, <<>>)
    BY <1>1, <1>2, <1>5 DEF Wired, Labels, Chained, Final
  <1>7. \A n \in Station : /\ length[n] = 0 /\ crc[n] = <<>>
                           /\ ~status[n].start /\ ~status[n].end
    BY DEF Init, Idle
  <1>8. \A n \in Station : Follows(n, T[Preceding(n)][1], Final(T[n]), h[n])
    BY <1>7 DEF Follows
  <1>. QED
    BY <1>3, <1>4, <1>6, <1>8 DEF Tokens

-----------------------------------------------------------------------------
(* Without losses                                                          *)

\* The state of n says exactly which byte it read last, and it owes its wire nothing
\* but the rest of the frame that it passes on.
InStep(n, c, z) ==
    /\ c.at = 1 => status[n].start /\ length[n] = 0
    /\ c.at = 2 => status[n].start /\ length[n] = 4
    /\ c.at = 3 => status[n].start /\ length[n] = 5
    /\ c.at = 4 => status[n].start /\ length[n] = 7
    /\ c.at = 5 => ~status[n].start /\ length[n] = 0
    /\ IF length[n] > 0 /\ PassesOn(n) THEN z = c ELSE z.at = 5

Whole(T) ==
    losses = 0 =>
        \A n \in Station : /\ Unbroken(T[n])
                           /\ InStep(n, T[Preceding(n)][1], Final(T[n]))

LEMMA InStepSame ==
    ASSUME NEW n \in Station, NEW c, NEW z, InStep(n, c, z), SameReception(n)
    PROVE  InStep(n, c, z)'
  BY DEF InStep, SameReception, PassesOn

LEMMA QuietWhole ==
    ASSUME NEW T, Whole(T), UNCHANGED <<reception, losses>>
    PROVE  Whole(T)'
  <1>1. \A n \in Station : SameReception(n)
    BY DEF reception, SameReception
  <1>2. ASSUME losses = 0, NEW n \in Station
        PROVE  InStep(n, T[Preceding(n)][1], Final(T[n]))'
    <2>. PICK c, z : c = T[Preceding(n)][1] /\ z = Final(T[n])
      OBVIOUS
    <2>1. InStep(n, c, z)
      BY <1>2 DEF Whole
    <2>2. InStep(n, c, z)'
      BY <1>1, <2>1, InStepSame
    <2>. QED
      BY <2>2
  <1>. QED
    BY <1>2 DEF Whole

LEMMA WriteWhole ==
    ASSUME TypeInv, NEW T, NEW h, Tokens(T, h), Whole(T),
           NEW n \in Station, NEW m \in Message,
           AppendsFrame(n, m), UNCHANGED <<reception, losses>>,
           ~status[n].start, NEW T2, T2 = AfterWrite(T, n, m)
    PROVE  Whole(T2)'
  <1>. SUFFICES ASSUME losses = 0, NEW k \in Station
                PROVE  /\ Unbroken(T2[k])
                       /\ InStep(k, T2[Preceding(k)][1], Final(T2[k]))'
    BY DEF Whole
  <1>1. /\ \A p \in Station : Wired(T2[p], link'[p]) /\ T2[p][1] = T[p][1]
        /\ \A p \in Station \ {n} : T2[p] = T[p]
        /\ T2[n] = T[n] \o FrameTokens(m)
        /\ Final(T2[n]) = TokenOf(m, 5)
    <2>1. Extends(T, T2, n, m)
      BY WriteWires
    <2>. QED
      BY <2>1 DEF Extends
  <1>. PICK c, z, z2 : c = T[Preceding(k)][1] /\ z = Final(T[k]) /\ z2 = Final(T2[k])
    OBVIOUS
  <1>2. Unbroken(T[k]) /\ InStep(k, c, z) /\ T2[Preceding(k)][1] = c
    BY <1>1, PrecedingStation DEF Whole
  <1>3. SameReception(k)
    BY DEF reception, SameReception
  <1>4. CASE k # n
    <2>1. T2[k] = T[k] /\ z2 = z
      BY <1>1, <1>4
    <2>2. InStep(k, c, z)'
      BY <1>2, <1>3, InStepSame
    <2>. QED
      BY <1>2, <2>1, <2>2
  <1>5. CASE k = n
    <2>1. c \in Token /\ T[n] \in Seq(Token) /\ T[n] # <<>> /\ length[n] \in Nat
      <3>1. Preceding(k) \in Station /\ \A p \in Station : Wired(T[p], link[p])
        BY PrecedingStation DEF Tokens
      <3>. QED
        BY <3>1, StreamType DEF TypeInv, TypeOK
    <2>2. length[n] = 0 /\ z.at = 5
      <3>1. c.at \in 1 .. 5
        BY <2>1 DEF Token
      <3>. QED
        BY <1>2, <1>5, <2>1, <3>1 DEF InStep
    <2>3. z2.at = 5
      <3>1. z2 = TokenOf(m, 5)
        BY <1>1, <1>5
      <3>. QED
        BY <3>1, TokenOfType
    <2>4. InStep(k, c, z2)'
      <3>1. InStep(k, c, z2)
        BY <1>2, <1>5, <2>2, <2>3 DEF InStep
      <3>. QED
        BY <1>3, <3>1, InStepSame
    <2>5. /\ FrameTokens(m) \in Seq(Token) /\ FrameTokens(m) # <<>>
          /\ FrameTokens(m)[1].at = 1 /\ Exact(FrameTokens(m)[1])
          /\ Unbroken(FrameTokens(m))
      <3>. PICK w : w = FrameTokens(m)
        OBVIOUS
      <3>1. /\ w \in Seq(Token) /\ Len(w) = 5 /\ Unbroken(w)
            /\ \A j \in 1 .. 5 : w[j] = TokenOf(m, j)
        BY TokensOfFrame
      <3>2. w # <<>> /\ 1 \in 1 .. 5
        <4>1. w \in Seq(Token) /\ Len(w) >= 1
          BY <3>1
        <4>2. w # <<>>
          BY <4>1, NotEmpty, Zenon
        <4>. QED
          BY <4>2
      <3>3. w[1].at = 1 /\ Exact(w[1])
        <4>. PICK v : v = w[1]
          OBVIOUS
        <4>1. v = TokenOf(m, 1)
          BY <3>1, <3>2
        <4>2. v.at = 1 /\ Exact(v)
          BY <3>2, <4>1, TokenOfType
        <4>. QED
          BY <4>2
      <3>. QED
        BY <3>1, <3>2, <3>3
    <2>6. Next5(Final(T[n]), FrameTokens(m)[1])
      BY <1>5, <2>2, <2>5 DEF Next5
    <2>7. Unbroken(T2[n])
      BY <1>1, <1>2, <1>5, <2>1, <2>5, <2>6, ChainedConcat
    <2>. QED
      BY <1>2, <1>5, <2>4, <2>7
  <1>. QED
    BY <1>4, <1>5

\* One more byte without a gap.
LEMMA InStepRead ==
    ASSUME TypeInv, NEW n \in Station, NEW c \in Token, NEW u \in Token, u.of \in Message,
           Next5(c, u), NextByte(n) = PartOf(u), NEW z, NEW z2,
           InStep(n, c, z), ReadByte(n), z2 = IF Emitted(n, u) = <<>> THEN z ELSE u
    PROVE  InStep(n, u, z2)'
  <1>1. u.at \in 1 .. 5 /\ c.at \in 1 .. 5 /\ length[n] \in Nat
    BY DEF Token, TypeInv, TypeOK
  <1>2. \/ c.at = 5 /\ u.at = 1
        \/ u.at = c.at + 1 /\ c.at \in 1 .. 4
    BY <1>1 DEF Next5
  <1>3. CASE ReadStart(n)
    <2>1. u.at = 1
      BY <1>3, PartOfToken DEF ReadStart
    <2>2. length[n] = 0 /\ z.at = 5
      BY <1>2, <2>1 DEF InStep
    <2>3. z2 = z
      BY <2>1 DEF Emitted
    <2>4. status'[n].start /\ length'[n] = 0
      BY <1>3 DEF ReadStart, TypeInv, TypeOK
    <2>. QED
      BY <2>1, <2>2, <2>3, <2>4 DEF InStep
  <1>4. CASE ReadEnd(n)
    <2>1. u.at = 5
      BY <1>4, PartOfToken DEF ReadEnd
    <2>2. c.at = 4
      BY <1>1, <1>2, <2>1
    <2>3. status[n].start /\ length[n] = 7 /\ Complete(n)
      BY <2>2 DEF InStep, Complete
    <2>4. z2.at = 5
      <3>1. CASE PassesOn(n)
        <4>1. Emitted(n, u) = <<u>>
          BY <2>1, <2>3, <3>1 DEF Emitted
        <4>. QED
          BY <2>1, <4>1
      <3>2. CASE ~PassesOn(n)
        <4>1. Emitted(n, u) = <<>> /\ z.at = 5
          BY <2>1, <3>2 DEF Emitted, InStep
        <4>. QED
          BY <4>1
      <3>. QED
        BY <3>1, <3>2
    <2>5. ~status'[n].start /\ length'[n] = 0
      BY <1>4, <2>3 DEF ReadEnd, TypeInv, TypeOK
    <2>. QED
      BY <2>1, <2>4, <2>5 DEF InStep
  <1>5. CASE ReadStray(n)
    <2>1. u.at # 1 /\ u.at # 5 /\ ~status[n].start
      BY <1>5, PartOfToken DEF ReadStray, IsData
    <2>2. c.at \in 1 .. 3
      BY <1>1, <1>2, <2>1
    <2>. QED
      BY <2>1, <2>2 DEF InStep
  <1>6. CASE ReadHeader(n)
    <2>1. u.at # 1 /\ u.at # 5 /\ status[n].start /\ length[n] = 0
      BY <1>6, PartOfToken DEF ReadHeader, IsData
    <2>2. u.at = 2
      <3>1. c.at \in 1 .. 3
        BY <1>1, <1>2, <2>1
      <3>2. c.at = 1
        BY <2>1, <3>1 DEF InStep
      <3>. QED
        BY <1>2, <3>2
    <2>3. PICK header : header = PartOf(u)
      OBVIOUS
    <2>4. NextByte(n) = header /\ header.size = 4
      BY <2>2, <2>3, PartOfToken, PartFields
    <2>5. status'[n].start /\ length'[n] = 4
      BY <1>6, <2>1, <2>4 DEF ReadHeader, TypeInv, TypeOK
    <2>6. PassesOn(n)' = Forwards(n, header)
      <3>. PICK own, type : own = IsOwn(n, header)
                            /\ type = TypeFor(n, header.destination)
        OBVIOUS
      <3>1. status'[n].source = own /\ receiveBuffer'[n].type = type
        BY <1>6, <2>4 DEF ReadHeader, TypeInv, TypeOK
      <3>. QED
        BY <3>1 DEF PassesOn, Forwards
    <2>7. IF PassesOn(n)' THEN z2 = u ELSE z2.at = 5
      <3>1. CASE Forwards(n, header)
        <4>1. Emitted(n, u) = <<TokenOf(u.of, 1), u>>
          BY <2>1, <2>3, <3>1 DEF Emitted
        <4>2. Emitted(n, u) # <<>>
          BY <4>1
        <4>. QED
          BY <2>6, <3>1, <4>2
      <3>2. CASE ~Forwards(n, header)
        <4>1. Emitted(n, u) = <<>> /\ z.at = 5
          BY <2>1, <2>3, <3>2 DEF Emitted, InStep
        <4>. QED
          BY <2>6, <3>2, <4>1
      <3>. QED
        BY <3>1, <3>2
    <2>. QED
      BY <2>2, <2>5, <2>7 DEF InStep
  <1>7. CASE ReadPayload(n)
    <2>1. u.at # 1 /\ u.at # 5 /\ status[n].start /\ length[n] > 0
      BY <1>1, <1>7, PartOfToken DEF ReadPayload, IsData
    <2>2. c.at \in 2 .. 3 /\ u.at = c.at + 1
      <3>1. c.at \in 1 .. 3 /\ u.at = c.at + 1
        BY <1>1, <1>2, <2>1
      <3>2. c.at # 1
        BY <2>1 DEF InStep
      <3>. QED
        BY <3>1, <3>2
    <2>3. PICK b \in Part : b = NextByte(n)
      BY PartOfToken
    <2>4. (u.at = 3 => b.size = 1) /\ (u.at = 4 => b.size = 2)
      <3>1. u.at = 4 => PartOf(u) = Check(u.of)
        BY PartsOfFrame DEF Next5, Exact, PartOf
      <3>. QED
        BY <2>3, <3>1, PartOfToken, PartFields
    <2>5. /\ status'[n] = status[n] /\ receiveBuffer'[n] = receiveBuffer[n]
          /\ length'[n] = length[n] + b.size
      BY <1>7, <2>3 DEF ReadPayload, TypeInv, TypeOK
    <2>6. (u.at = 3 => length'[n] = 5) /\ (u.at = 4 => length'[n] = 7)
      BY <2>2, <2>4, <2>5 DEF InStep
    <2>7. IF PassesOn(n)' THEN z2 = u ELSE z2.at = 5
      <3>1. PassesOn(n)' = PassesOn(n)
        BY <2>5 DEF PassesOn
      <3>2. CASE PassesOn(n)
        <4>1. Emitted(n, u) = <<u>>
          BY <2>1, <3>2 DEF Emitted
        <4>. QED
          BY <3>1, <3>2, <4>1
      <3>3. CASE ~PassesOn(n)
        <4>1. Emitted(n, u) = <<>> /\ z.at = 5
          BY <2>1, <3>3 DEF Emitted, InStep
        <4>. QED
          BY <3>1, <3>3, <4>1
      <3>. QED
        BY <3>2, <3>3
    <2>8. (u.at = 3 \/ u.at = 4) /\ status'[n].start
      BY <2>1, <2>2, <2>5
    <2>. QED
      BY <2>6, <2>7, <2>8 DEF InStep
  <1>. QED
    BY <1>3, <1>4, <1>5, <1>6, <1>7 DEF ReadByte

LEMMA ReadWhole ==
    ASSUME TypeInv, NEW T, NEW h, Tokens(T, h), Whole(T), NEW n \in Station, ReadByte(n),
           UNCHANGED losses,
           NEW w, w = Emitted(n, Ahead(T, n)), NEW T2, T2 = AfterRead(T, n, w)
    PROVE  Whole(T2)'
  <1>. SUFFICES ASSUME losses = 0, NEW k \in Station
                PROVE  /\ Unbroken(T2[k])
                       /\ InStep(k, T2[Preceding(k)][1], Final(T2[k]))'
    BY DEF Whole
  <1>. PICK p \in Station : p = Preceding(n)
    BY PrecedingStation
  <1>. PICK u, c, z : u = Ahead(T, n) /\ c = T[p][1] /\ z = Final(T[n])
    OBVIOUS
  <1>1. /\ T2 \in [Station -> Seq(Token)] /\ w \in Seq(Token)
        /\ T2[p][1] = u
        /\ \A q \in Station : q # p => T2[q][1] = T[q][1]
        /\ \A q \in Station : q # n => Final(T2[q]) = Final(T[q])
        /\ Final(T2[n]) = IF w = <<>> THEN z ELSE u
        /\ \A q \in Station : T2[q] = (IF q = p THEN Tail(T[q]) ELSE T[q])
                                      \o (IF q = n THEN w ELSE <<>>)
    <2>1. Transfers(T, T2, n, w)
      BY ReadWires
    <2>. QED
      BY <2>1 DEF Transfers
  <1>2. link[p] # <<>>
    BY DEF ReadByte
  <1>3. u \in Token /\ u.of \in Message /\ NextByte(n) = PartOf(u) /\ Allowed(c, u)
    BY <1>2, TokenAhead
  <1>4. /\ \A q \in Station : /\ T[q] \in Seq(Token) /\ T[q] # <<>> /\ T[q][1] \in Token
                              /\ Wired(T[q], link[q]) /\ Unbroken(T[q])
    BY StreamType DEF Tokens, Whole
  <1>5. Len(T[p]) >= 2 /\ Len(T[p]) \in Nat
    BY <1>2, <1>4, LabelsTail, StreamType DEF Wired
  <1>6. Next5(c, u)
    <2>1. 1 \in 1 .. Len(T[p]) - 1 /\ 1 + 1 = 2
      BY <1>5
    <2>. QED
      BY <1>4, <2>1 DEF Unbroken, Ahead
  <1>7. InStep(n, c, z) /\ c \in Token
    BY <1>4 DEF Whole
  <1>8. PICK rest : rest = IF k = p THEN Tail(T[k]) ELSE T[k]
    OBVIOUS
  <1>9. rest \in Seq(Token) /\ rest # <<>> /\ Unbroken(rest) /\ Final(rest) = Final(T[k])
    <2>1. CASE k = p
      <3>1. rest = Tail(T[p]) /\ rest \in Seq(Token) /\ rest # <<>>
        <4>. PICK s : s = T[p]
          OBVIOUS
        <4>1. s \in Seq(Token) /\ Len(s) >= 2
          BY <1>4, <1>5
        <4>2. Tail(s) \in Seq(Token) /\ Len(Tail(s)) >= 1
          BY <4>1
        <4>3. Tail(s) # <<>>
          BY <4>2, NotEmpty
        <4>. QED
          BY <1>8, <2>1, <4>2, <4>3
      <3>2. Unbroken(rest)
        BY <1>4, <1>5, <3>1, ChainedTail
      <3>3. Final(rest) = Final(T[p])
        BY <1>2, <1>4, <3>1, WiredTail
      <3>. QED
        BY <2>1, <3>1, <3>2, <3>3
    <2>2. CASE k # p
      BY <1>4, <1>8, <2>2
    <2>. QED
      BY <2>1, <2>2
  <1>10. CASE k # n
    <2>1. T2[k] = rest
      <3>1. T2[k] = rest \o <<>>
        BY <1>1, <1>8, <1>10
      <3>. QED
        BY <1>9, <3>1
    <2>2. SameReception(k) /\ Preceding(k) # p /\ Preceding(k) \in Station
      BY <1>10, ReadElsewhere, PrecedingStation
    <2>. PICK c3, z3 : c3 = T[Preceding(k)][1] /\ z3 = Final(T[k])
      OBVIOUS
    <2>3. T2[Preceding(k)][1] = c3 /\ Final(T2[k]) = z3
      BY <1>1, <1>10, <2>2
    <2>4. InStep(k, c3, z3)
      BY DEF Whole
    <2>5. InStep(k, c3, z3)'
      BY <2>2, <2>4, InStepSame
    <2>. QED
      BY <1>9, <2>1, <2>3, <2>5
  <1>11. CASE k = n
    <2>. PICK z2 : z2 = Final(T2[n])
      OBVIOUS
    <2>1. T2[n] = rest \o w
      BY <1>1, <1>8, <1>11
    <2>2. InStep(n, u, z2)'
      <3>1. z2 = IF Emitted(n, u) = <<>> THEN z ELSE u
        BY <1>1
      <3>. QED
        BY <1>3, <1>6, <1>7, <3>1, InStepRead
    <2>3. Unbroken(T2[n])
      <3>1. CASE w = <<>>
        <4>1. T2[n] = rest
          BY <1>9, <2>1, <3>1
        <4>. QED
          BY <1>9, <4>1
      <3>2. CASE w # <<>>
        <4>1. Emits(n, c, u, z, w)
          BY <1>2, EmittedCases
        <4>2. CASE w = <<u>> /\ length[n] > 0 /\ PassesOn(n)
          <5>1. z = c /\ w[1] = u /\ Len(w) = 1
            BY <1>7, <4>2 DEF InStep
          <5>2. Unbroken(w) /\ Next5(Final(rest), w[1])
            BY <1>6, <1>9, <1>11, <5>1 DEF Unbroken
          <5>. QED
            BY <1>1, <1>9, <2>1, <3>2, <5>2, ChainedConcat
        <4>3. CASE w = <<TokenOf(u.of, 1), u>> /\ u.at = 2 /\ length[n] = 0
          <5>. PICK v : v = TokenOf(u.of, 1)
            OBVIOUS
          <5>1. w = <<v, u>> /\ v.of = u.of /\ v.at = 1 /\ Exact(v) /\ Exact(u)
            BY <1>3, <1>6, <4>3, TokenOfType DEF Next5
          <5>2. Len(w) = 2 /\ w[1] = v /\ w[2] = u
            BY <5>1
          <5>3. Next5(v, u)
            BY <4>3, <5>1 DEF Next5
          <5>4. Unbroken(w)
            <6>1. \A i \in 1 .. Len(w) - 1 : i = 1
              BY <5>2
            <6>. QED
              BY <5>2, <5>3, <6>1 DEF Unbroken
          <5>5. z.at = 5
            BY <1>7, <4>3 DEF InStep
          <5>6. Next5(Final(rest), w[1])
            BY <1>9, <1>11, <5>1, <5>2, <5>5 DEF Next5
          <5>. QED
            BY <1>1, <1>9, <2>1, <3>2, <5>4, <5>6, ChainedConcat
        <4>. QED
          BY <3>2, <4>1, <4>2, <4>3 DEF Emits
      <3>. QED
        BY <3>1, <3>2
    <2>. QED
      BY <1>1, <1>11, <2>2, <2>3
  <1>. QED
    BY <1>10, <1>11

\* A stream without gaps is one of whole frames.
LEMMA UnbrokenFrames ==
    ASSUME NEW s, NEW l, Labels(s, l), Unbroken(s), NEW i \in 1 .. Len(l) - 1
    PROVE  \/ l[i] = End /\ l[i + 1] = Start
           \/ <<l[i], l[i + 1]>> \in InFrame
  <1>1. /\ s \in Seq(Token) /\ l \in Seq(Part) /\ Len(s) = Len(l) + 1
        /\ \A j \in 1 .. Len(l) : s[j + 1].of \in Message /\ l[j] = PartOf(s[j + 1])
    BY DEF Labels
  <1>2. Len(l) \in Nat
    BY <1>1
  <1>3. /\ i \in 1 .. Len(l) /\ i + 1 \in 1 .. Len(l) /\ i + 1 \in 1 .. Len(s) - 1
        /\ i + 1 \in 1 .. Len(s) /\ (i + 1) + 1 \in 1 .. Len(s)
    BY <1>1, <1>2
  <1>. PICK a, b : a = s[i + 1] /\ b = s[(i + 1) + 1]
    OBVIOUS
  <1>4. /\ a \in Token /\ b \in Token /\ a.of \in Message /\ b.of \in Message
        /\ l[i] = PartOf(a) /\ l[i + 1] = PartOf(b)
    BY <1>1, <1>3
  <1>5. Next5(a, b) /\ Exact(a) /\ Exact(b)
    <2>1. Next5(a, b)
      BY <1>3 DEF Unbroken
    <2>2. i \in 1 .. Len(s) - 1
      BY <1>1, <1>2
    <2>3. Next5(s[i], a)
      BY <2>2 DEF Unbroken
    <2>. QED
      BY <2>1, <2>3 DEF Next5
  <1>6. CASE a.at = 5 /\ b.at = 1
    BY <1>4, <1>6, PartOfToken
  <1>7. CASE a.of = b.of /\ b.at = a.at + 1
    <2>1. a.at \in 1 .. 5 /\ b.at \in 1 .. 5
      BY <1>4 DEF Token
    <2>. PICK m \in Message : m = a.of
      BY <1>4
    <2>. PICK k \in 1 .. 4 : k = a.at
      BY <1>7, <2>1
    <2>2. l[i] = Frame[m][k] /\ l[i + 1] = Frame[m][k + 1]
      BY <1>4, <1>5, <1>7 DEF PartOf, Exact
    <2>. PICK pairs : pairs = {<<Frame[m][j], Frame[m][j + 1]>> : j \in 1 .. 4}
      OBVIOUS
    <2>3. pairs \subseteq InFrame
      BY DEF InFrame
    <2>4. <<Frame[m][k], Frame[m][k + 1]>> \in pairs
      OBVIOUS
    <2>. QED
      BY <2>2, <2>3, <2>4
  <1>. QED
    BY <1>5, <1>6, <1>7 DEF Next5

-----------------------------------------------------------------------------
(* No frame is torn                                                        *)

\* A message is written only between two frames.
LEMMA SendWires ==
    ASSUME TypeInv, NEW n \in Station, SendOwn(n)
    PROVE  \/ UNCHANGED <<link, written>>
           \/ /\ ~status[n].start /\ Head(todo[n]) \in Message
              /\ AppendsFrame(n, Head(todo[n]))
              /\ written' = [written EXCEPT ![n] = Append(@, Head(todo[n]))]
  <1>1. PICK m : m = Head(todo[n])
    OBVIOUS
  <1>2. todo[n] # <<>> /\ SendMessage(n, m) /\ todo[n] \in Seq(Message)
    BY <1>1 DEF SendOwn, TypeInv
  <1>3. m \in Message
    BY <1>1, <1>2
  <1>. QED
    BY <1>1, <1>2, <1>3
       DEF SendMessage, Enqueue, Refuse, SendNow, WriteMessage, BusIsBusy, AppendsFrame

LEMMA BeginWires ==
    ASSUME TypeInv, NEW T, NEW h, Tokens(T, h), NEW n \in Station, BeginUpdate(n)
    PROVE  \/ ~MessageWaits(n) /\ UNCHANGED <<link, written, messagesToSend>>
           \/ /\ MessageWaits(n) /\ ~status[n].start /\ Head(messagesToSend[n]) \in Message
              /\ AppendsFrame(n, Head(messagesToSend[n]))
              /\ written' = [written EXCEPT ![n] = Append(@, Head(messagesToSend[n]))]
  <1>1. CASE MessageWaits(n)
    <2>1. PICK m : m = Head(messagesToSend[n])
      OBVIOUS
    <2>2. messagesToSend[n] # <<>> /\ messagesToSend[n] \in Seq(Message) /\ status[n].end
      BY <1>1 DEF MessageWaits, TypeInv
    <2>3. m \in Message
      BY <2>1, <2>2
    <2>4. ~status[n].start
      BY <2>2 DEF Tokens, Follows
    <2>5. WriteMessage(n, m)
      BY <1>1, <2>1 DEF BeginUpdate
    <2>. QED
      BY <1>1, <2>1, <2>3, <2>4, <2>5 DEF WriteMessage, AppendsFrame
  <1>2. CASE ~MessageWaits(n)
    BY <1>2 DEF BeginUpdate
  <1>. QED
    BY <1>1, <1>2

\* What the wires carry are frames, and each station keeps the one it is in.
StreamInv == TypeInv /\ \E T, h : Tokens(T, h) /\ Whole(T)

LEMMA StreamInit == Init => StreamInv
  <1>. SUFFICES ASSUME Init PROVE StreamInv
    OBVIOUS
  <1>1. TypeInv
    BY TypeInvInit
  <1>. PICK t : t = Nothing
    OBVIOUS
  <1>. PICK T, h : /\ T = [n \in Station |-> <<Nothing>>]
                   /\ h = [n \in Station |-> Nobody]
    OBVIOUS
  <1>2. Tokens(T, h) /\ \A n \in Station : T[n] = <<t>>
    BY InitTokens
  <1>3. t.at = 5 /\ Len(<<t>>) = 1 /\ <<t>>[1] = t
    BY NothingType
  <1>4. Unbroken(<<t>>) /\ Final(<<t>>) = t
    BY <1>3 DEF Unbroken, Final
  <1>5. \A n \in Station : length[n] = 0 /\ ~status[n].start
    BY DEF Init, Idle
  <1>6. \A n \in Station : InStep(n, t, t)
    BY <1>3, <1>5 DEF InStep
  <1>7. \A n \in Station : T[Preceding(n)][1] = t
    BY <1>2, <1>3, PrecedingStation
  <1>8. Whole(T)
    BY <1>2, <1>4, <1>6, <1>7 DEF Whole
  <1>. QED
    BY <1>1, <1>2, <1>8 DEF StreamInv

LEMMA StreamStep == StreamInv /\ [Next]_vars => StreamInv'
  <1>. SUFFICES ASSUME StreamInv, [Next]_vars PROVE StreamInv'
    OBVIOUS
  <1>1. TypeInv /\ TypeInv'
    BY TypeStep DEF StreamInv
  <1>. PICK T, h : Tokens(T, h) /\ Whole(T)
    BY DEF StreamInv
  <1>2. ASSUME UNCHANGED <<link, reception, losses>>
        PROVE  StreamInv'
    <2>1. Tokens(T, h)' /\ Whole(T)'
      BY <1>2, QuietTokens, QuietWhole
    <2>. QED
      BY <1>1, <2>1 DEF StreamInv
  <1>3. ASSUME NEW n \in Station, NEW m \in Message, AppendsFrame(n, m), ~status[n].start,
               UNCHANGED <<reception, losses>>
        PROVE  StreamInv'
    <2>. PICK T2 : T2 = AfterWrite(T, n, m)
      OBVIOUS
    <2>1. UNCHANGED reception
      BY <1>3
    <2>2. Tokens(T2, h)'
      BY <1>1, <1>3, <2>1, WriteTokens
    <2>3. Whole(T2)'
      BY <1>1, <1>3, WriteWhole
    <2>. QED
      BY <1>1, <2>2, <2>3 DEF StreamInv
  <1>4. ASSUME NEW n \in Station, SendOwn(n), UNCHANGED <<reception, losses>>
        PROVE  StreamInv'
    <2>1. CASE UNCHANGED <<link, written>>
      BY <1>2, <1>4, <2>1
    <2>2. CASE ~UNCHANGED <<link, written>>
      <3>. PICK m : m = Head(todo[n])
        OBVIOUS
      <3>1. ~status[n].start /\ m \in Message /\ AppendsFrame(n, m)
        BY <1>1, <1>4, <2>2, SendWires
      <3>. QED
        BY <1>3, <1>4, <3>1
    <2>. QED
      BY <2>1, <2>2
  <1>5. CASE UNCHANGED vars
    BY <1>2, <1>5 DEF vars, reception
  <1>6. ASSUME NEW n \in Station, Send(n)
        PROVE  StreamInv'
    BY <1>4, <1>6 DEF Send
  <1>7. ASSUME NEW n \in Station, BeginUpdate(n)
        PROVE  StreamInv'
    <2>1. UNCHANGED <<reception, losses>>
      BY <1>7 DEF BeginUpdate
    <2>2. CASE ~MessageWaits(n)
      BY <1>2, <1>7, <2>1, <2>2 DEF BeginUpdate
    <2>3. CASE MessageWaits(n)
      <3>. PICK m : m = Head(messagesToSend[n])
        OBVIOUS
      <3>1. ~status[n].start /\ m \in Message /\ AppendsFrame(n, m)
        BY <1>1, <1>7, <2>3, BeginWires
      <3>. QED
        BY <1>3, <2>1, <3>1
    <2>. QED
      BY <2>2, <2>3
  <1>8. ASSUME NEW n \in Station, EndUpdate(n)
        PROVE  StreamInv'
    BY <1>2, <1>8 DEF EndUpdate
  <1>9. ASSUME NEW n \in Station, Callback(n)
        PROVE  StreamInv'
    <2>1. UNCHANGED <<reception, losses>>
      BY <1>9 DEF Callback
    <2>2. SendOwn(n) \/ UNCHANGED link
      BY <1>9 DEF Callback
    <2>. QED
      BY <1>2, <1>4, <2>1, <2>2
  <1>10. ASSUME NEW n \in Station, ReadByte(n)
         PROVE  StreamInv'
    <2>. PICK w : w = Emitted(n, Ahead(T, n))
      OBVIOUS
    <2>. PICK T2, h2 : T2 = AfterRead(T, n, w) /\ h2 = AfterHeader(T, h, n)
      OBVIOUS
    <2>1. UNCHANGED losses
      BY <1>10
         DEF ReadByte, ReadStart, ReadEnd, ReadStray, ReadHeader, ReadPayload, Read
    <2>2. Tokens(T2, h2)'
      BY <1>1, <1>10, ReadTokens
    <2>3. Whole(T2)'
      BY <1>1, <1>10, <2>1, ReadWhole
    <2>. QED
      BY <1>1, <2>2, <2>3 DEF StreamInv
  <1>11. ASSUME NEW n \in Station, Lose(n)
         PROVE  StreamInv'
    <2>. PICK T2, d : Loses(T, T2, n, d)
      BY <1>1, <1>11, LossWires
    <2>1. Tokens(T2, h)'
      BY <1>1, <1>11, LossTokens
    <2>2. losses' # 0
      BY <1>1, <1>11 DEF Lose, TypeInv, TypeOK
    <2>3. Whole(T2)'
      BY <2>2 DEF Whole
    <2>. QED
      BY <1>1, <2>1, <2>3 DEF StreamInv
  <1>12. CASE Next
    BY <1>6, <1>7, <1>8, <1>9, <1>10, <1>11, <1>12 DEF Next, Update
  <1>. QED
    BY <1>5, <1>12

\* Frames are never torn, in any ring and with any callbacks: each part on a wire is
\* followed by the next of its frame or, after the end delimiter, by a start delimiter,
\* as long as no byte is lost (Interface::update, sendMessage "bus is busy").
THEOREM FramesAlwaysWhole == Spec => []FramesWhole
  <1>1. StreamInv => FramesWhole
    <2>. SUFFICES ASSUME StreamInv, losses = 0, NEW n \in Station,
                         NEW i \in 1 .. Len(link[n]) - 1
                  PROVE  \/ link[n][i] = End /\ link[n][i + 1] = Start
                         \/ <<link[n][i], link[n][i + 1]>> \in InFrame
      BY DEF FramesWhole
    <2>. PICK T, h : Tokens(T, h) /\ Whole(T)
      BY DEF StreamInv
    <2>1. Labels(T[n], link[n]) /\ Unbroken(T[n])
      BY DEF Tokens, Wired, Whole
    <2>. QED
      BY <2>1, UnbrokenFrames
  <1>. QED
    BY StreamInit, StreamStep, <1>1, PTL DEF Spec

-----------------------------------------------------------------------------
(* Frames going round                                                      *)

Precedes(s, a, b) == \E i, j \in DOMAIN s : i < j /\ s[i] = a /\ s[j] = b

\* W[n]: what n has put on its wire.  a was there before b, from the same station.
Earlier(W, a, b) == Source[a] = Source[b] /\ Precedes(W[Source[a]], a, b)

IsWritten(W, m) == Contains(W[Source[m]], m)

\* The header of m, live behind p: the next station has not read it, nor that of any
\* message which was written later.
Comes(W, V, p, m) ==
    /\ m \in Message
    /\ Following[p] \notin V[m] /\ p \in V[m] \cup {Source[m]} /\ IsWritten(W, m)
    /\ \A y \in Message : Earlier(W, m, y) => Following[p] \notin V[y]

Once(T) ==
    \A p, q \in Station : \A i, j :
        IsLive(T[p], i) /\ IsLive(T[q], j) /\ T[p][i].of = T[q][j].of => p = q /\ i = j

Coming(W, T, V) == \A p \in Station : \A i : IsLive(T[p], i) => Comes(W, V, p, T[p][i].of)

InOrder(W, T) ==
    \A p \in Station : \A i, j :
        IsLive(T[p], i) /\ IsLive(T[p], j) /\ Earlier(W, T[p][i].of, T[p][j].of) => i <= j

\* V[m]: the stations that have read the header of m as that of a frame.
Visited(W, V) ==
    /\ V \in [Message -> SUBSET Station]
    /\ \A m \in Message : \A n \in V[m] :
           IsWritten(W, m) /\ Preceding(n) \in V[m] \cup {Source[m]}

Circ(W, T, V) == Once(T) /\ Coming(W, T, V) /\ InOrder(W, T) /\ Visited(W, V)

LEMMA LiveToken ==
    ASSUME NEW s \in Seq(Token), NEW i, IsLive(s, i)
    PROVE  i \in Int /\ i >= 2 /\ s[i] \in Token /\ s[i].at = 2
  <1>1. Len(s) \in Nat
    OBVIOUS
  <1>2. i \in 2 .. Len(s) /\ i \in 1 .. Len(s)
    BY <1>1 DEF IsLive
  <1>. QED
    BY <1>1, <1>2 DEF IsLive

\* Headers that move up on their wires or vanish.
Moves(T, T2, d) ==
    /\ d \in [Station -> Int]
    /\ \A p \in Station : \A i : IsLive(T2[p], i) =>
           /\ i \in Int /\ IsLive(T[p], i + d[p])
           /\ T2[p][i] = T[p][i + d[p]]

LEMMA CircKeep ==
    ASSUME NEW W, NEW T, NEW V, Circ(W, T, V), NEW T2, NEW d, Moves(T, T2, d)
    PROVE  Circ(W, T2, V)
  <1>1. Once(T2)
    <2>. SUFFICES ASSUME NEW p \in Station, NEW q \in Station, NEW i, NEW j,
                         IsLive(T2[p], i), IsLive(T2[q], j), T2[p][i].of = T2[q][j].of
                  PROVE  p = q /\ i = j
      BY DEF Once
    <2>. PICK i1, j1 : i1 = i + d[p] /\ j1 = j + d[q]
      OBVIOUS
    <2>1. /\ i \in Int /\ IsLive(T[p], i1) /\ T2[p][i] = T[p][i1]
          /\ j \in Int /\ IsLive(T[q], j1) /\ T2[q][j] = T[q][j1]
          /\ d[p] \in Int /\ d[q] \in Int
      BY DEF Moves
    <2>2. p = q /\ i1 = j1
      BY <2>1 DEF Circ, Once
    <2>. QED
      BY <2>1, <2>2
  <1>2. Coming(W, T2, V)
    BY DEF Circ, Coming, Moves
  <1>3. InOrder(W, T2)
    <2>. SUFFICES ASSUME NEW p \in Station, NEW i, NEW j,
                         IsLive(T2[p], i), IsLive(T2[p], j),
                         Earlier(W, T2[p][i].of, T2[p][j].of)
                  PROVE  i <= j
      BY DEF InOrder
    <2>. PICK i1, j1 : i1 = i + d[p] /\ j1 = j + d[p]
      OBVIOUS
    <2>1. /\ i \in Int /\ IsLive(T[p], i1) /\ T2[p][i] = T[p][i1]
          /\ j \in Int /\ IsLive(T[p], j1) /\ T2[p][j] = T[p][j1]
          /\ d[p] \in Int
      BY DEF Moves
    <2>2. i1 <= j1
      BY <2>1 DEF Circ, InOrder
    <2>. QED
      BY <2>1, <2>2
  <1>. QED
    BY <1>1, <1>2, <1>3 DEF Circ

\* The live headers once the first byte of the wire behind p is gone.
AfterTail(T, p) == [T EXCEPT ![p] = Tail(@)]

Ups(p) == [q \in Station |-> IF q = p THEN 1 ELSE 0]

LEMMA LiveAfterTail ==
    ASSUME NEW T \in [Station -> Seq(Token)], NEW p \in Station, Len(T[p]) >= 2,
           NEW T1, T1 = AfterTail(T, p), NEW d, d = Ups(p)
    PROVE  /\ T1 \in [Station -> Seq(Token)] /\ Moves(T, T1, d)
           /\ \A i : IsLive(T1[p], i) => i + d[p] >= 3
  <1>1. /\ d \in [Station -> Int] /\ d[p] = 1
        /\ \A q \in Station : q # p => d[q] = 0
    BY DEF Ups
  <1>2. Tail(T[p]) \in Seq(Token)
    BY NotEmpty
  <1>3. /\ T1 \in [Station -> Seq(Token)] /\ T1[p] = Tail(T[p])
        /\ \A q \in Station : q # p => T1[q] = T[q]
    BY <1>2 DEF AfterTail
  <1>4. ASSUME NEW i, IsLive(T1[p], i)
        PROVE  /\ i \in Int /\ i >= 2 /\ IsLive(T[p], i + 1)
               /\ T1[p][i] = T[p][i + 1]
    <2>1. i \in Int /\ i >= 2
      BY <1>3, <1>4, LiveToken
    <2>2. IsLive(T[p], i + 1) /\ Tail(T[p])[i] = T[p][i + 1]
      BY <1>3, <1>4, LiveTail
    <2>. QED
      BY <1>3, <2>1, <2>2
  <1>5. ASSUME NEW q \in Station, NEW i, IsLive(T1[q], i), q # p
        PROVE  /\ i \in Int /\ IsLive(T[q], i + 0)
               /\ T1[q][i] = T[q][i + 0]
    <2>1. i \in Int
      BY <1>3, <1>5, LiveToken
    <2>2. i + 0 = i
      BY <2>1
    <2>. QED
      BY <1>3, <1>5, <2>1, <2>2
  <1>6. Moves(T, T1, d)
    BY <1>1, <1>4, <1>5 DEF Moves
  <1>7. \A i : IsLive(T1[p], i) => i + d[p] >= 3
    BY <1>1, <1>4
  <1>. QED
    BY <1>3, <1>6, <1>7

\* n has read the header of m.
Visit(V, m, n) == [V EXCEPT ![m] = @ \cup {n}]

Gone(T, m) == \A q \in Station : \A i : IsLive(T[q], i) => T[q][i].of # m

\* The header m that is next behind p is read by n as that of a frame.
LEMMA CircTake ==
    ASSUME NEW W, NEW T \in [Station -> Seq(Token)], NEW V, Circ(W, T, V),
           NEW n \in Station, NEW p, p = Preceding(n), Len(T[p]) >= 2,
           IsLive(T[p], 2), NEW m \in Message, m = T[p][2].of,
           NEW T1, T1 = AfterTail(T, p),
           NEW V2, V2 = Visit(V, m, n)
    PROVE  Circ(W, T1, V2) /\ n \notin V[m] /\ Comes(W, V, p, m) /\ Gone(T1, m)
  <1>1. p \in Station /\ Following[p] = n
    BY PrecedingStation
  <1>2. PICK d : d = Ups(p)
    OBVIOUS
  <1>3. /\ T1 \in [Station -> Seq(Token)] /\ Moves(T, T1, d)
        /\ \A i : IsLive(T1[p], i) => i + d[p] >= 3
    BY <1>1, <1>2, LiveAfterTail
  <1>4. Circ(W, T1, V)
    BY <1>3, CircKeep
  <1>5. Comes(W, V, p, m)
    BY <1>1 DEF Circ, Coming
  <1>6. /\ V \in [Message -> SUBSET Station] /\ V2 \in [Message -> SUBSET Station]
        /\ \A y \in Message : V[y] \subseteq V2[y] /\ (y # m => V2[y] = V[y])
        /\ V2[m] = V[m] \cup {n}
    BY DEF Circ, Visited, Visit
  <1>7. ASSUME NEW q \in Station, NEW i, IsLive(T1[q], i)
        PROVE  T1[q][i].of # m
    <2>1. SUFFICES ASSUME T1[q][i].of = m PROVE FALSE
      OBVIOUS
    <2>. PICK j : j = i + d[q]
      OBVIOUS
    <2>2. IsLive(T[q], j) /\ T[q][j].of = m /\ (q = p => j >= 3)
      BY <1>3, <1>7, <2>1 DEF Moves
    <2>3. q = p /\ j = 2
      BY <1>1, <2>2 DEF Circ, Once
    <2>. QED
      BY <2>2, <2>3
  <1>8. ASSUME NEW i, IsLive(T1[p], i)
        PROVE  ~Earlier(W, T1[p][i].of, m)
    <2>1. SUFFICES ASSUME Earlier(W, T1[p][i].of, m) PROVE FALSE
      OBVIOUS
    <2>. PICK j : j = i + d[p]
      OBVIOUS
    <2>2. IsLive(T[p], j) /\ T[p][j] = T1[p][i] /\ j >= 3
      BY <1>1, <1>3, <1>8 DEF Moves
    <2>3. j <= 2
      BY <1>1, <2>1, <2>2 DEF Circ, InOrder
    <2>4. j \in Int
      BY <1>1, <2>2, LiveToken
    <2>. QED
      BY <2>2, <2>3, <2>4
  <1>9. Coming(W, T1, V2)
    <2>. SUFFICES ASSUME NEW q \in Station, NEW i, IsLive(T1[q], i)
                  PROVE  Comes(W, V2, q, T1[q][i].of)
      BY DEF Coming
    <2>. PICK x : x = T1[q][i].of
      OBVIOUS
    <2>1. Comes(W, V, q, x) /\ x # m
      BY <1>4, <1>7 DEF Circ, Coming
    <2>2. V2[x] = V[x]
      BY <1>6, <2>1 DEF Comes
    <2>3. ASSUME NEW y \in Message, Earlier(W, x, y)
          PROVE  Following[q] \notin V2[y]
      <3>1. Following[q] \notin V[y]
        BY <2>1, <2>3 DEF Comes
      <3>2. CASE y = m
        <4>1. Following[q] # n
          <5>1. q # p
            BY <1>8, <2>3, <3>2
          <5>. QED
            BY <1>1, <5>1, PrecedingOfFollowing
        <4>. QED
          BY <1>6, <3>1, <3>2, <4>1
      <3>3. CASE y # m
        BY <1>6, <3>1, <3>3
      <3>. QED
        BY <3>2, <3>3
    <2>. QED
      BY <2>1, <2>2, <2>3 DEF Comes
  <1>10. Visited(W, V2)
    <2>1. ASSUME NEW y \in Message, NEW k \in V2[y]
          PROVE  IsWritten(W, y) /\ Preceding(k) \in V2[y] \cup {Source[y]}
      <3>1. CASE k \in V[y]
        BY <1>6, <3>1 DEF Circ, Visited
      <3>2. CASE k \notin V[y]
        <4>1. y = m /\ k = n
          BY <1>6, <3>2
        <4>. QED
          BY <1>5, <1>6, <4>1 DEF Comes
      <3>. QED
        BY <3>1, <3>2
    <2>. QED
      BY <1>6, <2>1 DEF Visited
  <1>. QED
    BY <1>1, <1>4, <1>5, <1>6, <1>7, <1>9, <1>10 DEF Circ, Comes, Gone

AfterAppend(T, n, w) == [T EXCEPT ![n] = @ \o w]

\* The live headers after n has written w.
LivePlace(T, w, T2, n, q, i) ==
    \/ IsLive(T[q], i) /\ T2[q][i] = T[q][i]
    \/ /\ q = n /\ i \in Int /\ IsLive(w, i - Len(T[n]))
       /\ T2[q][i] = w[i - Len(T[n])]

LEMMA LiveAfterAppend ==
    ASSUME NEW T \in [Station -> Seq(Token)], NEW n \in Station, NEW w \in Seq(Token),
           T[n] # <<>>, w = <<>> \/ w[1].at # 2 \/ Final(T[n]).at \notin {1, 5},
           NEW T2, T2 = AfterAppend(T, n, w),
           NEW q \in Station, NEW i, IsLive(T2[q], i)
    PROVE  LivePlace(T, w, T2, n, q, i)
  <1>. PICK s : s = T[n]
    OBVIOUS
  <1>1. /\ s \in Seq(Token) /\ s # <<>>
        /\ T2[n] = s \o w /\ \A p \in Station : p # n => T2[p] = T[p]
    BY DEF AfterAppend
  <1>2. CASE q # n
    BY <1>1, <1>2 DEF LivePlace
  <1>3. CASE q = n
    <2>. PICK t : t = s \o w
      OBVIOUS
    <2>1. IsLive(t, i)
      BY <1>1, <1>3
    <2>2. LiveIn(s, w, t, i)
      BY <1>1, <2>1, LiveConcat
    <2>3. i \in Int
      <3>1. t \in Seq(Token)
        BY <1>1
      <3>. QED
        BY <2>1, <3>1, LiveToken
    <2>. QED
      BY <1>1, <1>3, <2>2, <2>3 DEF LiveIn, LivePlace
  <1>. QED
    BY <1>2, <1>3

LEMMA CircAppend ==
    ASSUME NEW W, NEW T \in [Station -> Seq(Token)], NEW V, Circ(W, T, V),
           NEW n \in Station, NEW w \in Seq(Token), T[n] # <<>>,
           w = <<>> \/ w[1].at # 2 \/ Final(T[n]).at \notin {1, 5},
           \A i : ~IsLive(w, i),
           NEW T2, T2 = AfterAppend(T, n, w)
    PROVE  Circ(W, T2, V)
  <1>. PICK d : d = [q \in Station |-> 0]
    OBVIOUS
  <1>1. ASSUME NEW q \in Station, NEW i, IsLive(T2[q], i)
        PROVE  /\ i \in Int /\ IsLive(T[q], i + d[q])
               /\ T2[q][i] = T[q][i + d[q]]
    <2>0. LivePlace(T, w, T2, n, q, i)
      BY <1>1, LiveAfterAppend
    <2>1. IsLive(T[q], i) /\ T2[q][i] = T[q][i]
      BY <2>0 DEF LivePlace
    <2>2. i \in Int /\ d[q] = 0
      BY <2>1, LiveToken
    <2>3. i + d[q] = i
      BY <2>2
    <2>. QED
      BY <2>1, <2>2, <2>3
  <1>2. Moves(T, T2, d)
    BY <1>1 DEF Moves
  <1>. QED
    BY <1>2, CircKeep

\* One more header, m, behind all others on the wire of n.
Gains(T, T2, n, m, l) ==
    /\ l \in Int
    /\ \A q \in Station : \A i : IsLive(T2[q], i) =>
           /\ i \in Int
           /\ \/ IsLive(T[q], i) /\ T2[q][i] = T[q][i] /\ (q = n => i < l)
              \/ q = n /\ i = l /\ T2[q][i].of = m

LEMMA CircAdd ==
    ASSUME NEW W, NEW T, NEW V, Circ(W, T, V), NEW n \in Station, NEW m \in Message,
           NEW T2, NEW l, Gains(T, T2, n, m, l), Comes(W, V, n, m),
           \A q \in Station : \A i : IsLive(T[q], i) => T[q][i].of # m,
           \A i : IsLive(T[n], i) => ~Earlier(W, m, T[n][i].of)
    PROVE  Circ(W, T2, V)
  <1>1. Once(T2)
    <2>. SUFFICES ASSUME NEW p \in Station, NEW q \in Station, NEW i, NEW j,
                         IsLive(T2[p], i), IsLive(T2[q], j), T2[p][i].of = T2[q][j].of
                  PROVE  p = q /\ i = j
      BY DEF Once
    <2>1. CASE IsLive(T[p], i) /\ T2[p][i] = T[p][i] /\ IsLive(T[q], j) /\ T2[q][j] = T[q][j]
      BY <2>1 DEF Circ, Once
    <2>2. \/ IsLive(T[p], i) /\ T2[p][i] = T[p][i]
          \/ p = n /\ i = l /\ T2[p][i].of = m
      BY DEF Gains
    <2>3. \/ IsLive(T[q], j) /\ T2[q][j] = T[q][j]
          \/ q = n /\ j = l /\ T2[q][j].of = m
      BY DEF Gains
    <2>. QED
      BY <2>1, <2>2, <2>3
  <1>2. Coming(W, T2, V)
    BY DEF Circ, Coming, Gains
  <1>3. InOrder(W, T2)
    <2>. SUFFICES ASSUME NEW q \in Station, NEW i, NEW j,
                         IsLive(T2[q], i), IsLive(T2[q], j),
                         Earlier(W, T2[q][i].of, T2[q][j].of)
                  PROVE  i <= j
      BY DEF InOrder
    <2>1. CASE IsLive(T[q], i) /\ T2[q][i] = T[q][i] /\ IsLive(T[q], j) /\ T2[q][j] = T[q][j]
      BY <2>1 DEF Circ, InOrder
    <2>2. CASE q = n /\ j = l
      <3>1. i = l \/ i < l
        BY <2>2 DEF Gains
      <3>2. l <= l
        BY DEF Gains
      <3>3. i < l => i <= l
        BY DEF Gains
      <3>. QED
        BY <2>2, <3>1, <3>2, <3>3
    <2>3. CASE q = n /\ i = l /\ T2[q][i].of = m /\ IsLive(T[q], j) /\ T2[q][j] = T[q][j]
      BY <2>3
    <2>. QED
      BY <2>1, <2>2, <2>3 DEF Gains
  <1>. QED
    BY <1>1, <1>2, <1>3 DEF Circ

AfterWritten(W, n, m) == [W EXCEPT ![n] = Append(@, m)]

\* What is written now comes behind everything else and nobody has read it.
LEMMA EarlierAppend ==
    ASSUME NEW W \in [Station -> Seq(Message)], NEW n \in Station, NEW m \in Message,
           Source[m] = n, ~IsWritten(W, m),
           NEW W2, W2 = AfterWritten(W, n, m)
    PROVE  /\ IsWritten(W2, m)
           /\ \A a \in Message : IsWritten(W, a) => IsWritten(W2, a) /\ a # m
           /\ \A a, b \in Message :
                 Earlier(W2, a, b) => IsWritten(W, a) /\ (Earlier(W, a, b) \/ b = m)
           /\ \A a, b \in Message : Earlier(W, a, b) => Earlier(W2, a, b)
           /\ W2 \in [Station -> Seq(Message)]
  <1>. PICK s, t : s = W[n] /\ t = Append(W[n], m)
    OBVIOUS
  <1>1. s \in Seq(Message) /\ t \in Seq(Message) /\ t = Append(s, m)
    OBVIOUS
  <1>2. /\ W2 \in [Station -> Seq(Message)] /\ W2[n] = t /\ W[n] = s
        /\ \A p \in Station : p # n => W2[p] = W[p]
    BY <1>1 DEF AfterWritten
  <1>. PICK k \in Nat : k = Len(s)
    BY <1>1
  <1>3. /\ Len(t) = k + 1 /\ t[k + 1] = m
        /\ \A i \in 1 .. k : t[i] = s[i]
        /\ DOMAIN s = 1 .. k /\ DOMAIN t = 1 .. k + 1
    BY <1>1
  <1>4. \A a : Contains(s, a) <=> \E i \in 1 .. k : s[i] = a
    BY DEF Contains
  <1>5. \A a : Contains(t, a) <=> \E i \in 1 .. k + 1 : t[i] = a
    BY <1>3 DEF Contains
  <1>6. Contains(t, m) /\ \A a : Contains(s, a) => Contains(t, a)
    BY <1>3, <1>4, <1>5
  <1>7. ~Contains(s, m)
    BY <1>2 DEF IsWritten
  <1>8. /\ IsWritten(W2, m)
        /\ \A a \in Message : IsWritten(W, a) => IsWritten(W2, a) /\ a # m
    <2>1. \A a \in Message : Source[a] \in Station
      BY MessageAssumption
    <2>2. IsWritten(W2, m)
      BY <1>2, <1>6 DEF IsWritten
    <2>3. ASSUME NEW a \in Message, IsWritten(W, a)
          PROVE  IsWritten(W2, a) /\ a # m
      <3>1. CASE Source[a] = n
        BY <1>2, <1>6, <1>7, <2>3, <3>1 DEF IsWritten
      <3>2. CASE Source[a] # n
        BY <1>2, <2>1, <2>3, <3>2 DEF IsWritten
      <3>. QED
        BY <3>1, <3>2
    <2>. QED
      BY <2>2, <2>3
  <1>9. ASSUME NEW a, NEW b
        PROVE  Precedes(t, a, b) => Contains(s, a) /\ (Precedes(s, a, b) \/ b = m)
    <2>. SUFFICES ASSUME NEW i \in 1 .. k + 1, NEW j \in 1 .. k + 1,
                         i < j, t[i] = a, t[j] = b
                  PROVE  Contains(s, a) /\ (Precedes(s, a, b) \/ b = m)
      BY <1>3 DEF Precedes
    <2>1. i \in 1 .. k /\ s[i] = a
      BY <1>3
    <2>2. CASE j = k + 1
      BY <1>3, <1>4, <2>1, <2>2
    <2>3. CASE j # k + 1
      <3>1. j \in 1 .. k /\ s[j] = b
        BY <1>3, <2>3
      <3>. QED
        BY <1>3, <1>4, <2>1, <3>1 DEF Precedes
    <2>. QED
      BY <2>2, <2>3
  <1>10. ASSUME NEW a, NEW b
         PROVE  Precedes(s, a, b) => Precedes(t, a, b)
    <2>. SUFFICES ASSUME NEW i \in 1 .. k, NEW j \in 1 .. k, i < j, s[i] = a, s[j] = b
                  PROVE  Precedes(t, a, b)
      BY <1>3 DEF Precedes
    <2>1. i \in 1 .. k + 1 /\ j \in 1 .. k + 1 /\ t[i] = a /\ t[j] = b
      BY <1>3
    <2>. QED
      BY <1>3, <2>1 DEF Precedes
  <1>11. ASSUME NEW a \in Message, NEW b \in Message, Earlier(W2, a, b)
         PROVE  IsWritten(W, a) /\ (Earlier(W, a, b) \/ b = m)
    <2>1. Source[a] = Source[b] /\ Precedes(W2[Source[a]], a, b) /\ Source[a] \in Station
      BY <1>11, MessageAssumption DEF Earlier
    <2>2. CASE Source[a] = n
      BY <1>2, <1>9, <2>1, <2>2 DEF Earlier, IsWritten
    <2>3. CASE Source[a] # n
      <3>1. Precedes(W[Source[a]], a, b)
        BY <1>2, <2>1, <2>3
      <3>2. Contains(W[Source[a]], a)
        BY <3>1, <2>1 DEF Precedes, Contains
      <3>. QED
        BY <2>1, <3>1, <3>2 DEF Earlier, IsWritten
    <2>. QED
      BY <2>2, <2>3
  <1>12. ASSUME NEW a \in Message, NEW b \in Message, Earlier(W, a, b)
         PROVE  Earlier(W2, a, b)
    <2>1. Source[a] = Source[b] /\ Precedes(W[Source[a]], a, b) /\ Source[a] \in Station
      BY <1>12, MessageAssumption DEF Earlier
    <2>. QED
      BY <1>2, <1>10, <2>1 DEF Earlier
  <1>. QED
    BY <1>2, <1>8, <1>11, <1>12

LEMMA GainsHeader ==
    ASSUME NEW T \in [Station -> Seq(Token)], NEW n \in Station, NEW w \in Seq(Token),
           T[n] # <<>>, w[1].at # 2, NEW m,
           \A i : IsLive(w, i) => i = 2 /\ w[i].of = m,
           NEW T2, T2 = AfterAppend(T, n, w)
    PROVE  Gains(T, T2, n, m, Len(T[n]) + 2)
  <1>. PICK k \in Nat : k = Len(T[n])
    OBVIOUS
  <1>1. ASSUME NEW q \in Station, NEW i, IsLive(T2[q], i)
        PROVE  /\ i \in Int
               /\ \/ IsLive(T[q], i) /\ T2[q][i] = T[q][i] /\ (q = n => i < k + 2)
                  \/ q = n /\ i = k + 2 /\ T2[q][i].of = m
    <2>1. LivePlace(T, w, T2, n, q, i)
      BY <1>1, LiveAfterAppend
    <2>2. CASE IsLive(T[q], i) /\ T2[q][i] = T[q][i]
      <3>1. i \in Int
        BY <2>2, LiveToken
      <3>2. q = n => i \in 2 .. k
        BY <2>2 DEF IsLive
      <3>. QED
        BY <2>2, <3>1, <3>2
    <2>3. CASE q = n /\ i \in Int /\ IsLive(w, i - k) /\ T2[q][i] = w[i - k]
      <3>1. i - k = 2 /\ w[i - k].of = m
        BY <2>3
      <3>. QED
        BY <2>3, <3>1
    <2>. QED
      BY <2>1, <2>2, <2>3 DEF LivePlace
  <1>. QED
    BY <1>1 DEF Gains

\* A message is put on the wire: nobody has seen it before.
LEMMA CircWrite ==
    ASSUME NEW W \in [Station -> Seq(Message)], NEW T \in [Station -> Seq(Token)], NEW V,
           Circ(W, T, V), NEW n \in Station, T[n] # <<>>,
           NEW m \in Message, Source[m] = n, ~IsWritten(W, m),
           NEW T2, T2 = AfterWrite(T, n, m),
           NEW W2, W2 = AfterWritten(W, n, m)
    PROVE  Circ(W2, T2, V)
  <1>1. /\ IsWritten(W2, m)
        /\ \A a \in Message : IsWritten(W, a) => IsWritten(W2, a) /\ a # m
        /\ \A a, b \in Message :
              Earlier(W2, a, b) => IsWritten(W, a) /\ (Earlier(W, a, b) \/ b = m)
    BY EarlierAppend, SMTT(30)
  <1>2. V[m] = {}
    BY DEF Circ, Visited
  <1>3. \A p \in Station : \A i : IsLive(T[p], i) => Comes(W, V, p, T[p][i].of)
    BY DEF Circ, Coming
  <1>4. \A p \in Station : \A i : IsLive(T[p], i) =>
            T[p][i].of \in Message /\ IsWritten(W, T[p][i].of) /\ T[p][i].of # m
    BY <1>1, <1>3 DEF Comes
  <1>5. Coming(W2, T, V)
    <2>. SUFFICES ASSUME NEW p \in Station, NEW x, Comes(W, V, p, x)
                  PROVE  Comes(W2, V, p, x)
      BY <1>3 DEF Coming
    <2>1. ASSUME NEW y \in Message, Earlier(W2, x, y)
          PROVE  Following[p] \notin V[y]
      <3>1. Earlier(W, x, y) \/ y = m
        BY <1>1, <2>1 DEF Comes
      <3>. QED
        BY <1>2, <3>1 DEF Comes
    <2>. QED
      BY <1>1, <2>1 DEF Comes
  <1>6. InOrder(W2, T)
    <2>. SUFFICES ASSUME NEW p \in Station, NEW i, NEW j,
                         IsLive(T[p], i), IsLive(T[p], j),
                         Earlier(W2, T[p][i].of, T[p][j].of)
                  PROVE  i <= j
      BY DEF InOrder
    <2>1. Earlier(W, T[p][i].of, T[p][j].of)
      BY <1>1, <1>4
    <2>. QED
      BY <2>1 DEF Circ, InOrder
  <1>7. Visited(W2, V)
    BY <1>1 DEF Circ, Visited
  <1>8. Circ(W2, T, V)
    BY <1>5, <1>6, <1>7 DEF Circ
  <1>9. Comes(W2, V, n, m)
    BY <1>1, <1>2 DEF Comes
  <1>. PICK w : w = FrameTokens(m)
    OBVIOUS
  <1>10. /\ w \in Seq(Token) /\ Len(w) = 5
         /\ \A k \in 1 .. 5 : w[k] = TokenOf(m, k)
    BY TokensOfFrame
  <1>11. w[1].at # 2
    <2>1. 1 \in 1 .. 5
      OBVIOUS
    <2>. PICK v : v = w[1]
      OBVIOUS
    <2>2. v = TokenOf(m, 1)
      BY <1>10, <2>1
    <2>3. v.at = 1
      BY <2>1, <2>2, TokenOfType
    <2>. QED
      BY <2>3
  <1>12. ASSUME NEW i, IsLive(w, i)
         PROVE  i = 2 /\ w[i].of = m
    <2>1. i \in 2 .. 5 /\ w[i].at = 2
      BY <1>10, <1>12 DEF IsLive
    <2>. PICK v : v = w[i]
      OBVIOUS
    <2>2. i \in 1 .. 5 /\ v = TokenOf(m, i)
      BY <1>10, <2>1
    <2>3. v.of = m /\ v.at = i
      BY <2>2, TokenOfType
    <2>. QED
      BY <2>1, <2>3
  <1>13. T2 = AfterAppend(T, n, w)
    BY DEF AfterWrite, AfterAppend
  <1>14. Gains(T, T2, n, m, Len(T[n]) + 2)
    BY <1>10, <1>11, <1>12, <1>13, GainsHeader
  <1>15. ASSUME NEW i, IsLive(T[n], i)
         PROVE  ~Earlier(W2, m, T[n][i].of)
    BY <1>1, <1>4, <1>15
  <1>16. \A q \in Station : \A i : IsLive(T[q], i) => T[q][i].of # m
    BY <1>4
  <1>. QED
    BY <1>8, <1>9, <1>14, <1>15, <1>16, CircAdd

\* A station that is not the source puts the header behind its own bytes.
LEMMA CircForward ==
    ASSUME NEW W, NEW T, NEW V, Circ(W, T, V),
           NEW n \in Station, NEW m \in Message, Source[m] # n,
           Comes(W, V, Preceding(n), m), n \notin V[m],
           NEW T1 \in [Station -> Seq(Token)], NEW V2, Circ(W, T1, V2), T1[n] # <<>>,
           V2 = Visit(V, m, n), Gone(T1, m),
           NEW w, w = <<TokenOf(m, 1), TokenOf(m, 2)>>,
           NEW T2, T2 = AfterAppend(T1, n, w)
    PROVE  Circ(W, T2, V2)
  <1>. PICK p \in Station : p = Preceding(n) /\ Following[p] = n
    BY PrecedingStation
  <1>1. /\ Following[n] \in Station /\ Preceding(Following[n]) = n
        /\ \A q \in Station : Following[q] = Following[n] => q = n
    BY PrecedingOfFollowing
  <1>0. V2[m] = V[m] \cup {n} /\ \A y \in Message : y # m => V2[y] = V[y]
    BY DEF Circ, Visited, Visit
  <1>2. Following[n] \notin V2[m]
    <2>1. Following[n] \notin V[m]
      BY <1>1 DEF Circ, Visited
    <2>2. Following[n] # n
      <3>1. SUFFICES ASSUME Following[n] = n PROVE FALSE
        OBVIOUS
      <3>2. p = n
        BY <1>1, <3>1
      <3>. QED
        BY <3>2 DEF Comes
    <2>. QED
      BY <1>0, <2>1, <2>2
  <1>3. ASSUME NEW y \in Message, Earlier(W, m, y)
        PROVE  Following[n] \notin V2[y] /\ n \notin V[y]
    <2>1. Source[y] # n /\ n \notin V[y]
      BY <1>3 DEF Comes, Earlier
    <2>2. Following[n] \notin V[y]
      BY <1>1, <2>1 DEF Circ, Visited
    <2>. QED
      BY <1>0, <1>2, <2>1, <2>2
  <1>4. Comes(W, V2, n, m)
    BY <1>0, <1>2, <1>3 DEF Comes
  <1>5. ASSUME NEW i, IsLive(T1[n], i)
        PROVE  ~Earlier(W, m, T1[n][i].of)
    <2>. PICK x : x = T1[n][i].of
      OBVIOUS
    <2>1. SUFFICES ASSUME Earlier(W, m, x) PROVE FALSE
      OBVIOUS
    <2>2. Comes(W, V2, n, x) /\ x # m
      BY <1>5 DEF Circ, Coming, Gone
    <2>3. x \in Message /\ n \in V2[x] \cup {Source[x]} /\ V2[x] = V[x]
      BY <1>0, <2>2 DEF Comes
    <2>4. Source[x] # n
      BY <2>1 DEF Earlier
    <2>. QED
      BY <1>3, <2>1, <2>3, <2>4
  <1>. PICK v, u : v = TokenOf(m, 1) /\ u = TokenOf(m, 2)
    OBVIOUS
  <1>6. /\ v \in Token /\ u \in Token /\ w = <<v, u>> /\ v.at = 1 /\ u.of = m
    <2>1. 1 \in 1 .. 5 /\ 2 \in 1 .. 5
      OBVIOUS
    <2>. QED
      BY <2>1, TokenOfType
  <1>7. w \in Seq(Token) /\ Len(w) = 2 /\ w[1] = v /\ w[2] = u
    BY <1>6
  <1>8. ASSUME NEW i, IsLive(w, i)
        PROVE  i = 2 /\ w[i].of = m
    <2>1. i \in 2 .. 2
      BY <1>7, <1>8 DEF IsLive
    <2>. QED
      BY <1>6, <1>7, <2>1
  <1>9. Gains(T1, T2, n, m, Len(T1[n]) + 2)
    <2>1. w[1].at # 2
      BY <1>6, <1>7
    <2>. QED
      BY <1>7, <1>8, <2>1, GainsHeader
  <1>. QED
    BY <1>4, <1>5, <1>9, CircAdd DEF Gone

\* What reading does, in two steps: the byte is taken, then n writes.
LEMMA ReadInTwo ==
    ASSUME NEW T, NEW h, Tokens(T, h), NEW n \in Station, NEW p, p = Preceding(n),
           link[p] # <<>>, NEW T1, T1 = AfterTail(T, p),
           NEW w, NEW T2, T2 = AfterRead(T, n, w)
    PROVE  /\ T \in [Station -> Seq(Token)] /\ T1 \in [Station -> Seq(Token)]
           /\ Len(T[p]) >= 2 /\ Len(T[p]) \in Nat
           /\ \A q \in Station : T1[q] # <<>> /\ Final(T1[q]) = Final(T[q])
           /\ T2 = AfterAppend(T1, n, w)
  <1>1. p \in Station
    BY PrecedingStation
  <1>2. /\ T \in [Station -> Seq(Token)]
        /\ \A q \in Station : Wired(T[q], link[q]) /\ T[q] # <<>>
    BY StreamType DEF Tokens
  <1>3. Len(T[p]) >= 2 /\ Len(T[p]) \in Nat
    BY <1>1, <1>2, LabelsTail, StreamType DEF Wired
  <1>4. /\ Wired(Tail(T[p]), Tail(link[p])) /\ Final(Tail(T[p])) = Final(T[p])
    BY <1>1, <1>2, WiredTail
  <1>5. Tail(T[p]) \in Seq(Token) /\ Tail(T[p]) # <<>>
    BY <1>4, StreamType
  <1>6. /\ T1 \in [Station -> Seq(Token)] /\ T1[p] = Tail(T[p])
        /\ \A q \in Station : q # p => T1[q] = T[q]
    BY <1>1, <1>2, <1>5 DEF AfterTail
  <1>7. \A q \in Station : T1[q] # <<>> /\ Final(T1[q]) = Final(T[q])
    BY <1>2, <1>4, <1>5, <1>6
  <1>8. T2 = AfterAppend(T1, n, w)
    BY DEF AfterRead, AfterAppend, AfterTail
  <1>. QED
    BY <1>2, <1>3, <1>6, <1>7, <1>8

\* A byte that n does not take for the header of a frame, or misreads for one.
LEMMA CircReadOther ==
    ASSUME TypeInv, NEW T, NEW h, Tokens(T, h), NEW W, NEW V, Circ(W, T, V),
           NEW n \in Station, link[Preceding(n)] # <<>>,
           ~TakesHeader(n) \/ ~IsHeader(Ahead(T, n)),
           NEW w, w = Emitted(n, Ahead(T, n)), NEW T2, T2 = AfterRead(T, n, w)
    PROVE  Circ(W, T2, V)
  <1>. PICK p \in Station : p = Preceding(n)
    BY PrecedingStation
  <1>. PICK T1, d : T1 = AfterTail(T, p) /\ d = Ups(p)
    OBVIOUS
  <1>. PICK u, c, z : u = Ahead(T, n) /\ c = T[p][1] /\ z = Final(T[n])
    OBVIOUS
  <1>1. /\ T \in [Station -> Seq(Token)] /\ T1 \in [Station -> Seq(Token)]
        /\ Len(T[p]) >= 2 /\ T1[n] # <<>> /\ Final(T1[n]) = z
        /\ T2 = AfterAppend(T1, n, w)
    BY ReadInTwo
  <1>2. Circ(W, T1, V)
    <2>1. Moves(T, T1, d)
      BY <1>1, LiveAfterTail
    <2>. QED
      BY <2>1, CircKeep
  <1>3. /\ u \in Token /\ u.of \in Message /\ NextByte(n) = PartOf(u)
    BY TokenAhead
  <1>4. Emits(n, c, u, z, w)
    BY EmittedCases
  <1>5. CASE w = <<>>
    <2>1. \A i : ~IsLive(<<>>, i)
      BY DEF IsLive
    <2>2. w \in Seq(Token)
      BY <1>5
    <2>. QED
      BY <1>1, <1>2, <1>5, <2>1, <2>2, CircAppend
  <1>6. CASE w = <<u>> /\ z.at \in 2 .. c.at /\ c.at <= 4
    <2>1. z.at # 1 /\ z.at # 5
      <3>1. c \in Token
        <4>1. Wired(T[p], link[p])
          BY DEF Tokens
        <4>. QED
          BY <4>1, StreamType
      <3>2. c.at \in 1 .. 5
        BY <3>1 DEF Token
      <3>. QED
        BY <1>6, <3>2
    <2>2. Len(w) = 1 /\ w \in Seq(Token)
      BY <1>3, <1>6
    <2>3. \A i : ~IsLive(w, i)
      BY <2>2 DEF IsLive
    <2>. QED
      BY <1>1, <1>2, <2>1, <2>2, <2>3, CircAppend
  <1>7. CASE /\ w = <<TokenOf(u.of, 1), u>>
             /\ u.at = 2 /\ status[n].start /\ length[n] = 0
    <2>1. IsData(n)
      BY <1>3, <1>7, PartOfToken DEF IsData
    <2>2. ~IsHeader(u)
      BY <1>7, <2>1 DEF TakesHeader
    <2>. PICK v : v = TokenOf(u.of, 1)
      OBVIOUS
    <2>3. v \in Token /\ v.at = 1
      <3>1. 1 \in 1 .. 5
        OBVIOUS
      <3>. QED
        BY <1>3, <3>1, TokenOfType
    <2>4. w \in Seq(Token) /\ Len(w) = 2 /\ w[1] = v /\ w[2] = u
      BY <1>3, <1>7, <2>3
    <2>5. \A i : ~IsLive(w, i)
      <3>. SUFFICES ASSUME NEW i, IsLive(w, i) PROVE FALSE
        OBVIOUS
      <3>1. i \in 2 .. 2 /\ IsHeader(w[i])
        BY <2>4 DEF IsLive
      <3>2. i = 2
        BY <3>1
      <3>. QED
        BY <2>2, <2>4, <3>1, <3>2
    <2>6. w[1].at # 2
      BY <2>3, <2>4
    <2>. QED
      BY <1>1, <1>2, <2>4, <2>5, <2>6, CircAppend
  <1>. QED
    BY <1>4, <1>5, <1>6, <1>7 DEF Emits

\* The header of a frame: n has visited m, and passes it on unless m is its own.
LEMMA CircReadHeader ==
    ASSUME TypeInv, NEW T, NEW h, Tokens(T, h), NEW W, NEW V, Circ(W, T, V),
           NEW n \in Station, link[Preceding(n)] # <<>>, TakesHeader(n),
           IsHeader(Ahead(T, n)), NEW m, m = Ahead(T, n).of,
           NEW w, w = Emitted(n, Ahead(T, n)), NEW T2, T2 = AfterRead(T, n, w),
           NEW V2, V2 = Visit(V, m, n)
    PROVE  /\ Circ(W, T2, V2) /\ m \in Message /\ n \in V2[m] /\ n \notin V[m]
           /\ Comes(W, V, Preceding(n), m)
           /\ \A y \in Message : V[y] \subseteq V2[y]
  <1>. PICK p \in Station : p = Preceding(n)
    BY PrecedingStation
  <1>. PICK T1 : T1 = AfterTail(T, p)
    OBVIOUS
  <1>. PICK u, c, z : u = Ahead(T, n) /\ c = T[p][1] /\ z = Final(T[n])
    OBVIOUS
  <1>1. /\ T \in [Station -> Seq(Token)] /\ T1 \in [Station -> Seq(Token)]
        /\ Len(T[p]) >= 2 /\ Len(T[p]) \in Nat /\ T1[n] # <<>>
        /\ T2 = AfterAppend(T1, n, w)
    BY ReadInTwo
  <1>2. /\ u \in Token /\ u.of \in Message /\ u.at = 2 /\ u = T[p][2]
        /\ status[n].start /\ length[n] = 0 /\ IsHeader(u)
    BY TokenAhead DEF TakesHeader, Ahead
  <1>10. PartOf(u) = Header(u.of)
    BY <1>2, PartOfToken
  <1>3. IsLive(T[p], 2)
    <2>1. c.at \in {1, 5}
      BY <1>2 DEF Tokens, Follows
    <2>2. 2 \in 2 .. Len(T[p]) /\ 2 - 1 = 1
      BY <1>1
    <2>. QED
      BY <1>2, <2>1, <2>2 DEF IsLive
  <1>4. m \in Message /\ m = T[p][2].of
    BY <1>2
  <1>5. Circ(W, T1, V2) /\ n \notin V[m] /\ Comes(W, V, p, m) /\ Gone(T1, m)
    BY <1>1, <1>3, <1>4, CircTake, ZenonT(30)
  <1>9. n \in V2[m] /\ \A y \in Message : V[y] \subseteq V2[y]
    BY <1>4 DEF Circ, Visited, Visit
  <1>6. w = IF Forwards(n, Header(m)) THEN <<TokenOf(m, 1), u>> ELSE <<>>
    BY <1>2, <1>10 DEF Emitted
  <1>7. CASE Forwards(n, Header(m))
    <2>1. Source[m] # n
      BY <1>4, <1>7, PartFields DEF Forwards, IsOwn
    <2>2. u = TokenOf(m, 2)
      <3>1. u \in [of : Message \cup {Nobody}, at : 1 .. 5, part : Part]
        BY <1>2 DEF Token
      <3>2. u.of = m /\ u.at = 2 /\ u.part = Frame[m][2]
        <4>1. Frame[m][2] = Header(m)
          BY <1>4, PartsOfFrame
        <4>. QED
          BY <1>2, <1>10, <4>1 DEF PartOf
      <3>3. u = [of |-> u.of, at |-> u.at, part |-> u.part]
        BY <3>1
      <3>. QED
        BY <3>2, <3>3 DEF TokenOf
    <2>3. w = <<TokenOf(m, 1), TokenOf(m, 2)>>
      BY <1>6, <1>7, <2>2
    <2>4. Comes(W, V, Preceding(n), m)
      BY <1>5
    <2>5. Circ(W, T2, V2)
      BY <1>1, <1>4, <1>5, <2>1, <2>3, <2>4, CircForward
    <2>. QED
      BY <1>4, <1>5, <1>9, <2>5
  <1>8. CASE ~Forwards(n, Header(m))
    <2>1. w = <<>> /\ w \in Seq(Token)
      BY <1>6, <1>8
    <2>2. \A i : ~IsLive(w, i)
      BY <2>1 DEF IsLive
    <2>3. Circ(W, T2, V2)
      BY <1>1, <1>5, <2>1, <2>2, CircAppend
    <2>. QED
      BY <1>4, <1>5, <1>9, <2>3
  <1>. QED
    BY <1>7, <1>8

\* A loss takes no header for another: it is still one, misread, or not there any more.
LEMMA CircLoss ==
    ASSUME NEW T, NEW h, Tokens(T, h), NEW W, NEW V, Circ(W, T, V),
           NEW n \in Station, NEW T2, NEW e, Loses(T, T2, n, e)
    PROVE  Circ(W, T2, V)
  <1>. PICK d : d = [q \in Station |-> IF q = n THEN e ELSE 0]
    OBVIOUS
  <1>1. /\ T2 \in [Station -> Seq(Token)] /\ e \in Int
        /\ \A p \in Station \ {n} : T2[p] = T[p]
        /\ \A i : IsLive(T2[n], i) =>
               i \in Int /\ IsLive(T[n], i + e) /\ T2[n][i] = T[n][i + e]
    BY DEF Loses, Lesser
  <1>2. \A p \in Station : T[p] \in Seq(Token)
    BY DEF Tokens
  <1>3. /\ d \in [Station -> Int] /\ d[n] = e
        /\ \A q \in Station : q # n => d[q] = 0
    BY <1>1
  <1>4. ASSUME NEW q \in Station, NEW i, IsLive(T2[q], i)
        PROVE  /\ i \in Int /\ IsLive(T[q], i + d[q])
               /\ T2[q][i] = T[q][i + d[q]]
    <2>1. CASE q = n
      BY <1>1, <1>3, <1>4, <2>1
    <2>2. CASE q # n
      <3>1. T2[q] = T[q] /\ d[q] = 0
        BY <1>1, <1>3, <2>2
      <3>2. i \in Int
        BY <1>2, <1>4, <3>1, LiveToken
      <3>3. i + 0 = i
        BY <3>2
      <3>. QED
        BY <1>4, <3>1, <3>2, <3>3
    <2>. QED
      BY <2>1, <2>2
  <1>5. Moves(T, T2, d)
    BY <1>3, <1>4 DEF Moves
  <1>. QED
    BY <1>5, CircKeep

-----------------------------------------------------------------------------
(* What a station has received                                             *)

\* a may be handled before b.
Fits(W, a, b) == a # b /\ ~Earlier(W, b, a)

InSequence(W, s) == \A i, j \in DOMAIN s : i < j => Fits(W, s[i], s[j])

\* n takes the frame of m for one of its own.
Reaches(n, m) == TypeFor(n, Wire(m)) # "ANY"

\* H: what the callbacks of n have got, M: what waits for them.
Gathered(W, V, n, H, M) ==
    /\ InSequence(W, H) /\ InSequence(W, M)
    /\ \A a \in ToSet(H), b \in ToSet(M) : Fits(W, a, b)
    /\ \A a \in ToSet(H) \cup ToSet(M) : n \in V[a] /\ Reaches(n, a)

\* x is the message whose frame n is reading, nobody's if the addresses were misread.
Current(W, V, n, x, H, M) ==
    x \in Message => /\ n \in V[x]
                     /\ \A a \in ToSet(H) \cup ToSet(M) : Fits(W, a, x)

LEMMA AppendSet ==
    ASSUME NEW S, NEW s \in Seq(S), NEW x \in S
    PROVE  /\ Append(s, x) \in Seq(S) /\ ToSet(Append(s, x)) = ToSet(s) \cup {x}
           /\ Len(s) \in Nat /\ DOMAIN s = 1 .. Len(s)
           /\ DOMAIN Append(s, x) = 1 .. Len(s) + 1
           /\ Append(s, x)[Len(s) + 1] = x
           /\ \A i \in 1 .. Len(s) : Append(s, x)[i] = s[i]
  <1>. PICK t : t = Append(s, x)
    OBVIOUS
  <1>. PICK k \in Nat : k = Len(s)
    OBVIOUS
  <1>1. /\ t \in Seq(S) /\ DOMAIN s = 1 .. k /\ DOMAIN t = 1 .. k + 1
        /\ t[k + 1] = x /\ \A i \in 1 .. k : t[i] = s[i]
    OBVIOUS
  <1>2. \A i \in 1 .. k + 1 : i = k + 1 \/ i \in 1 .. k
    OBVIOUS
  <1>3. k + 1 \in 1 .. k + 1 /\ \A i \in 1 .. k : i \in 1 .. k + 1
    OBVIOUS
  <1>4. ToSet(t) = ToSet(s) \cup {x}
    BY <1>1, <1>2, <1>3 DEF ToSet
  <1>. QED
    BY <1>1, <1>4

LEMMA TailSet ==
    ASSUME NEW S, NEW s \in Seq(S), s # <<>>
    PROVE  /\ Tail(s) \in Seq(S) /\ Head(s) \in S
           /\ ToSet(Tail(s)) \subseteq ToSet(s) /\ Head(s) \in ToSet(s)
           /\ Len(s) \in Nat /\ Len(s) >= 1 /\ Head(s) = s[1] /\ DOMAIN s = 1 .. Len(s)
           /\ DOMAIN Tail(s) = 1 .. Len(s) - 1
           /\ \A i \in 1 .. Len(s) - 1 : Tail(s)[i] = s[i + 1]
  <1>1. /\ Tail(s) \in Seq(S) /\ Len(s) \in Nat /\ Len(s) >= 1
        /\ Len(Tail(s)) = Len(s) - 1 /\ Head(s) = s[1]
        /\ \A i \in 1 .. Len(s) - 1 : Tail(s)[i] = s[i + 1]
    BY TailRest
  <1>. PICK k \in Nat : k = Len(s)
    BY <1>1
  <1>. PICK t : t = Tail(s)
    OBVIOUS
  <1>2. DOMAIN s = 1 .. k /\ DOMAIN t = 1 .. k - 1
    BY <1>1
  <1>3. 1 \in 1 .. k /\ \A i \in 1 .. k - 1 : i + 1 \in 1 .. k
    BY <1>1
  <1>4. ToSet(t) \subseteq ToSet(s)
    BY <1>1, <1>2, <1>3 DEF ToSet
  <1>5. s[1] \in ToSet(s) /\ s[1] \in S
    BY <1>2, <1>3 DEF ToSet
  <1>. QED
    BY <1>1, <1>2, <1>4, <1>5

LEMMA InSequenceAppend ==
    ASSUME NEW W, NEW s \in Seq(Message), NEW x \in Message, InSequence(W, s),
           \A a \in ToSet(s) : Fits(W, a, x)
    PROVE  InSequence(W, Append(s, x))
  <1>. PICK t : t = Append(s, x)
    OBVIOUS
  <1>. PICK k \in Nat : k = Len(s)
    OBVIOUS
  <1>1. /\ DOMAIN s = 1 .. k /\ DOMAIN t = 1 .. k + 1 /\ t[k + 1] = x
        /\ \A i \in 1 .. k : t[i] = s[i]
    BY AppendSet
  <1>2. ASSUME NEW i \in 1 .. k + 1, NEW j \in 1 .. k + 1, i < j
        PROVE  Fits(W, t[i], t[j])
    <2>1. i \in 1 .. k /\ t[i] = s[i]
      BY <1>1, <1>2
    <2>2. CASE j = k + 1
      <3>1. s[i] \in ToSet(s)
        BY <1>1, <2>1 DEF ToSet
      <3>. QED
        BY <1>1, <2>1, <2>2, <3>1
    <2>3. CASE j # k + 1
      <3>1. j \in 1 .. k /\ t[j] = s[j]
        BY <1>1, <2>3
      <3>. QED
        BY <1>1, <1>2, <2>1, <3>1 DEF InSequence
    <2>. QED
      BY <2>2, <2>3
  <1>. QED
    BY <1>1, <1>2 DEF InSequence

LEMMA InSequenceTail ==
    ASSUME NEW W, NEW s \in Seq(Message), s # <<>>, InSequence(W, s)
    PROVE  /\ InSequence(W, Tail(s))
           /\ \A b \in ToSet(Tail(s)) : Fits(W, Head(s), b)
  <1>. PICK t : t = Tail(s)
    OBVIOUS
  <1>. PICK k \in Nat : k = Len(s)
    OBVIOUS
  <1>1. /\ DOMAIN s = 1 .. k /\ DOMAIN t = 1 .. k - 1 /\ Head(s) = s[1] /\ k >= 1
        /\ \A i \in 1 .. k - 1 : t[i] = s[i + 1]
    BY TailSet
  <1>2. ASSUME NEW i \in 1 .. k - 1, NEW j \in 1 .. k - 1, i < j
        PROVE  Fits(W, t[i], t[j])
    <2>1. i + 1 \in 1 .. k /\ j + 1 \in 1 .. k /\ i + 1 < j + 1
      BY <1>2
    <2>. QED
      BY <1>1, <2>1 DEF InSequence
  <1>3. ASSUME NEW j \in 1 .. k - 1
        PROVE  Fits(W, s[1], t[j])
    <2>1. 1 \in 1 .. k /\ j + 1 \in 1 .. k /\ 1 < j + 1
      BY <1>1
    <2>. QED
      BY <1>1, <2>1 DEF InSequence
  <1>4. InSequence(W, t)
    BY <1>1, <1>2 DEF InSequence
  <1>5. \A b \in ToSet(t) : Fits(W, s[1], b)
    BY <1>1, <1>3 DEF ToSet
  <1>. QED
    BY <1>1, <1>4, <1>5

\* A message is taken from the queue for a callback.
LEMMA GatheredTake ==
    ASSUME NEW W, NEW V, NEW n, NEW H \in Seq(Message), NEW M \in Seq(Message),
           M # <<>>, Gathered(W, V, n, H, M)
    PROVE  /\ Gathered(W, V, n, H, Tail(M))
           /\ Gathered(W, V, n, Append(H, Head(M)), Tail(M))
           /\ ToSet(H) \cup ToSet(Tail(M)) \subseteq ToSet(H) \cup ToSet(M)
           /\ ToSet(Append(H, Head(M))) \cup ToSet(Tail(M)) \subseteq ToSet(H) \cup ToSet(M)
  <1>. PICK x, N : x = Head(M) /\ N = Tail(M)
    OBVIOUS
  <1>1. /\ N \in Seq(Message) /\ x \in Message /\ x \in ToSet(M)
        /\ ToSet(N) \subseteq ToSet(M)
    BY TailSet
  <1>2. InSequence(W, N) /\ \A b \in ToSet(N) : Fits(W, x, b)
    BY InSequenceTail DEF Gathered
  <1>3. ToSet(Append(H, x)) = ToSet(H) \cup {x}
    BY <1>1, AppendSet
  <1>4. InSequence(W, Append(H, x))
    <2>1. InSequence(W, H) /\ \A a \in ToSet(H) : Fits(W, a, x)
      BY <1>1 DEF Gathered
    <2>. QED
      BY <1>1, <2>1, InSequenceAppend
  <1>5. Gathered(W, V, n, H, N)
    BY <1>1, <1>2 DEF Gathered
  <1>6. Gathered(W, V, n, Append(H, x), N)
    BY <1>1, <1>2, <1>3, <1>4 DEF Gathered
  <1>. QED
    BY <1>1, <1>3, <1>5, <1>6

\* The message whose frame ends is received.
LEMMA GatheredAdd ==
    ASSUME NEW W, NEW V, NEW n, NEW H \in Seq(Message), NEW M \in Seq(Message),
           Gathered(W, V, n, H, M), NEW x \in Message, Current(W, V, n, x, H, M),
           Reaches(n, x)
    PROVE  Gathered(W, V, n, H, Append(M, x))
  <1>1. x \in Message /\ n \in V[x] /\ \A a \in ToSet(H) \cup ToSet(M) : Fits(W, a, x)
    BY DEF Current
  <1>2. ToSet(Append(M, x)) = ToSet(M) \cup {x}
    BY <1>1, AppendSet
  <1>3. InSequence(W, Append(M, x))
    BY <1>1, InSequenceAppend DEF Gathered
  <1>. QED
    BY <1>1, <1>2, <1>3 DEF Gathered

\* A message that is written now comes after all that were read.
LEMMA FitsLater ==
    ASSUME NEW W \in [Station -> Seq(Message)], NEW m \in Message, ~IsWritten(W, m),
           NEW W2, W2 = AfterWritten(W, Source[m], m),
           NEW a \in Message, a # m, NEW b \in Message, Fits(W, a, b)
    PROVE  Fits(W2, a, b)
  <1>1. Source[m] \in Station
    BY MessageAssumption
  <1>2. Earlier(W2, b, a) => Earlier(W, b, a) \/ a = m
    BY <1>1, EarlierAppend
  <1>. QED
    BY <1>2 DEF Fits

LEMMA InSequenceLater ==
    ASSUME NEW W \in [Station -> Seq(Message)], NEW m \in Message, ~IsWritten(W, m),
           NEW W2, W2 = AfterWritten(W, Source[m], m),
           NEW s \in Seq(Message), m \notin ToSet(s), InSequence(W, s)
    PROVE  InSequence(W2, s)
  <1>. SUFFICES ASSUME NEW i \in DOMAIN s, NEW j \in DOMAIN s, i < j
                PROVE  Fits(W2, s[i], s[j])
    BY DEF InSequence
  <1>. PICK a, b : a = s[i] /\ b = s[j]
    OBVIOUS
  <1>1. a \in Message /\ b \in Message /\ a # m /\ Fits(W, a, b)
    BY DEF ToSet, InSequence
  <1>2. Fits(W2, a, b)
    BY <1>1, FitsLater
  <1>. QED
    BY <1>2

\* The header of x is read by n for the first time, all that n got was written before.
LEMMA GatheredHeader ==
    ASSUME NEW W, NEW V, NEW n \in Station, NEW H \in Seq(Message), NEW M \in Seq(Message),
           Gathered(W, V, n, H, M),
           NEW x, Comes(W, V, Preceding(n), x), n \notin V[x], NEW V2, n \in V2[x],
           \A y \in Message : V[y] \subseteq V2[y]
    PROVE  Gathered(W, V2, n, H, M) /\ Current(W, V2, n, x, H, M)
  <1>1. \A a \in ToSet(H) \cup ToSet(M) : a \in Message
    BY DEF ToSet
  <1>2. Following[Preceding(n)] = n
    BY PrecedingStation
  <1>3. \A a \in ToSet(H) \cup ToSet(M) : n \in V[a] /\ n \in V2[a]
    BY <1>1 DEF Gathered
  <1>4. \A a \in ToSet(H) \cup ToSet(M) : Fits(W, a, x)
    BY <1>1, <1>2, <1>3 DEF Fits, Comes
  <1>. QED
    BY <1>3, <1>4 DEF Gathered, Current, Comes

-----------------------------------------------------------------------------
(* What a station has still to write                                       *)

\* P: what the program of n has still to send, Q: what waits for the end of a frame.
Waiting(W, n, P, Q) ==
    /\ IsInjective(P) /\ IsInjective(Q)
    /\ ToSet(P) \cap ToSet(Q) = {}
    /\ \A m \in ToSet(P) \cup ToSet(Q) : Source[m] = n /\ ~IsWritten(W, m)

LEMMA InjectiveTail ==
    ASSUME NEW s \in Seq(Message), s # <<>>, IsInjective(s)
    PROVE  IsInjective(Tail(s)) /\ Head(s) \notin ToSet(Tail(s))
  <1>. PICK t : t = Tail(s)
    OBVIOUS
  <1>. PICK k \in Nat : k = Len(s)
    OBVIOUS
  <1>1. /\ DOMAIN s = 1 .. k /\ DOMAIN t = 1 .. k - 1 /\ Head(s) = s[1] /\ k >= 1
        /\ \A i \in 1 .. k - 1 : t[i] = s[i + 1]
    BY TailSet
  <1>2. ASSUME NEW i \in 1 .. k - 1, NEW j \in 1 .. k - 1, t[i] = t[j]
        PROVE  i = j
    <2>1. i + 1 \in 1 .. k /\ j + 1 \in 1 .. k /\ s[i + 1] = s[j + 1]
      BY <1>1, <1>2
    <2>2. i + 1 = j + 1
      BY <1>1, <2>1 DEF IsInjective
    <2>. QED
      BY <2>2
  <1>3. ASSUME NEW j \in 1 .. k - 1
        PROVE  s[1] # t[j]
    <2>1. 1 \in 1 .. k /\ j + 1 \in 1 .. k /\ 1 # j + 1
      BY <1>1
    <2>. QED
      BY <1>1, <2>1 DEF IsInjective
  <1>4. IsInjective(t)
    BY <1>1, <1>2 DEF IsInjective
  <1>5. s[1] \notin ToSet(t)
    BY <1>1, <1>3 DEF ToSet
  <1>. QED
    BY <1>1, <1>4, <1>5

LEMMA InjectiveAppend ==
    ASSUME NEW s \in Seq(Message), IsInjective(s), NEW x \in Message, x \notin ToSet(s)
    PROVE  IsInjective(Append(s, x))
  <1>. PICK t : t = Append(s, x)
    OBVIOUS
  <1>. PICK k \in Nat : k = Len(s)
    OBVIOUS
  <1>1. /\ DOMAIN s = 1 .. k /\ DOMAIN t = 1 .. k + 1 /\ t[k + 1] = x
        /\ \A i \in 1 .. k : t[i] = s[i]
    BY AppendSet
  <1>2. \A i \in 1 .. k : s[i] # x
    BY <1>1 DEF ToSet
  <1>3. \A i \in 1 .. k + 1 : i = k + 1 \/ i \in 1 .. k
    OBVIOUS
  <1>4. \A i, j \in 1 .. k : s[i] = s[j] => i = j
    BY <1>1 DEF IsInjective
  <1>5. \A i, j \in 1 .. k + 1 : t[i] = t[j] => i = j
    BY <1>1, <1>2, <1>3, <1>4
  <1>. QED
    BY <1>1, <1>5 DEF IsInjective

\* removeFront
LEMMA WaitingPop ==
    ASSUME NEW W, NEW n, NEW P, NEW Q \in Seq(Message), Waiting(W, n, P, Q)
    PROVE  /\ Waiting(W, n, P, PopMessage(Q)) /\ PopMessage(Q) \in Seq(Message)
           /\ ToSet(PopMessage(Q)) \subseteq ToSet(Q)
           /\ Q # <<>> => /\ Head(Q) \in Message /\ Source[Head(Q)] = n
                          /\ ~IsWritten(W, Head(Q))
                          /\ Head(Q) \notin ToSet(P) \cup ToSet(PopMessage(Q))
  <1>1. CASE Q = <<>>
    BY <1>1 DEF PopMessage
  <1>2. CASE Q # <<>>
    <2>1. /\ Tail(Q) \in Seq(Message) /\ ToSet(Tail(Q)) \subseteq ToSet(Q)
          /\ Head(Q) \in Message /\ Head(Q) \in ToSet(Q)
      BY <1>2, TailSet
    <2>2. IsInjective(Tail(Q)) /\ Head(Q) \notin ToSet(Tail(Q))
      BY <1>2, InjectiveTail DEF Waiting
    <2>3. PopMessage(Q) = Tail(Q)
      BY <1>2 DEF PopMessage
    <2>. QED
      BY <2>1, <2>2, <2>3 DEF Waiting
  <1>. QED
    BY <1>1, <1>2

\* The program sends its next message.
LEMMA WaitingSend ==
    ASSUME NEW W, NEW n, NEW P \in Seq(Message), NEW Q \in Seq(Message),
           Waiting(W, n, P, Q), P # <<>>,
           NEW x, x = Head(P), NEW R, R = Tail(P), NEW Q2, Q2 = Append(Q, x)
    PROVE  /\ x \in Message
           /\ Waiting(W, n, R, Q) /\ Waiting(W, n, R, Q2)
           /\ x \notin ToSet(R) \cup ToSet(Q)
  <1>1. /\ R \in Seq(Message) /\ x \in Message /\ x \in ToSet(P)
        /\ ToSet(R) \subseteq ToSet(P) /\ IsInjective(R) /\ x \notin ToSet(R)
    BY TailSet, InjectiveTail DEF Waiting
  <1>2. ToSet(Q2) = ToSet(Q) \cup {x}
    BY <1>1, AppendSet
  <1>3. x \notin ToSet(Q)
    BY <1>1 DEF Waiting
  <1>4. IsInjective(Q2)
    BY <1>1, <1>3, InjectiveAppend DEF Waiting
  <1>5. Waiting(W, n, R, Q)
    BY <1>1 DEF Waiting
  <1>6. Waiting(W, n, R, Q2)
    BY <1>1, <1>2, <1>4 DEF Waiting
  <1>. QED
    BY <1>1, <1>3, <1>5, <1>6 DEF Waiting

\* Another message is written.
LEMMA WaitingWritten ==
    ASSUME NEW W \in [Station -> Seq(Message)], NEW n \in Station, NEW m \in Message,
           NEW k \in Station, NEW W2, W2 = AfterWritten(W, k, m),
           NEW P \in Seq(Message), NEW Q \in Seq(Message),
           Waiting(W, n, P, Q), k = n => m \notin ToSet(P) \cup ToSet(Q)
    PROVE  Waiting(W2, n, P, Q)
  <1>. SUFFICES ASSUME NEW x \in ToSet(P) \cup ToSet(Q)
                PROVE  ~IsWritten(W2, x)
    BY DEF Waiting
  <1>1. Source[x] = n /\ ~Contains(W[n], x)
    BY DEF Waiting, IsWritten
  <1>2. CASE k # n
    <2>1. W2[n] = W[n]
      BY <1>2 DEF AfterWritten
    <2>. QED
      BY <1>1, <2>1 DEF IsWritten
  <1>3. CASE k = n
    <2>. PICK s : s = W[n]
      OBVIOUS
    <2>. PICK i \in Nat : i = Len(s)
      OBVIOUS
    <2>1. W2[n] = Append(s, m) /\ s \in Seq(Message) /\ x # m
      BY <1>3 DEF AfterWritten
    <2>. PICK t : t = Append(s, m)
      OBVIOUS
    <2>2. Len(t) = i + 1 /\ t[i + 1] = m /\ \A j \in 1 .. i : t[j] = s[j]
      BY <2>1
    <2>3. ~Contains(t, x)
      BY <1>1, <2>1, <2>2 DEF Contains
    <2>. QED
      BY <1>1, <2>1, <2>3 DEF IsWritten
  <1>. QED
    BY <1>2, <1>3

-----------------------------------------------------------------------------
(* The messages in a queue of received messages                            *)

Contents(R) == [i \in 1 .. Len(R) |-> R[i].message]

LEMMA ContentsType ==
    ASSUME NEW R \in Seq(Received)
    PROVE  Contents(R) \in Seq(Message)
  <1>. PICK k \in Nat : k = Len(R)
    OBVIOUS
  <1>1. \A i \in 1 .. k : R[i] \in Received
    OBVIOUS
  <1>2. \A i \in 1 .. k : R[i].message \in Message
    BY <1>1 DEF Received
  <1>. QED
    BY <1>2 DEF Contents

LEMMA ContentsAppend ==
    ASSUME NEW R \in Seq(Received), NEW r \in Received
    PROVE  Contents(Append(R, r)) = Append(Contents(R), r.message)
  <1>. PICK k \in Nat : k = Len(R)
    OBVIOUS
  <1>. PICK t, M, N : t = Append(R, r) /\ M = Contents(R) /\ N = Contents(t)
    OBVIOUS
  <1>1. /\ t \in Seq(Received) /\ Len(t) = k + 1 /\ t[k + 1] = r
        /\ \A i \in 1 .. k : t[i] = R[i]
    OBVIOUS
  <1>2. M \in Seq(Message) /\ N \in Seq(Message) /\ r.message \in Message
    BY <1>1, ContentsType DEF Received
  <1>3. /\ Len(M) = k /\ \A i \in 1 .. k : M[i] = R[i].message
        /\ Len(N) = k + 1 /\ \A i \in 1 .. k + 1 : N[i] = t[i].message
    BY <1>1 DEF Contents
  <1>. PICK B : B = Append(M, r.message)
    OBVIOUS
  <1>4. /\ B \in Seq(Message) /\ Len(B) = k + 1 /\ B[k + 1] = r.message
        /\ \A i \in 1 .. k : B[i] = M[i]
    BY <1>2, <1>3
  <1>5. \A i \in 1 .. k + 1 : i = k + 1 \/ i \in 1 .. k
    OBVIOUS
  <1>6. \A i \in 1 .. k + 1 : N[i] = B[i]
    BY <1>1, <1>3, <1>4, <1>5
  <1>7. N = B
    BY <1>2, <1>3, <1>4, <1>6, SeqEqual
  <1>. QED
    BY <1>7

LEMMA ContentsTail ==
    ASSUME NEW R \in Seq(Received), R # <<>>
    PROVE  /\ Contents(R) # <<>> /\ Head(Contents(R)) = Head(R).message
           /\ Contents(Tail(R)) = Tail(Contents(R))
  <1>. PICK k \in Nat : k = Len(R)
    OBVIOUS
  <1>. PICK t, M, N : t = Tail(R) /\ M = Contents(R) /\ N = Contents(t)
    OBVIOUS
  <1>1. /\ t \in Seq(Received) /\ k >= 1 /\ Len(t) = k - 1 /\ Head(R) = R[1]
        /\ \A i \in 1 .. k - 1 : t[i] = R[i + 1]
    BY TailRest
  <1>2. M \in Seq(Message) /\ N \in Seq(Message)
    BY <1>1, ContentsType
  <1>3. /\ Len(M) = k /\ \A i \in 1 .. k : M[i] = R[i].message
        /\ Len(N) = k - 1 /\ \A i \in 1 .. k - 1 : N[i] = t[i].message
    BY <1>1 DEF Contents
  <1>4. M # <<>>
    BY <1>1, <1>2, <1>3, NotEmpty
  <1>. PICK B : B = Tail(M)
    OBVIOUS
  <1>5. /\ B \in Seq(Message) /\ Len(B) = k - 1 /\ Head(M) = M[1]
        /\ \A i \in 1 .. k - 1 : B[i] = M[i + 1]
    BY <1>2, <1>3, <1>4, TailRest
  <1>6. 1 \in 1 .. k /\ \A i \in 1 .. k - 1 : i + 1 \in 1 .. k
    BY <1>1
  <1>7. \A i \in 1 .. k - 1 : N[i] = B[i]
    BY <1>1, <1>3, <1>5, <1>6
  <1>8. Len(N) = Len(B) /\ \A i \in 1 .. Len(N) : N[i] = B[i]
    BY <1>3, <1>5, <1>7
  <1>9. N = B
    BY <1>2, <1>5, <1>8, SeqEqual
  <1>. QED
    BY <1>1, <1>3, <1>4, <1>5, <1>6, <1>9

-----------------------------------------------------------------------------
(* All stations                                                            *)

\* L: the lengths received, H: what was handled, R: what was received.
Collects(W, V, h, L, H, R) ==
    \A n \in Station :
        /\ Gathered(W, V, n, H[n], Contents(R[n]))
        /\ L[n] > 0 => Current(W, V, n, h[n], H[n], Contents(R[n]))

\* P: what the programs have still to send, Q: what waits for the end of a frame.
Awaits(W, P, Q) == \A n \in Station : Waiting(W, n, P[n], Q[n])

Rounds(T, h, V) ==
    /\ Circ(written, T, V)
    /\ Collects(written, V, h, length, handled, receivedMessages)
    /\ Awaits(written, todo, messagesToSend)

\* A callback gets the message received first, or nobody listens for it.
Takes(n, H, R, H2, R2) ==
    /\ R[n] # <<>> /\ R2 = [R EXCEPT ![n] = Tail(@)]
    /\ H2 = H \/ H2 = [H EXCEPT ![n] = Append(@, Head(R[n]).message)]

LEMMA CollectsTake ==
    ASSUME NEW W, NEW V, NEW h, NEW L, NEW H \in [Station -> Seq(Message)],
           NEW R \in [Station -> Seq(Received)], Collects(W, V, h, L, H, R),
           NEW n \in Station, NEW H2, NEW R2, Takes(n, H, R, H2, R2)
    PROVE  Collects(W, V, h, L, H2, R2)
  <1>. SUFFICES ASSUME NEW k \in Station
                PROVE  /\ Gathered(W, V, k, H2[k], Contents(R2[k]))
                       /\ L[k] > 0 => Current(W, V, k, h[k], H2[k], Contents(R2[k]))
    BY DEF Collects
  <1>1. CASE k # n
    <2>1. H2[k] = H[k] /\ R2[k] = R[k]
      BY <1>1 DEF Takes
    <2>. QED
      BY <2>1 DEF Collects
  <1>2. CASE k = n
    <2>. PICK r, S : r = R[n] /\ S = H[n]
      OBVIOUS
    <2>. PICK M, x : M = Contents(r) /\ x = Head(r).message
      OBVIOUS
    <2>1. /\ r \in Seq(Received) /\ r # <<>> /\ S \in Seq(Message) /\ R2[n] = Tail(r)
          /\ H2[n] = S \/ H2[n] = Append(S, x)
      BY DEF Takes
    <2>2. M \in Seq(Message) /\ M # <<>> /\ Head(M) = x /\ Contents(Tail(r)) = Tail(M)
      BY <2>1, ContentsType, ContentsTail
    <2>3. Gathered(W, V, n, S, M) /\ (L[n] > 0 => Current(W, V, n, h[n], S, M))
      BY DEF Collects
    <2>4. /\ Gathered(W, V, n, S, Tail(M)) /\ Gathered(W, V, n, Append(S, x), Tail(M))
          /\ ToSet(S) \cup ToSet(Tail(M)) \subseteq ToSet(S) \cup ToSet(M)
          /\ ToSet(Append(S, x)) \cup ToSet(Tail(M)) \subseteq ToSet(S) \cup ToSet(M)
      BY <2>1, <2>2, <2>3, GatheredTake, ZenonT(30)
    <2>5. L[n] > 0 => /\ Current(W, V, n, h[n], S, Tail(M))
                      /\ Current(W, V, n, h[n], Append(S, x), Tail(M))
      BY <2>3, <2>4 DEF Current
    <2>6. Contents(R2[n]) = Tail(M)
      BY <2>1, <2>2
    <2>. QED
      BY <1>2, <2>1, <2>4, <2>5, <2>6
  <1>. QED
    BY <1>1, <1>2

LEMMA CollectsLater ==
    ASSUME NEW W \in [Station -> Seq(Message)], NEW V, Visited(W, V),
           NEW m \in Message, ~IsWritten(W, m),
           NEW W2, W2 = AfterWritten(W, Source[m], m),
           NEW h, NEW L, NEW H \in [Station -> Seq(Message)],
           NEW R \in [Station -> Seq(Received)], Collects(W, V, h, L, H, R)
    PROVE  Collects(W2, V, h, L, H, R)
  <1>. SUFFICES ASSUME NEW k \in Station
                PROVE  /\ Gathered(W2, V, k, H[k], Contents(R[k]))
                       /\ L[k] > 0 => Current(W2, V, k, h[k], H[k], Contents(R[k]))
    BY DEF Collects
  <1>. PICK S, M, x : S = H[k] /\ M = Contents(R[k]) /\ x = h[k]
    OBVIOUS
  <1>1. S \in Seq(Message) /\ M \in Seq(Message)
    BY ContentsType
  <1>2. Gathered(W, V, k, S, M) /\ (L[k] > 0 => Current(W, V, k, x, S, M))
    BY DEF Collects
  <1>3. \A a \in ToSet(S) \cup ToSet(M) : a \in Message /\ k \in V[a]
    BY <1>1, <1>2 DEF ToSet, Gathered
  <1>4. \A a \in ToSet(S) \cup ToSet(M) : a \in Message /\ a # m
    BY <1>3 DEF Visited
  <1>5. ASSUME NEW a \in ToSet(S) \cup ToSet(M), NEW b \in Message, Fits(W, a, b)
        PROVE  Fits(W2, a, b)
    <2>1. a \in Message /\ a # m
      BY <1>4
    <2>. QED
      BY <1>5, <2>1, FitsLater
  <1>6. InSequence(W2, S)
    <2>1. m \notin ToSet(S) /\ InSequence(W, S)
      BY <1>2, <1>4 DEF Gathered
    <2>. QED
      BY <1>1, <2>1, InSequenceLater
  <1>7. InSequence(W2, M)
    <2>1. m \notin ToSet(M) /\ InSequence(W, M)
      BY <1>2, <1>4 DEF Gathered
    <2>. QED
      BY <1>1, <2>1, InSequenceLater
  <1>8. Gathered(W2, V, k, S, M)
    BY <1>2, <1>4, <1>5, <1>6, <1>7 DEF Gathered
  <1>9. Current(W, V, k, x, S, M) => Current(W2, V, k, x, S, M)
    BY <1>5 DEF Current
  <1>. QED
    BY <1>2, <1>8, <1>9

\* The station k at which nothing of a frame arrives or is forgotten.
LEMMA CollectsElsewhere ==
    ASSUME NEW W, NEW V, NEW V2, \A y \in Message : V[y] \subseteq V2[y],
           NEW h, NEW L, NEW H \in [Station -> Seq(Message)],
           NEW R \in [Station -> Seq(Received)], Collects(W, V, h, L, H, R),
           NEW k \in Station, NEW h2, NEW L2, L2[k] > 0 => L[k] > 0 /\ h2[k] = h[k]
    PROVE  /\ Gathered(W, V2, k, H[k], Contents(R[k]))
           /\ L2[k] > 0 => Current(W, V2, k, h2[k], H[k], Contents(R[k]))
  <1>. PICK S, M : S = H[k] /\ M = Contents(R[k])
    OBVIOUS
  <1>1. S \in Seq(Message) /\ M \in Seq(Message)
    BY ContentsType
  <1>2. \A a \in ToSet(S) \cup ToSet(M) : a \in Message
    BY <1>1 DEF ToSet
  <1>3. Gathered(W, V, k, S, M) /\ (L[k] > 0 => Current(W, V, k, h[k], S, M))
    BY DEF Collects
  <1>4. Gathered(W, V2, k, S, M)
    BY <1>2, <1>3 DEF Gathered
  <1>5. L2[k] > 0 => Current(W, V2, k, h2[k], S, M)
    BY <1>3 DEF Current
  <1>. QED
    BY <1>4, <1>5

-----------------------------------------------------------------------------
(* Messages are written                                                    *)

\* n writes m, which was still to be written.
LEMMA RoundsWrite ==
    ASSUME TypeInv, NEW T, NEW h, NEW V, Tokens(T, h), Circ(written, T, V),
           NEW H \in [Station -> Seq(Message)], NEW R \in [Station -> Seq(Received)],
           Collects(written, V, h, length, H, R),
           NEW n \in Station, NEW m \in Message, AppendsFrame(n, m), ~status[n].start,
           UNCHANGED reception, Source[m] = n, ~IsWritten(written, m),
           NEW W2, W2 = AfterWritten(written, n, m), written' = W2,
           NEW T2, T2 = AfterWrite(T, n, m)
    PROVE  /\ Tokens(T2, h)' /\ Circ(W2, T2, V)
           /\ Collects(W2, V, h, length, H, R)
  <1>1. Tokens(T2, h)'
    BY WriteTokens
  <1>2. /\ written \in [Station -> Seq(Message)] /\ T \in [Station -> Seq(Token)]
        /\ T[n] # <<>>
    BY StreamType DEF TypeInv, Tokens
  <1>3. Circ(W2, T2, V)
    BY <1>2, CircWrite
  <1>4. Visited(written, V)
    BY DEF Circ
  <1>5. Collects(W2, V, h, length, H, R)
    BY <1>2, <1>4, CollectsLater
  <1>. QED
    BY <1>1, <1>3, <1>5

LEMMA AwaitsWritten ==
    ASSUME NEW W \in [Station -> Seq(Message)], NEW n \in Station, NEW m \in Message,
           NEW W2, W2 = AfterWritten(W, n, m),
           NEW P \in [Station -> Seq(Message)], NEW Q \in [Station -> Seq(Message)],
           Awaits(W, P, Q), m \notin ToSet(P[n]) \cup ToSet(Q[n])
    PROVE  Awaits(W2, P, Q)
  <1>. SUFFICES ASSUME NEW k \in Station
                PROVE  Waiting(W2, k, P[k], Q[k])
    BY DEF Awaits
  <1>. PICK p, q : p = P[k] /\ q = Q[k]
    OBVIOUS
  <1>1. p \in Seq(Message) /\ q \in Seq(Message) /\ Waiting(W, k, p, q)
    BY DEF Awaits
  <1>2. n = k => m \notin ToSet(p) \cup ToSet(q)
    OBVIOUS
  <1>3. Waiting(W2, k, p, q)
    BY <1>1, <1>2, WaitingWritten
  <1>. QED
    BY <1>3

\* The messages go round while H is handled and R received: what the next state keeps.
Onward(h, V, H, R) ==
    \E T : /\ Tokens(T, h)' /\ Circ(written', T, V)
           /\ Collects(written', V, h, length, H, R)
           /\ Awaits(written', todo', messagesToSend')

LEMMA RoundsSend ==
    ASSUME TypeInv, NEW T, NEW h, NEW V, Tokens(T, h), Circ(written, T, V),
           NEW H \in [Station -> Seq(Message)], NEW R \in [Station -> Seq(Received)],
           Collects(written, V, h, length, H, R), Awaits(written, todo, messagesToSend),
           NEW n \in Station, SendOwn(n), UNCHANGED reception
    PROVE  Onward(h, V, H, R)
  <1>. PICK m, P, Q : m = Head(todo[n]) /\ P = todo[n] /\ Q = messagesToSend[n]
    OBVIOUS
  <1>. PICK P2, Q2 : P2 = todo' /\ Q2 = messagesToSend'
    OBVIOUS
  <1>. PICK W, P1, Q1 : W = written /\ P1 = todo /\ Q1 = messagesToSend
    OBVIOUS
  <1>0. /\ W \in [Station -> Seq(Message)] /\ P = P1[n] /\ Q = Q1[n]
        /\ Circ(W, T, V) /\ Awaits(W, P1, Q1)
    BY DEF TypeInv
  <1>1. /\ todo \in [Station -> Seq(Message)] /\ messagesToSend \in [Station -> Seq(Message)]
        /\ written \in [Station -> Seq(Message)]
        /\ P \in Seq(Message) /\ Q \in Seq(Message)
        /\ P2 \in [Station -> Seq(Message)] /\ Q2 \in [Station -> Seq(Message)]
    BY SendType DEF TypeInv
  <1>2. /\ P # <<>> /\ P2 = [todo EXCEPT ![n] = Tail(@)] /\ SendMessage(n, m)
        /\ P2[n] = Tail(P) /\ m = Head(P)
    BY <1>1 DEF SendOwn
  <1>3. Waiting(W, n, P, Q)
    BY <1>0 DEF Awaits
  <1>4. /\ m \in Message /\ Source[m] = n /\ ~IsWritten(W, m)
        /\ Waiting(W, n, Tail(P), Q) /\ Waiting(W, n, Tail(P), Append(Q, m))
        /\ m \notin ToSet(Tail(P)) \cup ToSet(Q)
    <2>1. /\ P \in Seq(Message) /\ Q \in Seq(Message) /\ P # <<>>
          /\ Waiting(W, n, P, Q) /\ m = Head(P)
      BY <1>1, <1>2, <1>3
    <2>. PICK r, q : r = Tail(P) /\ q = Append(Q, m)
      OBVIOUS
    <2>2. /\ m \in Message /\ Waiting(W, n, r, Q) /\ Waiting(W, n, r, q)
          /\ m \notin ToSet(r) \cup ToSet(Q)
      <3>1. m \in Message
        BY <2>1
      <3>2. Waiting(W, n, r, Q)
        BY <2>1, WaitingSend
      <3>3. Waiting(W, n, r, q)
        BY <2>1, WaitingSend
      <3>4. m \notin ToSet(r) \cup ToSet(Q)
        BY <2>1, WaitingSend
      <3>. QED
        BY <3>1, <3>2, <3>3, <3>4
    <2>3. m \in ToSet(P)
      BY <2>1, TailSet
    <2>4. Source[m] = n /\ ~IsWritten(W, m)
      BY <2>1, <2>3 DEF Waiting
    <2>. QED
      BY <2>2, <2>4
  <1>5. ASSUME UNCHANGED <<link, written>>, Awaits(W, P2, Q2)
        PROVE  Onward(h, V, H, R)
    <2>1. Tokens(T, h)'
      BY <1>5, QuietTokens
    <2>. QED
      BY <1>5, <2>1 DEF Onward
  <1>6. CASE Enqueue(n, m)
    <2>1. /\ Q2 = [messagesToSend EXCEPT ![n] = Append(@, m)]
          /\ UNCHANGED <<link, written>>
      BY <1>6 DEF Enqueue
    <2>2. /\ Q2[n] = Append(Q, m)
          /\ \A k \in Station : k # n => P2[k] = P1[k] /\ Q2[k] = Q1[k]
      BY <1>1, <1>2, <2>1
    <2>3. Awaits(W, P2, Q2)
      <3>1. Waiting(W, n, P2[n], Q2[n])
        BY <1>2, <1>4, <2>2
      <3>. QED
        BY <1>0, <2>2, <3>1 DEF Awaits
    <2>. QED
      BY <1>5, <2>1, <2>3
  <1>7. CASE Refuse(n, m)
    <2>1. Q2 = messagesToSend /\ UNCHANGED <<link, written>>
      BY <1>7 DEF Refuse
    <2>2. /\ Q2[n] = Q
          /\ \A k \in Station : k # n => P2[k] = P1[k] /\ Q2[k] = Q1[k]
      BY <1>1, <1>2, <2>1
    <2>3. Awaits(W, P2, Q2)
      <3>1. Waiting(W, n, P2[n], Q2[n])
        BY <1>2, <1>4, <2>2
      <3>. QED
        BY <1>0, <2>2, <3>1 DEF Awaits
    <2>. QED
      BY <1>5, <2>1, <2>3
  <1>8. CASE SendNow(n, m)
    <2>. PICK W2, T2 : W2 = AfterWritten(W, n, m) /\ T2 = AfterWrite(T, n, m)
      OBVIOUS
    <2>1. /\ Q2 = [messagesToSend EXCEPT ![n] = PopMessage(@)]
          /\ written' = W2 /\ AppendsFrame(n, m) /\ ~status[n].start
      BY <1>8
         DEF SendNow, WriteMessage, Written, BusIsBusy, AppendsFrame, AfterWritten
    <2>2. /\ Q2[n] = PopMessage(Q)
          /\ \A k \in Station : k # n => P2[k] = P1[k] /\ Q2[k] = Q1[k]
      BY <1>1, <1>2, <2>1
    <2>3. /\ Waiting(W, n, Tail(P), PopMessage(Q))
          /\ ToSet(PopMessage(Q)) \subseteq ToSet(Q)
      BY <1>1, <1>4, WaitingPop
    <2>4. Awaits(W, P2, Q2)
      <3>1. Waiting(W, n, P2[n], Q2[n])
        BY <1>2, <2>2, <2>3
      <3>. QED
        BY <1>0, <2>2, <3>1 DEF Awaits
    <2>5. m \notin ToSet(P2[n]) \cup ToSet(Q2[n])
      BY <1>2, <1>4, <2>2, <2>3
    <2>6. Awaits(W2, P2, Q2)
      BY <1>0, <1>1, <1>4, <2>4, <2>5, AwaitsWritten, ZenonT(30)
    <2>7. Tokens(T2, h)' /\ Circ(W2, T2, V) /\ Collects(W2, V, h, length, H, R)
      BY <1>4, <2>1, RoundsWrite
    <2>. QED
      BY <2>1, <2>6, <2>7 DEF Onward
  <1>. QED
    BY <1>2, <1>6, <1>7, <1>8 DEF SendMessage

\* update writes the first of the waiting messages.
LEMMA RoundsBegin ==
    ASSUME TypeInv, NEW T, NEW h, NEW V, Tokens(T, h), Rounds(T, h, V),
           NEW n \in Station, BeginUpdate(n)
    PROVE  Onward(h, V, handled, receivedMessages)
  <1>. PICK P, Q, m : P = todo[n] /\ Q = messagesToSend[n] /\ m = Head(messagesToSend[n])
    OBVIOUS
  <1>. PICK H, R, Q2 : /\ H = handled /\ R = receivedMessages
                       /\ Q2 = messagesToSend'
    OBVIOUS
  <1>. PICK W, P1, Q3 : W = written /\ P1 = todo /\ Q3 = messagesToSend
    OBVIOUS
  <1>1. /\ todo \in [Station -> Seq(Message)] /\ messagesToSend \in [Station -> Seq(Message)]
        /\ written \in [Station -> Seq(Message)]
        /\ H \in [Station -> Seq(Message)] /\ R \in [Station -> Seq(Received)]
        /\ P \in Seq(Message) /\ Q \in Seq(Message)
        /\ Q2 \in [Station -> Seq(Message)]
    BY BeginUpdateType DEF TypeInv
  <1>2. UNCHANGED reception /\ todo' = todo
    BY DEF BeginUpdate
  <1>3. /\ Circ(written, T, V) /\ Collects(written, V, h, length, H, R)
        /\ Awaits(W, P1, Q3) /\ W \in [Station -> Seq(Message)]
        /\ P1 \in [Station -> Seq(Message)] /\ P = P1[n] /\ Q = Q3[n]
    BY <1>1 DEF Rounds
  <1>4. CASE ~MessageWaits(n)
    <2>1. UNCHANGED <<link, written, messagesToSend>>
      BY <1>4 DEF BeginUpdate
    <2>2. Tokens(T, h)'
      BY <1>2, <2>1, QuietTokens
    <2>. QED
      BY <1>2, <1>3, <2>1, <2>2 DEF Onward
  <1>5. CASE MessageWaits(n)
    <2>. PICK W2, T2 : W2 = AfterWritten(W, n, m) /\ T2 = AfterWrite(T, n, m)
      OBVIOUS
    <2>1. ~status[n].start /\ m \in Message /\ AppendsFrame(n, m)
      BY <1>5, BeginWires
    <2>2. /\ Q # <<>> /\ m = Head(Q) /\ written' = W2
          /\ Q2 = [messagesToSend EXCEPT ![n] = PopMessage(PopMessage(@))]
      BY <1>5 DEF BeginUpdate, MessageWaits, WriteMessage, Written, AfterWritten
    <2>3. Waiting(W, n, P, Q)
      BY <1>3 DEF Awaits
    <2>. PICK Q1 : Q1 = PopMessage(Q)
      OBVIOUS
    <2>4. /\ Waiting(W, n, P, Q1) /\ Q1 \in Seq(Message)
          /\ Source[m] = n /\ ~IsWritten(W, m)
          /\ m \notin ToSet(P) \cup ToSet(Q1)
      BY <1>1, <2>2, <2>3, WaitingPop
    <2>5. Waiting(W, n, P, PopMessage(Q1)) /\ ToSet(PopMessage(Q1)) \subseteq ToSet(Q1)
      BY <2>4, WaitingPop
    <2>6. /\ Q2[n] = PopMessage(Q1)
          /\ \A k \in Station : k # n => Q2[k] = Q3[k]
      BY <1>1, <2>2
    <2>7. Awaits(W, P1, Q2)
      BY <1>3, <2>5, <2>6 DEF Awaits
    <2>8. m \notin ToSet(P1[n]) \cup ToSet(Q2[n])
      BY <2>4, <2>5, <2>6
    <2>9. Awaits(W2, P1, Q2)
      BY <1>1, <2>1, <2>7, <2>8, AwaitsWritten
    <2>10. Tokens(T2, h)' /\ Circ(W2, T2, V) /\ Collects(W2, V, h, length, H, R)
      BY <1>1, <1>2, <1>3, <2>1, <2>2, <2>4, RoundsWrite
    <2>. QED
      BY <1>2, <2>2, <2>9, <2>10 DEF Onward
  <1>. QED
    BY <1>4, <1>5

-----------------------------------------------------------------------------
(* A byte is read                                                          *)

\* What is received is the message whose header was read last.
LEMMA MessageForMe ==
    ASSUME TypeInv, NEW T, NEW h, Tokens(T, h), NEW n \in Station, length[n] > 0,
           IsForMe(n)
    PROVE  /\ ReceivedMessage(n) \in Received /\ ReceivedMessage(n).message = h[n]
           /\ h[n] \in Message /\ Reaches(n, h[n])
  <1>1. ReceivedMessage(n) \in Received
    BY ReceivedType
  <1>2. crc[n] \in Seq(Part) /\ CrcOk(crc[n]) /\ status[n].destination
    BY DEF IsForMe, TypeInv
  <1>. PICK m \in Message : crc[n] = <<Header(m), Payload(m), Check(m)>>
    BY <1>2, CrcMessage
  <1>3. Len(crc[n]) > 1 /\ crc[n][1] = Header(m) /\ crc[n][2] = Payload(m)
    <2>. PICK a, b, c : a = Header(m) /\ b = Payload(m) /\ c = Check(m)
      OBVIOUS
    <2>1. Len(<<a, b, c>>) = 3 /\ <<a, b, c>>[1] = a /\ <<a, b, c>>[2] = b
      OBVIOUS
    <2>. QED
      BY <2>1
  <1>4. crc[n][2].part = "payload" /\ crc[n][2].value = m
    BY <1>3, PartFields
  <1>5. Keeps(n, T[Preceding(n)][1], h[n])
    <2>1. crc[n][1].part = "header"
      BY <1>3, PartFields
    <2>2. ~Garbled(n, h[n])
      BY <1>2, <2>1 DEF Garbled
    <2>. QED
      BY <2>2 DEF Tokens, Follows
  <1>6. crc[n][2].value = h[n] /\ h[n] \in Message /\ Reaches(n, h[n])
    BY <1>2, <1>3, <1>4, <1>5 DEF Keeps, Reaches
  <1>7. ReceivedMessage(n).message = crc[n][2].value
    BY DEF ReceivedMessage
  <1>. QED
    BY <1>1, <1>6, <1>7

\* The queue of received messages after a byte was read.
Receives(n, R, R2, x) ==
    \/ R2 = R
    \/ /\ length[n] > 0 /\ length'[n] = 0 /\ x \in Message /\ Reaches(n, x)
       /\ \E r \in Received : r.message = x /\ R2 = [R EXCEPT ![n] = Append(@, r)]

LEMMA ReadReceives ==
    ASSUME TypeInv, NEW T, NEW h, Tokens(T, h), NEW n \in Station, ReadByte(n),
           ~TakesHeader(n)
    PROVE  /\ Receives(n, receivedMessages, receivedMessages', h[n])
           /\ length'[n] > 0 => length[n] > 0
  <1>1. length \in [Station -> Nat]
    BY DEF TypeInv, TypeOK
  <1>2. CASE ReadStart(n)
    BY <1>1, <1>2 DEF ReadStart, Receives
  <1>3. CASE ReadStray(n)
    BY <1>1, <1>3 DEF ReadStray, reception, Receives
  <1>4. CASE ReadHeader(n)
    BY <1>4 DEF ReadHeader, TakesHeader
  <1>5. CASE ReadPayload(n)
    BY <1>1, <1>5 DEF ReadPayload, Receives
  <1>6. CASE ReadEnd(n)
    <2>1. length'[n] = 0
      BY <1>1, <1>6 DEF ReadEnd
    <2>2. CASE UNCHANGED receivedMessages
      BY <2>1, <2>2 DEF Receives
    <2>3. CASE ~UNCHANGED receivedMessages
      <3>. PICK r : r = ReceivedMessage(n)
        OBVIOUS
      <3>1. /\ Complete(n) /\ IsForMe(n)
            /\ receivedMessages' = [receivedMessages EXCEPT ![n] = Append(@, r)]
        BY <1>6, <2>3 DEF ReadEnd
      <3>2. length[n] > 0
        BY <1>1, <3>1 DEF Complete
      <3>3. r \in Received /\ r.message = h[n] /\ h[n] \in Message /\ Reaches(n, h[n])
        BY <3>1, <3>2, MessageForMe
      <3>. QED
        BY <2>1, <3>1, <3>2, <3>3 DEF Receives
    <2>. QED
      BY <2>1, <2>2, <2>3
  <1>. QED
    BY <1>2, <1>3, <1>4, <1>5, <1>6 DEF ReadByte

\* What a step keeps that writes no message of its own.
Along(T, h, V) ==
    /\ Tokens(T, h)' /\ Circ(written, T, V)
    /\ Collects(written, V, h, length', handled, receivedMessages')

LEMMA RoundsReadHeader ==
    ASSUME TypeInv, NEW T, NEW h, NEW V, Tokens(T, h), Rounds(T, h, V),
           NEW n \in Station, ReadByte(n), TakesHeader(n), IsHeader(Ahead(T, n))
    PROVE  \E T2, h2, V2 : Along(T2, h2, V2)
  <1>. PICK m, w : m = Ahead(T, n).of /\ w = Emitted(n, Ahead(T, n))
    OBVIOUS
  <1>. PICK T2, h2 : T2 = AfterRead(T, n, w) /\ h2 = AfterHeader(T, h, n)
    OBVIOUS
  <1>. PICK V2 : V2 = Visit(V, m, n)
    OBVIOUS
  <1>. PICK W, H, R : W = written /\ H = handled /\ R = receivedMessages
    OBVIOUS
  <1>. PICK L, L2 : L = length /\ L2 = length'
    OBVIOUS
  <1>1. /\ H \in [Station -> Seq(Message)] /\ R \in [Station -> Seq(Received)]
        /\ link[Preceding(n)] # <<>>
    BY DEF TypeInv, ReadByte
  <1>2. Circ(W, T, V) /\ Collects(W, V, h, L, H, R)
    BY DEF Rounds
  <1>3. Tokens(T2, h2)'
    BY ReadTokens
  <1>4. /\ Circ(W, T2, V2) /\ m \in Message /\ n \in V2[m] /\ n \notin V[m]
        /\ Comes(W, V, Preceding(n), m)
        /\ \A y \in Message : V[y] \subseteq V2[y]
    BY <1>1, <1>2, CircReadHeader
  <1>5. h2[n] = m /\ \A k \in Station : k # n => h2[k] = h[k]
    BY DEF AfterHeader, HeaderOf, Tokens
  <1>6. UNCHANGED receivedMessages
    BY DEF ReadByte, ReadStart, ReadEnd, ReadStray, ReadHeader, ReadPayload, TakesHeader,
           IsData
  <1>7. ASSUME NEW k \in Station, k # n
        PROVE  /\ Gathered(W, V2, k, H[k], Contents(R[k]))
               /\ L2[k] > 0 => Current(W, V2, k, h2[k], H[k], Contents(R[k]))
    <2>1. L2[k] = L[k]
      BY <1>7, ReadElsewhere DEF SameReception
    <2>2. L2[k] > 0 => L[k] > 0 /\ h2[k] = h[k]
      BY <1>5, <1>7, <2>1
    <2>. QED
      BY <1>1, <1>2, <1>4, <2>2, CollectsElsewhere
  <1>8. Gathered(W, V2, n, H[n], Contents(R[n])) /\ Current(W, V2, n, m, H[n], Contents(R[n]))
    <2>. PICK S, M : S = H[n] /\ M = Contents(R[n])
      OBVIOUS
    <2>1. S \in Seq(Message) /\ M \in Seq(Message) /\ Gathered(W, V, n, S, M)
      BY <1>1, <1>2, ContentsType DEF Collects
    <2>2. Gathered(W, V2, n, S, M) /\ Current(W, V2, n, m, S, M)
      BY <1>4, <2>1, GatheredHeader
    <2>. QED
      BY <2>2
  <1>9. Collects(W, V2, h2, L2, H, R)
    BY <1>5, <1>7, <1>8 DEF Collects
  <1>. QED
    BY <1>3, <1>4, <1>6, <1>9 DEF Along

\* Addresses that are misread: the message they were written for goes round no more.
LEMMA RoundsMisread ==
    ASSUME TypeInv, NEW T, NEW h, NEW V, Tokens(T, h), Rounds(T, h, V),
           NEW n \in Station, ReadByte(n), TakesHeader(n), ~IsHeader(Ahead(T, n))
    PROVE  \E T2, h2, V2 : Along(T2, h2, V2)
  <1>. PICK w : w = Emitted(n, Ahead(T, n))
    OBVIOUS
  <1>. PICK T2, h2 : T2 = AfterRead(T, n, w) /\ h2 = AfterHeader(T, h, n)
    OBVIOUS
  <1>. PICK W, H, R : W = written /\ H = handled /\ R = receivedMessages
    OBVIOUS
  <1>. PICK L, L2 : L = length /\ L2 = length'
    OBVIOUS
  <1>1. /\ H \in [Station -> Seq(Message)] /\ R \in [Station -> Seq(Received)]
        /\ link[Preceding(n)] # <<>>
    BY DEF TypeInv, ReadByte
  <1>2. Circ(W, T, V) /\ Collects(W, V, h, L, H, R)
    BY DEF Rounds
  <1>3. Tokens(T2, h2)'
    BY ReadTokens
  <1>4. Circ(W, T2, V)
    BY <1>1, <1>2, CircReadOther
  <1>5. h2[n] \notin Message /\ \A k \in Station : k # n => h2[k] = h[k]
    <2>1. Nobody \notin Message
      BY NoSetContainsEverything DEF Nobody
    <2>2. h2 = [h EXCEPT ![n] = Nobody] /\ h \in [Station -> Message \cup {Nobody}]
      BY DEF AfterHeader, HeaderOf, Tokens
    <2>. QED
      BY <2>1, <2>2
  <1>6. UNCHANGED receivedMessages
    BY DEF ReadByte, ReadStart, ReadEnd, ReadStray, ReadHeader, ReadPayload, TakesHeader,
           IsData
  <1>7. \A y \in Message : V[y] \subseteq V[y]
    OBVIOUS
  <1>8. ASSUME NEW k \in Station, k # n
        PROVE  /\ Gathered(W, V, k, H[k], Contents(R[k]))
               /\ L2[k] > 0 => Current(W, V, k, h2[k], H[k], Contents(R[k]))
    <2>1. L2[k] = L[k]
      BY <1>8, ReadElsewhere DEF SameReception
    <2>2. L2[k] > 0 => L[k] > 0 /\ h2[k] = h[k]
      BY <1>5, <1>8, <2>1
    <2>. QED
      BY <1>1, <1>2, <1>7, <2>2, CollectsElsewhere
  <1>9. Gathered(W, V, n, H[n], Contents(R[n]))
    BY <1>2 DEF Collects
  <1>10. Current(W, V, n, h2[n], H[n], Contents(R[n]))
    BY <1>5 DEF Current
  <1>11. Collects(W, V, h2, L2, H, R)
    BY <1>8, <1>9, <1>10 DEF Collects
  <1>. QED
    BY <1>3, <1>4, <1>6, <1>11 DEF Along

LEMMA RoundsReadOther ==
    ASSUME TypeInv, NEW T, NEW h, NEW V, Tokens(T, h), Rounds(T, h, V),
           NEW n \in Station, ReadByte(n), ~TakesHeader(n)
    PROVE  \E T2, h2, V2 : Along(T2, h2, V2)
  <1>. PICK w : w = Emitted(n, Ahead(T, n))
    OBVIOUS
  <1>. PICK T2, h2 : T2 = AfterRead(T, n, w) /\ h2 = AfterHeader(T, h, n)
    OBVIOUS
  <1>. PICK W, H, R : W = written /\ H = handled /\ R = receivedMessages
    OBVIOUS
  <1>. PICK L, L2, R2 : L = length /\ L2 = length' /\ R2 = receivedMessages'
    OBVIOUS
  <1>1. /\ H \in [Station -> Seq(Message)] /\ R \in [Station -> Seq(Received)]
        /\ link[Preceding(n)] # <<>>
    BY DEF TypeInv, ReadByte
  <1>2. Circ(W, T, V) /\ Collects(W, V, h, L, H, R)
    BY DEF Rounds
  <1>3. Tokens(T2, h2)' /\ h2 = h
    BY ReadTokens DEF AfterHeader
  <1>4. Circ(W, T2, V)
    BY <1>1, <1>2, CircReadOther
  <1>5. Receives(n, R, R2, h[n]) /\ (L2[n] > 0 => L[n] > 0)
    BY ReadReceives
  <1>6. \A k \in Station : k # n => L2[k] = L[k]
    BY ReadElsewhere DEF SameReception
  <1>7. \A y \in Message : V[y] \subseteq V[y]
    OBVIOUS
  <1>8. ASSUME NEW k \in Station
        PROVE  /\ Gathered(W, V, k, H[k], Contents(R[k]))
               /\ L2[k] > 0 => Current(W, V, k, h[k], H[k], Contents(R[k]))
    <2>1. L2[k] > 0 => L[k] > 0 /\ h[k] = h[k]
      BY <1>5, <1>6
    <2>. QED
      BY <1>1, <1>2, <1>7, <2>1, CollectsElsewhere
  <1>9. Collects(W, V, h, L2, H, R2)
    <2>1. CASE R2 = R
      BY <1>8, <2>1 DEF Collects
    <2>2. CASE R2 # R
      <3>1. /\ L[n] > 0 /\ L2[n] = 0 /\ h[n] \in Message /\ Reaches(n, h[n])
            /\ \E r \in Received :
                  r.message = h[n] /\ R2 = [R EXCEPT ![n] = Append(@, r)]
        BY <1>5, <2>2 DEF Receives
      <3>. PICK r \in Received : r.message = h[n] /\ R2 = [R EXCEPT ![n] = Append(@, r)]
        BY <3>1
      <3>2. R2[n] = Append(R[n], r) /\ \A k \in Station : k # n => R2[k] = R[k]
        BY <1>1
      <3>. PICK S, M, x : S = H[n] /\ M = Contents(R[n]) /\ x = h[n]
        OBVIOUS
      <3>3. /\ S \in Seq(Message) /\ M \in Seq(Message)
            /\ Gathered(W, V, n, S, M) /\ Current(W, V, n, x, S, M) /\ x \in Message
        BY <1>1, <1>2, <3>1, ContentsType DEF Collects
      <3>4. Gathered(W, V, n, S, Append(M, x))
        BY <3>1, <3>3, GatheredAdd
      <3>5. Contents(R2[n]) = Append(M, x)
        BY <1>1, <3>2, ContentsAppend
      <3>6. ~(L2[n] > 0)
        BY <3>1
      <3>7. Gathered(W, V, n, H[n], Contents(R2[n]))
        <4>. PICK A, B : A = Append(M, x) /\ B = Contents(R2[n])
          OBVIOUS
        <4>1. Gathered(W, V, n, S, A) /\ A = B
          BY <3>4, <3>5
        <4>. QED
          BY <4>1
      <3>. QED
        BY <1>8, <3>2, <3>6, <3>7 DEF Collects
    <2>. QED
      BY <2>1, <2>2
  <1>. QED
    BY <1>3, <1>4, <1>9 DEF Along

-----------------------------------------------------------------------------
(* Messages go round once and in order                                     *)

\* What goes round, what was received and what is still to be written belong together.
RoundInv == TypeInv /\ \E T, h, V : Tokens(T, h) /\ Rounds(T, h, V)

LEMMA RoundInit == DistinctMessages /\ Init => RoundInv
  <1>. SUFFICES ASSUME DistinctMessages, Init PROVE RoundInv
    OBVIOUS
  <1>1. TypeInv
    BY TypeInvInit
  <1>. PICK t : t = Nothing
    OBVIOUS
  <1>. PICK T, h : /\ T = [n \in Station |-> <<Nothing>>]
                   /\ h = [n \in Station |-> Nobody]
    OBVIOUS
  <1>. PICK V : V = [m \in Message |-> {}]
    OBVIOUS
  <1>2. Tokens(T, h) /\ \A n \in Station : T[n] = <<t>>
    BY InitTokens
  <1>3. \A n \in Station : \A i : ~IsLive(T[n], i)
    <2>1. Len(<<t>>) = 1
      OBVIOUS
    <2>. QED
      BY <1>2, <2>1 DEF IsLive
  <1>4. Circ(written, T, V)
    <2>1. Visited(written, V)
      BY DEF Visited
    <2>. QED
      BY <1>3, <2>1 DEF Circ, Once, Coming, InOrder
  <1>5. ASSUME NEW n \in Station
        PROVE  /\ Gathered(written, V, n, handled[n], Contents(receivedMessages[n]))
               /\ ~(length[n] > 0)
    <2>1. handled[n] = <<>> /\ receivedMessages[n] = <<>> /\ length[n] = 0
      BY DEF Init
    <2>2. Contents(<<>>) = <<>>
      BY DEF Contents
    <2>3. ToSet(<<>>) = {} /\ InSequence(written, <<>>)
      BY DEF ToSet, InSequence
    <2>4. Gathered(written, V, n, <<>>, <<>>)
      BY <2>3 DEF Gathered
    <2>. QED
      BY <2>1, <2>2, <2>4
  <1>6. Collects(written, V, h, length, handled, receivedMessages)
    BY <1>5 DEF Collects
  <1>7. ASSUME NEW n \in Station
        PROVE  Waiting(written, n, todo[n], messagesToSend[n])
    <2>1. /\ todo[n] = Script[n] /\ messagesToSend[n] = <<>>
          /\ \A k \in Station : written[k] = <<>>
      BY DEF Init
    <2>2. IsInjective(Script[n]) /\ IsInjective(<<>>) /\ ToSet(<<>>) = {}
      BY DEF DistinctMessages, IsInjective, ToSet
    <2>3. \A m \in ToSet(Script[n]) : Source[m] = n /\ m \in Message
      BY MessageAssumption DEF ToSet
    <2>4. \A m \in Message : ~IsWritten(written, m)
      BY <2>1, MessageAssumption DEF IsWritten, Contains
    <2>. QED
      BY <2>1, <2>2, <2>3, <2>4 DEF Waiting
  <1>8. Awaits(written, todo, messagesToSend)
    BY <1>7 DEF Awaits
  <1>. QED
    BY <1>1, <1>2, <1>4, <1>6, <1>8 DEF RoundInv, Rounds

LEMMA RoundStep == RoundInv /\ [Next]_vars => RoundInv'
  <1>. SUFFICES ASSUME RoundInv, [Next]_vars PROVE RoundInv'
    OBVIOUS
  <1>1. TypeInv /\ TypeInv'
    BY TypeStep DEF RoundInv
  <1>. PICK T, h, V : Tokens(T, h) /\ Rounds(T, h, V)
    BY DEF RoundInv
  <1>2. /\ Circ(written, T, V) /\ Awaits(written, todo, messagesToSend)
        /\ Collects(written, V, h, length, handled, receivedMessages)
    BY DEF Rounds
  <1>3. /\ handled \in [Station -> Seq(Message)]
        /\ receivedMessages \in [Station -> Seq(Received)]
        /\ handled' \in [Station -> Seq(Message)]
        /\ receivedMessages' \in [Station -> Seq(Received)]
    BY <1>1 DEF TypeInv
  <1>4. ASSUME Onward(h, V, handled', receivedMessages'), UNCHANGED length
        PROVE  RoundInv'
    <2>. PICK T2 : /\ Tokens(T2, h)' /\ Circ(written', T2, V)
                   /\ Collects(written', V, h, length, handled', receivedMessages')
                   /\ Awaits(written', todo', messagesToSend')
      BY <1>4 DEF Onward
    <2>1. Rounds(T2, h, V)'
      BY <1>4 DEF Rounds
    <2>. QED
      BY <1>1, <2>1 DEF RoundInv
  <1>5. ASSUME UNCHANGED <<written, todo, messagesToSend, handled>>,
               NEW T2, NEW h2, NEW V2, Along(T2, h2, V2)
        PROVE  RoundInv'
    <2>1. Rounds(T2, h2, V2)' /\ Tokens(T2, h2)'
      BY <1>2, <1>5 DEF Rounds, Along
    <2>. QED
      BY <1>1, <2>1 DEF RoundInv
  <1>6. ASSUME UNCHANGED <<link, reception, written, todo, messagesToSend>>,
               Collects(written, V, h, length, handled', receivedMessages')
        PROVE  RoundInv'
    <2>1. Tokens(T, h)'
      BY <1>6, QuietTokens
    <2>2. Onward(h, V, handled', receivedMessages')
      BY <1>2, <1>6, <2>1 DEF Onward
    <2>. QED
      BY <1>4, <1>6, <2>2 DEF reception
  <1>7. CASE UNCHANGED vars
    BY <1>2, <1>6, <1>7 DEF vars, reception, queues, history
  <1>8. ASSUME NEW n \in Station, Send(n)
        PROVE  RoundInv'
    <2>1. SendOwn(n) /\ UNCHANGED <<reception, receivedMessages, handled>>
      BY <1>8 DEF Send
    <2>2. Onward(h, V, handled, receivedMessages)
      BY <1>1, <1>2, <1>3, <2>1, RoundsSend
    <2>. QED
      BY <1>4, <2>1, <2>2 DEF reception
  <1>9. ASSUME NEW n \in Station, BeginUpdate(n)
        PROVE  RoundInv'
    <2>1. UNCHANGED <<reception, receivedMessages, handled>>
      BY <1>9 DEF BeginUpdate
    <2>2. Onward(h, V, handled, receivedMessages)
      BY <1>1, <1>9, RoundsBegin
    <2>. QED
      BY <1>4, <2>1, <2>2 DEF reception
  <1>10. ASSUME NEW n \in Station, EndUpdate(n)
         PROVE  RoundInv'
    BY <1>2, <1>6, <1>10 DEF EndUpdate, queues, history
  <1>11. ASSUME NEW n \in Station, Callback(n)
         PROVE  RoundInv'
    <2>. PICK H, R, H2, R2 : /\ H = handled /\ R = receivedMessages
                             /\ H2 = handled' /\ R2 = receivedMessages'
      OBVIOUS
    <2>1. Takes(n, H, R, H2, R2) /\ UNCHANGED reception
      BY <1>11 DEF Callback, Takes, history
    <2>2. Collects(written, V, h, length, H2, R2)
      BY <1>2, <1>3, <2>1, CollectsTake
    <2>3. CASE SendOwn(n)
      <3>1. Onward(h, V, H2, R2)
        BY <1>1, <1>2, <1>3, <2>1, <2>2, <2>3, RoundsSend
      <3>. QED
        BY <1>4, <2>1, <3>1 DEF reception
    <2>4. CASE ~SendOwn(n)
      <3>1. UNCHANGED <<link, messagesToSend, todo, written>>
        BY <1>11, <2>4 DEF Callback, history
      <3>. QED
        BY <1>6, <2>1, <2>2, <3>1
    <2>. QED
      BY <2>3, <2>4
  <1>12. ASSUME NEW n \in Station, ReadByte(n)
         PROVE  RoundInv'
    <2>1. UNCHANGED <<written, todo, messagesToSend, handled>>
      BY <1>12
         DEF ReadByte, ReadStart, ReadEnd, ReadStray, ReadHeader, ReadPayload, Read
    <2>2. \E T2, h2, V2 : Along(T2, h2, V2)
      BY <1>1, <1>12, RoundsReadHeader, RoundsMisread, RoundsReadOther
    <2>. QED
      BY <1>5, <2>1, <2>2
  <1>13. ASSUME NEW n \in Station, Lose(n)
         PROVE  RoundInv'
    <2>. PICK T2, d : Loses(T, T2, n, d)
      BY <1>1, <1>13, LossWires
    <2>. PICK W : W = written
      OBVIOUS
    <2>1. Tokens(T2, h)'
      BY <1>1, <1>13, LossTokens
    <2>2. Circ(W, T2, V)
      BY <1>1, <1>2, <1>13, CircLoss
    <2>3. UNCHANGED <<reception, written, todo, messagesToSend, handled, receivedMessages>>
      BY <1>13 DEF Lose, queues, history
    <2>4. Onward(h, V, handled', receivedMessages')
      BY <1>2, <2>1, <2>2, <2>3 DEF Onward
    <2>. QED
      BY <1>4, <2>3, <2>4 DEF reception
  <1>14. CASE Next
    BY <1>8, <1>9, <1>10, <1>11, <1>12, <1>13, <1>14 DEF Next, Update
  <1>. QED
    BY <1>7, <1>14

LEMMA ReachesAddressed ==
    ASSUME GroupsAreNotAll, NEW n \in Station, NEW m \in Message, Reaches(n, m)
    PROVE  Addressed(n, m)
  <1>. PICK w : w = Wire(m)
    OBVIOUS
  <1>1. Type[m] \in MessageType
    BY MessageAssumption
  <1>2. CASE Type[m] = "BROADCAST"
    BY <1>2 DEF Addressed
  <1>3. CASE Type[m] = "MULTICAST"
    <2>1. w = [group |-> TRUE, address |-> Destination[m]]
      BY <1>3 DEF Wire
    <2>2. w.group /\ w.address = Destination[m] /\ w.address # ADDRESS_VALUE
      BY <1>3, <2>1 DEF GroupsAreNotAll
    <2>. QED
      BY <1>3, <2>2 DEF Reaches, TypeFor, Addressed
  <1>4. CASE Type[m] = "UNICAST"
    <2>1. w = [group |-> FALSE, address |-> Destination[m]]
      BY <1>4 DEF Wire
    <2>2. ~w.group /\ w.address = Destination[m]
      BY <2>1
    <2>. QED
      BY <1>4, <2>2 DEF Reaches, TypeFor, Addressed
  <1>. QED
    BY <1>1, <1>2, <1>3, <1>4 DEF MessageType

\* What was handled was written, and one message after the other.
LEMMA HandledInSequence ==
    ASSUME RoundInv, NEW n \in Station
    PROVE  /\ handled[n] \in Seq(Message) /\ InSequence(written, handled[n])
           /\ \A i \in DOMAIN handled[n] :
                  IsWritten(written, handled[n][i]) /\ Reaches(n, handled[n][i])
  <1>. PICK T, h, V : Tokens(T, h) /\ Rounds(T, h, V)
    BY DEF RoundInv
  <1>. PICK s, W : s = handled[n] /\ W = written
    OBVIOUS
  <1>1. s \in Seq(Message)
    BY DEF RoundInv, TypeInv
  <1>2. /\ Gathered(W, V, n, s, Contents(receivedMessages[n]))
        /\ Visited(W, V)
    BY DEF Rounds, Collects, Circ
  <1>3. ASSUME NEW i \in DOMAIN s
        PROVE  IsWritten(W, s[i]) /\ Reaches(n, s[i])
    <2>1. s[i] \in Message /\ s[i] \in ToSet(s)
      BY <1>1 DEF ToSet
    <2>2. n \in V[s[i]] /\ Reaches(n, s[i])
      BY <1>2, <2>1 DEF Gathered
    <2>. QED
      BY <1>2, <2>1, <2>2 DEF Visited
  <1>. QED
    BY <1>1, <1>2, <1>3 DEF Gathered

\* A callback gets a message at most once, only where it is addressed to and only if it
\* was written, in any ring and whatever the wires lose (update, case 3 and default).
THEOREM HandledAlwaysOnce ==
    ASSUME DistinctMessages, GroupsAreNotAll
    PROVE  Spec => []HandledOnce
  <1>1. Init => RoundInv
    BY RoundInit
  <1>2. RoundInv => HandledOnce
    <2>. SUFFICES ASSUME RoundInv, NEW n \in Station
                  PROVE  /\ IsInjective(handled[n])
                         /\ \A i \in DOMAIN handled[n] :
                                /\ Addressed(n, handled[n][i])
                                /\ Contains(written[Source[handled[n][i]]], handled[n][i])
      BY DEF HandledOnce
    <2>. PICK s, W : s = handled[n] /\ W = written
      OBVIOUS
    <2>1. /\ s \in Seq(Message) /\ InSequence(W, s)
          /\ \A i \in DOMAIN s : IsWritten(W, s[i]) /\ Reaches(n, s[i])
      BY HandledInSequence
    <2>2. ASSUME NEW i \in DOMAIN s, NEW j \in DOMAIN s, s[i] = s[j]
          PROVE  i = j
      <3>1. i \in Int /\ j \in Int
        BY <2>1
      <3>2. ~(i < j) /\ ~(j < i)
        BY <2>1, <2>2 DEF InSequence, Fits
      <3>. QED
        BY <3>1, <3>2
    <2>3. IsInjective(s)
      BY <2>2 DEF IsInjective
    <2>4. ASSUME NEW i \in DOMAIN s
          PROVE  Addressed(n, s[i]) /\ Contains(W[Source[s[i]]], s[i])
      <3>1. s[i] \in Message
        BY <2>1
      <3>. QED
        BY <2>1, <3>1, ReachesAddressed DEF IsWritten
    <2>. QED
      BY <2>3, <2>4
  <1>. QED
    BY <1>1, RoundStep, <1>2, PTL DEF Spec

\* The messages of one station reach every callback in the order in which it wrote them,
\* in any ring and whatever is refused or lost on the way (Interface::update).
THEOREM OrderAlwaysKept ==
    ASSUME DistinctMessages
    PROVE  Spec => []OrderKept
  <1>1. Init => RoundInv
    BY RoundInit
  <1>2. RoundInv => OrderKept
    <2>. SUFFICES ASSUME RoundInv, NEW n \in Station, NEW k \in Station,
                         NEW a \in Message, NEW b \in Message,
                         Source[a] = k, Source[b] = k, Precedes(handled[n], a, b)
                  PROVE  Precedes(written[k], a, b)
      BY DEF OrderKept, Precedes
    <2>. PICK s, W, v : s = handled[n] /\ W = written /\ v = written[k]
      OBVIOUS
    <2>1. /\ s \in Seq(Message) /\ InSequence(W, s)
          /\ \A i \in DOMAIN s : IsWritten(W, s[i])
      BY HandledInSequence
    <2>2. v \in Seq(Message)
      BY DEF RoundInv, TypeInv
    <2>3. Fits(W, a, b) /\ IsWritten(W, a) /\ IsWritten(W, b)
      BY <2>1 DEF Precedes, InSequence
    <2>4. a # b /\ ~Precedes(v, b, a) /\ Contains(v, a) /\ Contains(v, b)
      BY <2>3 DEF Fits, Earlier, IsWritten
    <2>. PICK l \in Nat : l = Len(v) /\ DOMAIN v = 1 .. l
      BY <2>2
    <2>. PICK i \in 1 .. l : v[i] = a
      BY <2>4 DEF Contains
    <2>. PICK j \in 1 .. l : v[j] = b
      BY <2>4 DEF Contains
    <2>5. i # j /\ ~(j < i)
      BY <2>4 DEF Precedes
    <2>6. i < j
      BY <2>5
    <2>. QED
      BY <2>6 DEF Precedes
  <1>. QED
    BY <1>1, RoundStep, <1>2, PTL DEF Spec
=============================================================================
