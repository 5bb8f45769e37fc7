------------------------------ MODULE SabProofs ------------------------------
(***************************************************************************)
(* Proofs about Sab, for every set of slaves, every script of the master,  *)
(* every list of actions and any number of lost pieces.                    *)
(***************************************************************************)
EXTENDS Sab, SequenceTheorems, TLAPS

Reply == Error \cup {"NONE"}

Content == Message \cup {Garbage}
Position == 0..2
Buffer == [1..2 -> Content]
ReceivedLength == 0 .. maxPayloadLength + 3

Decoder ==
    [state : {"SYNC", "DATA"}, announced : Content, position : Position,
     buffer : Buffer, lengthOfReceivedMessage : ReceivedLength]

\* What a decoder in DATA has announced fits into its buffer.
Fitting(i) ==
    i.state = "DATA" =>
        /\ i.announced \in Message /\ i.announced.length <= maxPayloadLength
        /\ i.position \in 0..1

TypeInv ==
    /\ interface \in [Device -> Decoder]
    /\ \A d \in Device : Fitting(interface[d])
    /\ tx \in [Device -> Seq(Piece)] /\ rx \in [Device -> Seq(Piece)]
    /\ queryStatus \in QueryStatus
    /\ asked \in 0 .. Len(Script)
    /\ queryStatus = "IN_PROGRESS" => asked \in QueryId
    /\ losses \in 0 .. MaxLosses
    /\ did \in [QueryId -> Seq([by : Slave, reply : Reply])]
    /\ overtaken \subseteq QueryId

-----------------------------------------------------------------------------
(* Sequences                                                               *)

LEMMA LenNat ==
    ASSUME NEW S, NEW s \in Seq(S)
    PROVE  Len(s) \in Nat /\ DOMAIN s = 1 .. Len(s) /\ (s = <<>> <=> Len(s) = 0)
    BY EmptySeq, LenProperties

LEMMA TailElements ==
    ASSUME NEW S, NEW s \in Seq(S), s # <<>>
    PROVE  /\ Head(s) \in S /\ Tail(s) \in Seq(S) /\ 1 \in DOMAIN s /\ Head(s) = s[1]
           /\ \A j \in DOMAIN Tail(s) :
                  j \in Nat \ {0} /\ j + 1 \in DOMAIN s /\ Tail(s)[j] = s[j + 1]
           /\ \A j \in DOMAIN s : j \in Nat \ {0}
                                  /\ (j # 1 => j - 1 \in DOMAIN Tail(s))
<1>1. Len(s) \in Nat /\ Len(s) # 0 /\ DOMAIN s = 1 .. Len(s)
    BY LenNat
<1>2. /\ Head(s) \in S /\ Tail(s) \in Seq(S) /\ Head(s) = s[1]
      /\ Len(Tail(s)) = Len(s) - 1 /\ \A i \in 1 .. Len(Tail(s)) : Tail(s)[i] = s[i + 1]
    BY <1>1, HeadTailProperties
<1>3. DOMAIN Tail(s) = 1 .. Len(Tail(s))
    BY <1>2, LenProperties
<1> QED  BY <1>1, <1>2, <1>3

LEMMA AppendElements ==
    ASSUME NEW S, NEW s \in Seq(S), NEW e \in S
    PROVE  /\ Append(s, e) \in Seq(S) /\ Append(s, e) # <<>>
           /\ Len(s) \in Nat /\ DOMAIN s = 1 .. Len(s)
           /\ DOMAIN Append(s, e) = 1 .. Len(s) + 1
           /\ \A j \in DOMAIN s : Append(s, e)[j] = s[j]
           /\ Append(s, e)[Len(s) + 1] = e
<1>1. Len(s) \in Nat /\ DOMAIN s = 1 .. Len(s)
    BY LenNat
<1>2. /\ Append(s, e) \in Seq(S) /\ Len(Append(s, e)) = Len(s) + 1
      /\ \A i \in 1 .. Len(s) : Append(s, e)[i] = s[i]
      /\ Append(s, e)[Len(s) + 1] = e
    BY AppendProperties
<1>3. DOMAIN Append(s, e) = 1 .. Len(s) + 1 /\ Append(s, e) # <<>>
    BY <1>1, <1>2, LenNat
<1> QED  BY <1>1, <1>2, <1>3

-----------------------------------------------------------------------------
(* Messages and pieces                                                     *)

LEMMA RequestType ==
    ASSUME NEW q \in QueryId
    PROVE  Request(q) \in Message /\ Request(q).flags = "REQUEST" /\ Request(q).query = q
           /\ Request(q).address = Script[q].address /\ q \in 1 .. Len(Script)
<1> DEFINE Q == [address : Slave, command : STRING, length : Nat, responseLength : Nat]
<1>1. Script \in Seq(Q)
    BY SabAssumption
<1> HIDE DEF Q
<1>2. Script[q] \in Q /\ q \in 1 .. Len(Script)
    BY <1>1, LenProperties, ElementOfSeq DEF QueryId
<1> QED  BY <1>2 DEF Request, Message, Q

LEMMA GarbageIsNoMessage == \A m \in Message : m # Garbage /\ m.flags # "NONE"
    BY DEF Message, Garbage

LEMMA PiecesElements ==
    ASSUME NEW m \in Message
    PROVE  /\ Pieces(m) \in Seq(Piece) /\ Len(Pieces(m)) = 3
           /\ Pieces(m)[1] = [part |-> "Start", message |-> m]
           /\ Pieces(m)[2] = [part |-> "Head", message |-> m]
           /\ Pieces(m)[3] = [part |-> "Rest", message |-> m]
<1>1. \A p \in {"Start", "Head", "Rest"} : [part |-> p, message |-> m] \in Piece
    BY DEF Piece
<1> QED  BY <1>1 DEF Pieces

\* What a transmit buffer holds after sendMessage: what it held and the three pieces.
LEMMA SendElements ==
    ASSUME TypeInv, NEW d \in Device, NEW m \in Message, SendMessage(d, m)
    PROVE  /\ tx' \in [Device -> Seq(Piece)]
           /\ \A e \in Device \ {d} : tx'[e] = tx[e]
           /\ Len(tx[d]) \in Nat /\ DOMAIN tx[d] = 1 .. Len(tx[d])
           /\ DOMAIN tx'[d] = 1 .. Len(tx[d]) + 3
           /\ \A i \in DOMAIN tx[d] : tx'[d][i] = tx[d][i]
           /\ tx'[d][Len(tx[d]) + 1] = [part |-> "Start", message |-> m]
           /\ tx'[d][Len(tx[d]) + 2] = [part |-> "Head", message |-> m]
           /\ tx'[d][Len(tx[d]) + 3] = [part |-> "Rest", message |-> m]
<1>1. tx[d] \in Seq(Piece) /\ tx \in [Device -> Seq(Piece)]
    BY DEF TypeInv
<1>2. Len(tx[d]) \in Nat /\ DOMAIN tx[d] = 1 .. Len(tx[d])
    BY <1>1, LenNat
<1> DEFINE t == tx[d] \o Pieces(m)
<1>3. tx' = [tx EXCEPT ![d] = t]
    BY DEF SendMessage
<1>4. /\ t \in Seq(Piece) /\ Len(t) = Len(tx[d]) + 3
      /\ \A i \in 1 .. Len(tx[d]) + 3 :
             t[i] = IF i <= Len(tx[d]) THEN tx[d][i] ELSE Pieces(m)[i - Len(tx[d])]
    <2>1. Pieces(m) \in Seq(Piece) /\ Len(Pieces(m)) = 3
        BY PiecesElements
    <2> HIDE DEF t
    <2>2. t = tx[d] \o Pieces(m)
        BY DEF t
    <2>3. \A u, v \in Seq(Piece) :
              /\ u \o v \in Seq(Piece) /\ Len(u \o v) = Len(u) + Len(v)
              /\ \A i \in 1 .. Len(u) + Len(v) :
                     (u \o v)[i] = IF i <= Len(u) THEN u[i] ELSE v[i - Len(u)]
        BY ConcatProperties
    <2>4. t \in Seq(Piece) /\ Len(t) = Len(tx[d]) + Len(Pieces(m))
        BY <1>1, <2>1, <2>2, <2>3
    <2>5. \A i \in 1 .. Len(tx[d]) + Len(Pieces(m)) :
              t[i] = IF i <= Len(tx[d]) THEN tx[d][i] ELSE Pieces(m)[i - Len(tx[d])]
        BY <1>1, <2>1, <2>2, <2>3
    <2> QED  BY <2>1, <2>4, <2>5
<1>5. DOMAIN t = 1 .. Len(tx[d]) + 3
    BY <1>4, LenNat
<1>6. /\ \A i \in DOMAIN tx[d] : t[i] = tx[d][i]
      /\ t[Len(tx[d]) + 1] = Pieces(m)[1]
      /\ t[Len(tx[d]) + 2] = Pieces(m)[2]
      /\ t[Len(tx[d]) + 3] = Pieces(m)[3]
    BY <1>2, <1>4
<1> HIDE DEF t
<1>7. tx' \in [Device -> Seq(Piece)] /\ tx'[d] = t /\ \A e \in Device \ {d} : tx'[e] = tx[e]
    BY <1>1, <1>3, <1>4
<1> QED  BY <1>2, <1>5, <1>6, <1>7, PiecesElements

-----------------------------------------------------------------------------
(* The decoder                                                             *)

LEMMA DroppedElements ==
    ASSUME TypeInv, NEW d \in Device
    PROVE  /\ Dropped(d) \in [Device -> Decoder]
           /\ \A e \in Device : Fitting(Dropped(d)[e])
           /\ \A e \in Device \ {d} : Dropped(d)[e] = interface[e]
           /\ \A e \in Device : Dropped(d)[e].buffer = interface[e].buffer
           /\ Dropped(d)[d].lengthOfReceivedMessage = 0
<1> DEFINE i == interface[d]
           j == [i EXCEPT !.lengthOfReceivedMessage = 0]
<1>1. interface \in [Device -> Decoder] /\ i \in Decoder
    BY DEF TypeInv
<1>2. Dropped(d) = [interface EXCEPT ![d] = j]
    BY DEF Dropped
<1>3. 0 \in ReceivedLength
    BY SabAssumption DEF ReceivedLength
<1>4. /\ j \in Decoder /\ j.lengthOfReceivedMessage = 0 /\ j.buffer = i.buffer
      /\ j.state = i.state /\ j.announced = i.announced /\ j.position = i.position
    BY <1>1, <1>3 DEF Decoder
<1>5. Fitting(j)
    BY <1>4 DEF TypeInv, Fitting
<1> HIDE DEF j
<1>6. /\ Dropped(d) \in [Device -> Decoder] /\ Dropped(d)[d] = j
      /\ \A e \in Device \ {d} : Dropped(d)[e] = interface[e]
    BY <1>1, <1>2, <1>4
<1> QED  BY <1>4, <1>5, <1>6 DEF TypeInv

LEMMA SynchronisedElements ==
    ASSUME NEW i \in Decoder, Fitting(i), i.state = "SYNC", NEW p \in Piece
    PROVE  /\ Synchronised(i, p) \in Decoder /\ Fitting(Synchronised(i, p))
           /\ Synchronised(i, p).lengthOfReceivedMessage = i.lengthOfReceivedMessage
           /\ Synchronised(i, p).buffer = i.buffer
<1>1. CASE p.part = "Start" /\ p.message.length <= maxPayloadLength
    <2> DEFINE j == [i EXCEPT !.state = "DATA", !.announced = p.message, !.position = 0]
    <2>1. p.message \in Message /\ p.message \in Content /\ 0 \in Position
        BY DEF Piece, Content, Position
    <2>2. /\ j \in Decoder /\ j.announced = p.message /\ j.position = 0
          /\ j.lengthOfReceivedMessage = i.lengthOfReceivedMessage /\ j.buffer = i.buffer
        BY <2>1 DEF Decoder
    <2>3. Synchronised(i, p) = j
        BY <1>1 DEF Synchronised
    <2> HIDE DEF j
    <2> QED  BY <1>1, <2>1, <2>2, <2>3 DEF Fitting
<1>2. CASE ~(p.part = "Start" /\ p.message.length <= maxPayloadLength)
    BY <1>2 DEF Synchronised
<1> QED  BY <1>1, <1>2

\* The last piece completes a message if it is the rest of the message that was
\* announced and the head came before it; otherwise there is no new message.
LEMMA StoredElements ==
    ASSUME NEW i \in Decoder, Fitting(i), i.state = "DATA", NEW p \in Piece
    PROVE  /\ Stored(i, p) \in Decoder /\ Fitting(Stored(i, p))
           /\ \/ Stored(i, p).lengthOfReceivedMessage = i.lengthOfReceivedMessage
              \/ /\ p = [part |-> "Rest", message |-> i.announced]
                 /\ i.announced \in Message
                 /\ Stored(i, p).buffer[1] = i.announced
                 /\ Stored(i, p).buffer[2] = i.announced
                 /\ Stored(i, p).lengthOfReceivedMessage = i.announced.length + 3
<1> DEFINE place == <<"Head", "Rest">>[i.position + 1]
           b == [i.buffer EXCEPT ![i.position + 1] =
                     IF p.part = place THEN p.message ELSE Garbage]
<1>1. p.message \in Message /\ i.position \in 0..1
      /\ i.announced \in Message /\ i.announced.length \in Nat
      /\ i.announced.length <= maxPayloadLength
    BY DEF Piece, Fitting, Message
<1>2. i.buffer \in [1..2 -> Content]
    BY DEF Decoder, Buffer
<1>3. b \in Buffer /\ 1 \in Position /\ 2 \in Position
    BY <1>1, <1>2 DEF Content, Buffer, Position
<1>4. CASE i.position = 0
    <2> DEFINE j == [i EXCEPT !.buffer = b, !.position = 1]
    <2>1. Stored(i, p) = j
        BY <1>4 DEF Stored
    <2> HIDE DEF b
    <2>2. /\ j \in Decoder /\ j.announced = i.announced /\ j.position = 1
          /\ j.lengthOfReceivedMessage = i.lengthOfReceivedMessage
        BY <1>3 DEF Decoder
    <2> QED  BY <1>1, <2>1, <2>2 DEF Fitting
<1>5. CASE i.position = 1
    <2> DEFINE right == \A k \in 1..2 : b[k] = i.announced
               n == IF right THEN i.announced.length + 3 ELSE i.lengthOfReceivedMessage
               j == [i EXCEPT !.buffer = b, !.position = 2, !.state = "SYNC",
                              !.lengthOfReceivedMessage = n]
    <2>1. Stored(i, p) = j
        BY <1>5 DEF Stored
    <2>2. place = "Rest"
        BY <1>5
    <2>3. right => b[1] = i.announced /\ b[2] = i.announced
        OBVIOUS
    <2>4. right => p.part = "Rest" /\ p.message = i.announced
        <3>1. b[2] = IF p.part = place THEN p.message ELSE Garbage
            BY <1>2, <1>5
        <3> HIDE DEF b, place
        <3>2. i.announced # Garbage
            BY <1>1, GarbageIsNoMessage
        <3> QED  BY <2>2, <2>3, <3>1, <3>2
    <2> HIDE DEF b, right, place
    <2>5. i.lengthOfReceivedMessage \in ReceivedLength
        BY DEF Decoder
    <2>6. n \in ReceivedLength
        BY <1>1, <2>5, SabAssumption DEF ReceivedLength
    <2> HIDE DEF n
    <2>7. /\ j \in Decoder /\ j.state = "SYNC" /\ j.lengthOfReceivedMessage = n
          /\ j.buffer = b
        BY <1>3, <2>6 DEF Decoder
    <2>8. p = [part |-> p.part, message |-> p.message]
        BY DEF Piece
    <2> HIDE DEF j
    <2> QED  BY <1>1, <2>1, <2>3, <2>4, <2>7, <2>8 DEF Fitting, n
<1> QED  BY <1>1, <1>4, <1>5

\* One turn of the loop in update: the oldest piece is gone and only the decoder of d
\* has changed.  If it has a message that it did not have before, that piece was its end.
LEMMA ReadElements ==
    ASSUME TypeInv, NEW d \in Device, Read(d)
    PROVE  /\ rx[d] # <<>> /\ rx' = [rx EXCEPT ![d] = Tail(rx[d])]
           /\ interface' \in [Device -> Decoder]
           /\ \A e \in Device : Fitting(interface'[e])
           /\ \A e \in Device \ {d} : interface'[e] = interface[e]
           /\ \/ interface'[d].lengthOfReceivedMessage = interface[d].lengthOfReceivedMessage
              \/ \E m \in Message :
                    /\ Head(rx[d]) = [part |-> "Rest", message |-> m]
                    /\ interface'[d].buffer[1] = m
                    /\ interface'[d].buffer[2] = m
                    /\ interface'[d].lengthOfReceivedMessage = m.length + 3
<1> DEFINE i == interface[d]
           p == Head(rx[d])
           j == IF i.state = "SYNC" THEN Synchronised(i, p) ELSE Stored(i, p)
<1>1. interface \in [Device -> Decoder] /\ i \in Decoder /\ Fitting(i) /\ rx[d] # <<>>
      /\ \A e \in Device : Fitting(interface[e])
    BY DEF TypeInv, Read
<1>2. p \in Piece
    BY <1>1, TailElements DEF TypeInv
<1>3. interface' = [interface EXCEPT ![d] = j]
    BY DEF Read
<1>4. i.state \in {"SYNC", "DATA"}
    BY <1>1 DEF Decoder
<1> HIDE DEF i, p
<1>5. j \in Decoder /\ Fitting(j)
    BY <1>1, <1>2, <1>4, SynchronisedElements, StoredElements
<1>6. \/ j.lengthOfReceivedMessage = i.lengthOfReceivedMessage
      \/ \E m \in Message :
            /\ p = [part |-> "Rest", message |-> m] /\ j.buffer[1] = m /\ j.buffer[2] = m
            /\ j.lengthOfReceivedMessage = m.length + 3
    BY <1>1, <1>2, <1>4, SynchronisedElements, StoredElements
<1> HIDE DEF j
<1>7. /\ interface' \in [Device -> Decoder] /\ interface'[d] = j
      /\ \A e \in Device \ {d} : interface'[e] = interface[e]
    BY <1>1, <1>3, <1>5
<1>8. rx' = [rx EXCEPT ![d] = Tail(rx[d])]
    BY DEF Read
<1> QED  BY <1>1, <1>5, <1>6, <1>7, <1>8 DEF i, p

-----------------------------------------------------------------------------
(* Types                                                                   *)

\* The answer with that reply to the request r.
AnswerTo(r, reply) ==
    [address |-> r.address, flags |-> IF reply = "NONE" THEN "ACK" ELSE "NACK",
     command |-> r.command,
     length |-> IF reply = "NONE" THEN AnswerLength[r.command] ELSE 1,
     reply |-> reply, query |-> r.query]

\* s answers the request in its interface and drops it.
Answers(s, reply) ==
    /\ Concerns(s)
    /\ AnswerTo(GetHead(s), reply) \in Message
    /\ SendMessage(s, AnswerTo(GetHead(s), reply))
    /\ did' = [did EXCEPT ![GetHead(s).query] = Append(@, [by |-> s, reply |-> reply])]
    /\ reply = "NO_ACTION" <=> ~IsKnown(s)
    /\ reply = "WRONG_PAYLOAD_LENGTH" <=> IsKnown(s) /\ ~Fits(s)
    /\ interface' = Dropped(s)
    /\ UNCHANGED <<rx, losses, master>>

LEMMA HeadOfRequest ==
    ASSUME TypeInv, NEW s \in Slave, Concerns(s)
    PROVE  /\ GetHead(s) \in Message /\ GetHead(s).flags = "REQUEST"
           /\ GetHead(s).address = s /\ GetHead(s).query \in QueryId
           /\ IsMessageAvailable(s) /\ rx[s] = <<>>
<1>1. interface[s] \in Decoder
    BY DEF TypeInv, Device
<1>2. GetHead(s) \in Content
    BY <1>1 DEF Decoder, Buffer, GetHead
<1>3. GetHead(s).flags = "REQUEST" /\ GetHead(s).address = s
      /\ IsMessageAvailable(s) /\ rx[s] = <<>>
    BY DEF Concerns, IsResponse
<1>4. Garbage.flags = "NONE"
    BY DEF Garbage
<1>5. GetHead(s) \in Message
    BY <1>2, <1>3, <1>4 DEF Content
<1>6. GetHead(s).query \in QueryId
    BY <1>5 DEF Message
<1> QED  BY <1>3, <1>5, <1>6

LEMMA AnswerToType ==
    ASSUME NEW r \in Message, NEW reply \in Reply,
           reply = "NONE" => r.command \in DOMAIN ActionList
    PROVE  AnswerTo(r, reply) \in Message
<1>1. reply = "NONE" => AnswerLength[r.command] \in Nat
    BY SabAssumption
<1>2. AnswerTo(r, reply).length \in Nat
    BY <1>1 DEF AnswerTo
<1> QED  BY <1>1 DEF AnswerTo, Message, Reply

\* Callback or refusal, a slave sends one answer to the request that it drops.
LEMMA SlaveAnswers ==
    ASSUME TypeInv, NEW s \in Slave, CallAction(s) \/ RefuseRequest(s)
    PROVE  \E reply \in Reply : Answers(s, reply)
<1> DEFINE r == GetHead(s)
<1>1. Concerns(s) /\ interface' = Dropped(s) /\ UNCHANGED <<rx, losses, master>>
    BY DEF CallAction, RefuseRequest
<1>2. r \in Message /\ r.address = s
    BY <1>1, HeadOfRequest
<1>3. ASSUME NEW reply \in Reply \ {"NONE"}, Refuse(s, reply)
      PROVE  /\ AnswerTo(r, reply) \in Message /\ SendMessage(s, AnswerTo(r, reply))
             /\ did' = [did EXCEPT ![r.query] = Append(@, [by |-> s, reply |-> reply])]
    <2>1. AnswerTo(r, reply) = [address |-> s, flags |-> "NACK", command |-> r.command,
                                length |-> 1, reply |-> reply, query |-> r.query]
        BY <1>2, <1>3 DEF AnswerTo
    <2>2. AnswerTo(r, reply) \in Message
        BY <1>2, <1>3, AnswerToType
    <2> QED  BY <1>3, <2>1, <2>2 DEF Refuse, Answer
<1>4. ASSUME CallAction(s), Acknowledge(s) PROVE Answers(s, "NONE")
    <2>1. IsKnown(s) /\ Fits(s) /\ r.command \in DOMAIN ActionList
        BY <1>4 DEF CallAction, IsKnown
    <2>2. AnswerTo(r, "NONE") =
              [address |-> s, flags |-> "ACK", command |-> r.command,
               length |-> AnswerLength[r.command], reply |-> "NONE", query |-> r.query]
        BY <1>2 DEF AnswerTo
    <2>3. AnswerTo(r, "NONE") \in Message
        BY <1>2, <2>1, AnswerToType DEF Reply
    <2> QED  BY <1>1, <1>4, <2>1, <2>2, <2>3 DEF Acknowledge, Answer, Answers
<1>5. ASSUME CallAction(s), Refuse(s, "GENERAL_ERROR") PROVE Answers(s, "GENERAL_ERROR")
    <2>1. IsKnown(s) /\ Fits(s)
        BY <1>5 DEF CallAction
    <2> QED  BY <1>1, <1>3, <1>5, <2>1 DEF Answers, Reply, Error
<1>6. ASSUME CallAction(s), Refuse(s, "NO_RESPONSE") PROVE Answers(s, "NO_RESPONSE")
    <2>1. IsKnown(s) /\ Fits(s)
        BY <1>6 DEF CallAction
    <2> QED  BY <1>1, <1>3, <1>6, <2>1 DEF Answers, Reply, Error
<1>7. ASSUME RefuseRequest(s)
      PROVE  Answers(s, IF IsKnown(s) THEN "WRONG_PAYLOAD_LENGTH" ELSE "NO_ACTION")
    <2>1. (IsKnown(s) => ~Fits(s))
          /\ Refuse(s, IF IsKnown(s) THEN "WRONG_PAYLOAD_LENGTH" ELSE "NO_ACTION")
        BY <1>7 DEF RefuseRequest
    <2>2. CASE IsKnown(s)
        BY <1>1, <1>3, <2>1, <2>2 DEF Answers, Reply, Error
    <2>3. CASE ~IsKnown(s)
        BY <1>1, <1>3, <2>1, <2>3 DEF Answers, Reply, Error
    <2> QED  BY <2>2, <2>3
<1>8. "NONE" \in Reply /\ "GENERAL_ERROR" \in Reply /\ "NO_RESPONSE" \in Reply
      /\ (IF IsKnown(s) THEN "WRONG_PAYLOAD_LENGTH" ELSE "NO_ACTION") \in Reply
    BY DEF Reply, Error
<1>9. CASE CallAction(s)
    <2>1. Acknowledge(s) \/ Refuse(s, "GENERAL_ERROR") \/ Refuse(s, "NO_RESPONSE")
        BY <1>9 DEF CallAction
    <2> QED  BY <1>4, <1>5, <1>6, <1>8, <1>9, <2>1
<1>10. CASE RefuseRequest(s)
    BY <1>7, <1>8, <1>10
<1> QED  BY <1>9, <1>10

LEMMA AnswersType ==
    ASSUME TypeInv, NEW s \in Slave, NEW reply \in Reply, Answers(s, reply)
    PROVE  TypeInv'
<1>1. s \in Device /\ interface' = Dropped(s) /\ UNCHANGED <<rx, losses, master>>
    BY DEF Device, Answers
<1>2. interface' \in [Device -> Decoder] /\ \A e \in Device : Fitting(interface'[e])
    BY <1>1, DroppedElements
<1>3. tx' \in [Device -> Seq(Piece)]
    BY <1>1, SendElements DEF Answers
<1>4. did' \in [QueryId -> Seq([by : Slave, reply : Reply])]
    <2> DEFINE Entry == [by : Slave, reply : Reply]
               e == [by |-> s, reply |-> reply]
               q == GetHead(s).query
    <2>1. e \in Entry /\ q \in QueryId
        BY HeadOfRequest DEF Answers
    <2>2. did' = [did EXCEPT ![q] = Append(did[q], e)] /\ did \in [QueryId -> Seq(Entry)]
        BY DEF Answers, TypeInv
    <2> HIDE DEF Entry, e, q
    <2>3. Append(did[q], e) \in Seq(Entry)
        BY <2>1, <2>2, AppendElements
    <2>4. did' \in [QueryId -> Seq(Entry)]
        BY <2>2, <2>3
    <2> QED  BY <2>4 DEF Entry
<1> QED  BY <1>1, <1>2, <1>3, <1>4 DEF TypeInv, master

LEMMA QueryElements ==
    ASSUME TypeInv, Query
    PROVE  /\ asked' = asked + 1 /\ asked' \in QueryId /\ asked \in Nat
           /\ Request(asked + 1) \in Message /\ Master \in Device
           /\ SendMessage(Master, Request(asked + 1))
           /\ interface' = Dropped(Master)
           /\ queryStatus # "IN_PROGRESS" /\ queryStatus' = "IN_PROGRESS"
           /\ UNCHANGED <<rx, losses, did, overtaken>>
<1> DEFINE Q == [address : Slave, command : STRING, length : Nat, responseLength : Nat]
<1>1. Script \in Seq(Q)
    BY SabAssumption
<1> HIDE DEF Q
<1>2. Len(Script) \in Nat /\ DOMAIN Script = 1 .. Len(Script)
    BY <1>1, LenNat
<1>3. asked' = asked + 1 /\ asked < Len(Script) /\ asked \in 0 .. Len(Script)
    BY DEF TypeInv, Query
<1>4. asked + 1 \in QueryId /\ asked \in Nat
    BY <1>2, <1>3 DEF QueryId
<1> QED  BY <1>3, <1>4, RequestType DEF Query, Device

LEMMA InitType == Init => TypeInv
<1> SUFFICES ASSUME Init PROVE TypeInv  OBVIOUS
<1> DEFINE i == [state |-> "SYNC", announced |-> Garbage, position |-> 0,
                 buffer |-> <<Garbage, Garbage>>, lengthOfReceivedMessage |-> 0]
           Q == [address : Slave, command : STRING, length : Nat, responseLength : Nat]
           Entry == [by : Slave, reply : Reply]
<1>1. Garbage \in Content /\ 0 \in Position /\ 0 \in ReceivedLength
    BY SabAssumption DEF Content, Position, ReceivedLength
<1>2. <<Garbage, Garbage>> \in Buffer
    BY <1>1 DEF Buffer
<1>3. i \in Decoder /\ i.state = "SYNC"
    BY <1>1, <1>2 DEF Decoder
<1> HIDE DEF i
<1>4. interface = [d \in Device |-> i]
    BY DEF Init, i
<1>5. interface \in [Device -> Decoder] /\ \A d \in Device : Fitting(interface[d])
    BY <1>3, <1>4 DEF Fitting
<1>6. Script \in Seq(Q)
    BY SabAssumption
<1> HIDE DEF Q, Entry
<1>7. asked \in 0 .. Len(Script) /\ losses \in 0 .. MaxLosses
    BY <1>6, LenNat, SabAssumption DEF Init
<1>8. <<>> \in Seq(Piece) /\ <<>> \in Seq(Entry)
    BY EmptySeq
<1>9. tx \in [Device -> Seq(Piece)] /\ rx \in [Device -> Seq(Piece)]
      /\ did \in [QueryId -> Seq(Entry)] /\ overtaken = {}
      /\ queryStatus \in QueryStatus /\ queryStatus # "IN_PROGRESS"
    BY <1>8 DEF Init, QueryStatus
<1> QED  BY <1>5, <1>7, <1>9 DEF TypeInv, Entry

\* Every step of the master, the slaves and the bus keeps the types.
LEMMA NextType == ASSUME TypeInv, [Next]_vars PROVE TypeInv'
<1>1. CASE Query
    <2>1. interface' \in [Device -> Decoder] /\ \A e \in Device : Fitting(interface'[e])
        BY <1>1, QueryElements, DroppedElements
    <2>2. tx' \in [Device -> Seq(Piece)]
        BY <1>1, QueryElements, SendElements
    <2>3. asked' \in 0 .. Len(Script)
        BY <1>1, QueryElements, RequestType
    <2> QED  BY <1>1, <2>1, <2>2, <2>3, QueryElements DEF TypeInv, QueryStatus
<1>2. CASE DropEcho \/ \E s \in Slave : IgnoreMessage(s)
    <2>1. \E d \in Device : interface' = Dropped(d)
        BY <1>2 DEF DropEcho, IgnoreMessage, Device
    <2>2. interface' \in [Device -> Decoder] /\ \A e \in Device : Fitting(interface'[e])
        BY <2>1, DroppedElements
    <2>3. UNCHANGED <<tx, rx, losses, did, master>>
        BY <1>2 DEF DropEcho, IgnoreMessage
    <2> QED  BY <2>2, <2>3 DEF TypeInv, master
<1>3. CASE TakeAnswer
    <2>1. queryStatus' \in QueryStatus /\ queryStatus' # "IN_PROGRESS"
        BY <1>3 DEF TakeAnswer, QueryStatus
    <2> QED  BY <1>3, <2>1 DEF TypeInv, TakeAnswer
<1>4. CASE GiveUp
    <2>1. overtaken' \subseteq QueryId /\ queryStatus' = "ERROR_TIMEOUT"
        BY <1>4 DEF TypeInv, GiveUp, Deciding
    <2> QED  BY <1>4, <2>1 DEF TypeInv, QueryStatus, GiveUp
<1>5. CASE \E s \in Slave : CallAction(s) \/ RefuseRequest(s)
    BY <1>5, SlaveAnswers, AnswersType
<1>6. ASSUME NEW d \in Device, Read(d) PROVE TypeInv'
    <2>1. Tail(rx[d]) \in Seq(Piece)
        BY <1>6, ReadElements, TailElements DEF TypeInv
    <2>2. rx' \in [Device -> Seq(Piece)]
        BY <1>6, <2>1, ReadElements DEF TypeInv
    <2>3. UNCHANGED <<tx, losses, did, master>>
        BY <1>6 DEF Read
    <2> QED  BY <1>6, <2>2, <2>3, ReadElements DEF TypeInv, master
<1>7. ASSUME NEW d \in Device, Transmit(d) PROVE TypeInv'
    <2>1. tx[d] # <<>> /\ tx' = [tx EXCEPT ![d] = Tail(tx[d])]
          /\ rx' = [e \in Device |-> IF e # d \/ Echo THEN Append(rx[e], Head(tx[d]))
                                                     ELSE rx[e]]
          /\ UNCHANGED <<interface, losses, did, master>>
        BY <1>7 DEF Transmit
    <2>2. Tail(tx[d]) \in Seq(Piece) /\ Head(tx[d]) \in Piece
        BY <2>1, TailElements DEF TypeInv
    <2>3. \A e \in Device : Append(rx[e], Head(tx[d])) \in Seq(Piece)
        BY <2>2, AppendElements DEF TypeInv
    <2> QED  BY <2>1, <2>2, <2>3 DEF TypeInv, master
<1>8. ASSUME NEW d \in Device, Lose(d) PROVE TypeInv'
    <2>1. rx[d] # <<>> /\ rx' = [rx EXCEPT ![d] = Tail(rx[d])] /\ losses < MaxLosses
          /\ losses' = losses + 1 /\ UNCHANGED <<interface, tx, did, master>>
        BY <1>8 DEF Lose
    <2>2. Tail(rx[d]) \in Seq(Piece)
        BY <2>1, TailElements DEF TypeInv
    <2>3. losses' \in 0 .. MaxLosses
        BY <2>1, SabAssumption DEF TypeInv
    <2> QED  BY <2>1, <2>2, <2>3 DEF TypeInv, master
<1>9. CASE UNCHANGED vars
    BY <1>9 DEF TypeInv, vars, master
<1> QED
    BY <1>1, <1>2, <1>3, <1>4, <1>5, <1>6, <1>7, <1>8, <1>9
    DEF Next, MasterUpdate, SlaveUpdate

LEMMA TypeInvIsTyped == TypeInv => TypeOK
<1> SUFFICES ASSUME TypeInv PROVE TypeOK  OBVIOUS
<1>1. ASSUME NEW d \in Device
      PROVE  /\ interface[d].state \in {"SYNC", "DATA"}
             /\ interface[d].announced \in Message \cup {Garbage}
             /\ interface[d].position \in 0..2
             /\ interface[d].buffer \in Seq(Message \cup {Garbage})
             /\ interface[d].lengthOfReceivedMessage \in 0 .. maxPayloadLength + 3
    <2>1. interface[d] \in Decoder
        BY DEF TypeInv
    <2>2. interface[d].buffer \in [1..2 -> Content]
        BY <2>1 DEF Decoder, Buffer
    <2>3. interface[d].buffer \in Seq(Content)
        BY <2>2, SeqDef
    <2> QED  BY <2>1, <2>3 DEF Decoder, Content, Position, ReceivedLength
<1> QED  BY <1>1 DEF TypeInv, TypeOK, Reply

\* Whatever the bus loses and mixes up: what is stored stays within the buffer, what is
\* sent is a message (interface_impl.hpp, update; slave_impl.hpp, update).
THEOREM TypesAlways == Spec => []TypeInv
<1> QED  BY InitType, NextType, PTL DEF Spec

\* The buffer of an interface, its decoder and what is on the bus keep their types.
THEOREM TypeCorrect == Spec => []TypeOK
<1> QED  BY TypesAlways, TypeInvIsTyped, PTL

-----------------------------------------------------------------------------
(* Messages stay whole.  If a message starts only after every device has    *)
(* handled the last one, the pieces that a device has not read yet are of   *)
(* one message, and none of them comes while it holds another.              *)

Rank == [Start |-> 1, Head |-> 2, Rest |-> 3]

\* A transmit buffer holds whole messages, but for the pieces of the first that were sent.
WholeMessages(t) ==
    \A i \in DOMAIN t :
        /\ t[i].part = "Start" => i + 1 \in DOMAIN t /\ t[i + 1].part = "Head"
        /\ t[i].part = "Head" => i + 1 \in DOMAIN t /\ t[i + 1].part = "Rest"
        /\ t[i].part = "Rest" /\ i + 1 \in DOMAIN t => t[i + 1].part = "Start"

Rising(r) == \A i, j \in DOMAIN r : i < j => Rank[r[i].part] < Rank[r[j].part]

Behind(r, p) == \A i \in DOMAIN r : Rank[r[i].part] < Rank[p.part]

\* The master looks at its interface while a query is in progress.
Listens(d) == d = Master => queryStatus = "IN_PROGRESS"

Holds(d) == IsMessageAvailable(d) /\ Listens(d)

IsWhole(d) ==
    /\ GetHead(d) \in Message /\ GetHead(d) = GetPayload(d)
    /\ GetHead(d).length = GetPayloadLength(d)

FrameInv ==
    /\ TypeInv
    /\ \A d \in Device : WholeMessages(tx[d])
    /\ \A d \in Device : Rising(rx[d])
    /\ \A d, e \in Device : IsSending(e) => Behind(rx[d], Head(tx[e]))
    /\ \A d, e \in Device : IsSending(d) /\ IsSending(e) => d = e
    /\ \A d \in Device : Holds(d) =>
          /\ rx[d] = <<>> /\ IsWhole(d)
          /\ \A e \in Device : ~IsSending(e)

LEMMA RankOfPart ==
    /\ Rank["Start"] = 1 /\ Rank["Head"] = 2 /\ Rank["Rest"] = 3
    /\ \A p \in Piece : /\ p.part \in {"Start", "Head", "Rest"}
                        /\ Rank[p.part] \in 1..3
<1>1. Rank["Start"] = 1 /\ Rank["Head"] = 2 /\ Rank["Rest"] = 3
    BY DEF Rank
<1>2. \A p \in Piece : p.part \in {"Start", "Head", "Rest"}
    BY DEF Piece
<1> QED  BY <1>1, <1>2

LEMMA TailIsWhole ==
    ASSUME NEW t \in Seq(Piece), t # <<>>, WholeMessages(t)
    PROVE  WholeMessages(Tail(t))
<1> SUFFICES ASSUME NEW i \in DOMAIN Tail(t)
             PROVE  /\ Tail(t)[i].part = "Start" =>
                           i + 1 \in DOMAIN Tail(t) /\ Tail(t)[i + 1].part = "Head"
                    /\ Tail(t)[i].part = "Head" =>
                           i + 1 \in DOMAIN Tail(t) /\ Tail(t)[i + 1].part = "Rest"
                    /\ Tail(t)[i].part = "Rest" /\ i + 1 \in DOMAIN Tail(t) =>
                           Tail(t)[i + 1].part = "Start"
    BY DEF WholeMessages
<1>1. i \in Nat \ {0} /\ i + 1 \in DOMAIN t /\ Tail(t)[i] = t[i + 1]
    BY TailElements
<1>2. i + 2 \in DOMAIN t <=> i + 1 \in DOMAIN Tail(t)
    <2>1. i + 2 \in DOMAIN t => (i + 2) - 1 \in DOMAIN Tail(t)
        BY <1>1, TailElements
    <2>2. i + 1 \in DOMAIN Tail(t) => (i + 1) + 1 \in DOMAIN t
        BY TailElements
    <2>3. (i + 2) - 1 = i + 1 /\ (i + 1) + 1 = i + 2
        BY <1>1
    <2> QED  BY <2>1, <2>2, <2>3
<1>3. i + 1 \in DOMAIN Tail(t) => Tail(t)[i + 1] = t[i + 2]
    <2>1. i + 1 \in DOMAIN Tail(t) => Tail(t)[i + 1] = t[(i + 1) + 1]
        BY TailElements
    <2>2. (i + 1) + 1 = i + 2
        BY <1>1
    <2> QED  BY <2>1, <2>2
<1>4. /\ t[i + 1].part = "Start" => i + 2 \in DOMAIN t /\ t[i + 2].part = "Head"
      /\ t[i + 1].part = "Head" => i + 2 \in DOMAIN t /\ t[i + 2].part = "Rest"
      /\ t[i + 1].part = "Rest" /\ i + 2 \in DOMAIN t => t[i + 2].part = "Start"
    <2>1. (i + 1) + 1 = i + 2
        BY <1>1
    <2> QED  BY <1>1, <2>1 DEF WholeMessages
<1> QED  BY <1>1, <1>2, <1>3, <1>4

\* sendMessage adds a whole message and starts nothing: what is on its way stays first.
LEMMA SendIsWhole ==
    ASSUME TypeInv, \A e \in Device : WholeMessages(tx[e]),
           NEW d \in Device, NEW m \in Message, SendMessage(d, m)
    PROVE  /\ \A e \in Device : WholeMessages(tx'[e])
           /\ \A e \in Device : IsSending(e)' => IsSending(e) /\ Head(tx'[e]) = Head(tx[e])
<1> DEFINE n == Len(tx[d])
           t == tx'[d]
<1>1. /\ tx' \in [Device -> Seq(Piece)]
      /\ \A e \in Device \ {d} : tx'[e] = tx[e]
      /\ n \in Nat /\ DOMAIN tx[d] = 1 .. n /\ DOMAIN t = 1 .. n + 3
      /\ \A i \in DOMAIN tx[d] : t[i] = tx[d][i]
      /\ t[n + 1].part = "Start" /\ t[n + 2].part = "Head" /\ t[n + 3].part = "Rest"
    <2>1. /\ tx' \in [Device -> Seq(Piece)]
          /\ \A e \in Device \ {d} : tx'[e] = tx[e]
          /\ n \in Nat /\ DOMAIN tx[d] = 1 .. n /\ DOMAIN t = 1 .. n + 3
          /\ \A i \in DOMAIN tx[d] : t[i] = tx[d][i]
        BY SendElements
    <2>2. /\ t[n + 1] = [part |-> "Start", message |-> m]
          /\ t[n + 2] = [part |-> "Head", message |-> m]
          /\ t[n + 3] = [part |-> "Rest", message |-> m]
        BY SendElements
    <2> QED  BY <2>1, <2>2
<1>2. WholeMessages(tx[d])
    OBVIOUS
<1>3. tx[d] # <<>> <=> n # 0
    BY LenNat DEF TypeInv
<1>4. t \in Seq(Piece) /\ t # <<>>
    <2>1. t \in Seq(Piece)
        BY <1>1
    <2> QED  BY <1>1, <2>1, LenNat
<1>5. Head(t) = t[1] /\ (tx[d] # <<>> => Head(tx[d]) = tx[d][1])
    BY <1>4, TailElements DEF TypeInv
<1> HIDE DEF n, t
<1>6. WholeMessages(t)
    <2> SUFFICES ASSUME NEW i \in 1 .. n + 3
                 PROVE  /\ t[i].part = "Start" =>
                              i + 1 \in 1 .. n + 3 /\ t[i + 1].part = "Head"
                        /\ t[i].part = "Head" => i + 1 \in 1 .. n + 3 /\ t[i + 1].part = "Rest"
                        /\ t[i].part = "Rest" /\ i + 1 \in 1 .. n + 3 =>
                               t[i + 1].part = "Start"
        BY <1>1 DEF WholeMessages
    <2>1. CASE i \in 1 .. n - 1
        <3>1. i \in 1 .. n /\ i + 1 \in 1 .. n /\ i + 1 \in 1 .. n + 3
            BY <1>1, <2>1
        <3>2. t[i] = tx[d][i] /\ t[i + 1] = tx[d][i + 1]
            BY <1>1, <3>1
        <3>3. /\ tx[d][i].part = "Start" => tx[d][i + 1].part = "Head"
              /\ tx[d][i].part = "Head" => tx[d][i + 1].part = "Rest"
              /\ tx[d][i].part = "Rest" => tx[d][i + 1].part = "Start"
            BY <1>1, <1>2, <3>1 DEF WholeMessages
        <3> QED  BY <3>1, <3>2, <3>3
    <2>2. CASE i = n
        <3>1. i \in 1 .. n /\ i + 1 \notin 1 .. n
            BY <1>1, <2>2
        <3>2. t[i].part # "Start" /\ t[i].part # "Head"
            BY <1>1, <1>2, <3>1 DEF WholeMessages
        <3> QED  BY <1>1, <2>2, <3>2
    <2>3. CASE i = n + 1
        <3>1. i + 1 = n + 2 /\ i + 1 \in 1 .. n + 3
            BY <1>1, <2>3
        <3> QED  BY <1>1, <2>3, <3>1
    <2>4. CASE i = n + 2
        <3>1. i + 1 = n + 3 /\ i + 1 \in 1 .. n + 3
            BY <1>1, <2>4
        <3> QED  BY <1>1, <2>4, <3>1
    <2>5. CASE i = n + 3
        <3>1. i + 1 \notin 1 .. n + 3
            BY <1>1, <2>5
        <3> QED  BY <1>1, <2>5, <3>1
    <2> QED  BY <1>1, <2>1, <2>2, <2>3, <2>4, <2>5
<1>7. IsSending(d)' => IsSending(d) /\ Head(t) = Head(tx[d])
    <2>1. CASE n = 0
        <3>1. Head(t).part = "Start"
            BY <1>1, <1>5, <2>1
        <3> QED  BY <3>1 DEF IsSending, t
    <2>2. CASE n # 0
        <3>1. 1 \in 1 .. n /\ t[1] = tx[d][1]
            BY <1>1, <2>2
        <3> QED  BY <1>3, <1>5, <2>2, <3>1 DEF IsSending, t
    <2> QED  BY <2>1, <2>2
<1>8. \A e \in Device \ {d} : IsSending(e)' <=> IsSending(e)
    BY <1>1 DEF IsSending
<1> QED  BY <1>1, <1>6, <1>7, <1>8 DEF t

\* A step that starts no message and brings no piece to a device and no new message to
\* one that listens.
LEMMA QuietFrame ==
    ASSUME FrameInv, TypeInv', rx' = rx,
           \A e \in Device : WholeMessages(tx'[e]),
           \A e \in Device : IsSending(e)' => IsSending(e) /\ Head(tx'[e]) = Head(tx[e]),
           \A e \in Device : Holds(e)' => Holds(e) /\ interface'[e] = interface[e]
    PROVE  FrameInv'
<1>1. \A e \in Device : Rising(rx'[e])
    BY DEF FrameInv
<1>2. \A d, e \in Device : IsSending(e)' => Behind(rx'[d], Head(tx'[e]))
    BY DEF FrameInv
<1>3. \A d, e \in Device : IsSending(d)' /\ IsSending(e)' => d = e
    BY DEF FrameInv
<1>4. ASSUME NEW d \in Device, Holds(d)'
      PROVE  rx'[d] = <<>> /\ IsWhole(d)' /\ \A e \in Device : ~IsSending(e)'
    <2>1. rx[d] = <<>> /\ IsWhole(d) /\ \A e \in Device : ~IsSending(e)
        BY <1>4 DEF FrameInv
    <2>2. IsWhole(d)'
        BY <1>4, <2>1 DEF IsWhole, GetHead, GetPayload, GetPayloadLength
    <2> QED  BY <2>1, <2>2
<1> QED  BY <1>1, <1>2, <1>3, <1>4 DEF FrameInv

\* After a device has dropped its message only the others hold one.
LEMMA DropHolds ==
    ASSUME TypeInv, NEW d \in Device, interface' = Dropped(d),
           queryStatus' = queryStatus \/ d = Master
    PROVE  \A e \in Device : Holds(e)' => e # d /\ Holds(e) /\ interface'[e] = interface[e]
<1> SUFFICES ASSUME NEW e \in Device, Holds(e)'
             PROVE  e # d /\ Holds(e) /\ interface'[e] = interface[e]
    OBVIOUS
<1>1. e # d
    BY DroppedElements DEF Holds, IsMessageAvailable
<1>2. interface'[e] = interface[e]
    BY <1>1, DroppedElements
<1>3. Listens(e)
    BY <1>1 DEF Holds, Listens
<1> QED  BY <1>1, <1>2, <1>3 DEF Holds, IsMessageAvailable

\* The pieces that are left in a receive buffer.
LEMMA TailFrame ==
    ASSUME TypeInv, NEW d \in Device, rx[d] # <<>>, rx' = [rx EXCEPT ![d] = Tail(rx[d])],
           \A e \in Device : Rising(rx[e]), NEW p,
           \A e \in Device : Behind(rx[e], p)
    PROVE  \A e \in Device : Behind(rx'[e], p)
<1>1. \A j \in DOMAIN Tail(rx[d]) : j + 1 \in DOMAIN rx[d] /\ Tail(rx[d])[j] = rx[d][j + 1]
    BY TailElements DEF TypeInv
<1>2. Behind(Tail(rx[d]), p)
    BY <1>1 DEF Behind
<1>3. \A e \in Device : rx'[e] = IF e = d THEN Tail(rx[d]) ELSE rx[e]
    BY DEF TypeInv
<1> QED  BY <1>2, <1>3

LEMMA TailRising ==
    ASSUME TypeInv, NEW d \in Device, rx[d] # <<>>, rx' = [rx EXCEPT ![d] = Tail(rx[d])],
           \A e \in Device : Rising(rx[e])
    PROVE  \A e \in Device : Rising(rx'[e])
<1>1. \A j \in DOMAIN Tail(rx[d]) : j \in Nat /\ j + 1 \in DOMAIN rx[d]
                                    /\ Tail(rx[d])[j] = rx[d][j + 1]
    BY TailElements DEF TypeInv
<1>2. ASSUME NEW i \in DOMAIN Tail(rx[d]), NEW j \in DOMAIN Tail(rx[d]), i < j
      PROVE  Rank[Tail(rx[d])[i].part] < Rank[Tail(rx[d])[j].part]
    <2>1. i + 1 < j + 1
        BY <1>1, <1>2
    <2> QED  BY <1>1, <2>1 DEF Rising
<1>3. Rising(Tail(rx[d]))
    BY <1>2 DEF Rising
<1>4. \A e \in Device : rx'[e] = IF e = d THEN Tail(rx[d]) ELSE rx[e]
    BY DEF TypeInv
<1> QED  BY <1>3, <1>4

\* A message is complete in the interface of d when d has read its last piece: there is
\* nothing else that it has not read, and nobody sends.
LEMMA ReadFrame == ASSUME FrameInv, TypeInv', NEW d \in Device, Read(d) PROVE FrameInv'
<1>1. TypeInv /\ rx[d] # <<>> /\ rx' = [rx EXCEPT ![d] = Tail(rx[d])]
      /\ UNCHANGED <<tx, queryStatus>>
    BY ReadElements DEF FrameInv, Read, master
<1>2. \A e \in Device : IsSending(e)' <=> IsSending(e)
    BY <1>1 DEF IsSending
<1>3. \A e \in Device : Rising(rx'[e])
    BY <1>1, TailRising DEF FrameInv
<1>4. ASSUME NEW e \in Device, NEW f \in Device, IsSending(e)'
      PROVE  Behind(rx'[f], Head(tx'[e]))
    <2>1. \A g \in Device : Behind(rx[g], Head(tx[e])) /\ Rising(rx[g])
        BY <1>2, <1>4 DEF FrameInv
    <2> QED  BY <1>1, <2>1, TailFrame
<1>5. ASSUME NEW e \in Device, Holds(e)'
      PROVE  rx'[e] = <<>> /\ IsWhole(e)' /\ \A f \in Device : ~IsSending(f)'
    <2>1. CASE e # d
        <3>1. interface'[e] = interface[e] /\ rx'[e] = rx[e]
            BY <1>1, <2>1, ReadElements DEF TypeInv
        <3>2. Holds(e)
            BY <1>1, <1>5, <3>1 DEF Holds, Listens, IsMessageAvailable
        <3>3. rx[e] = <<>> /\ IsWhole(e) /\ \A f \in Device : ~IsSending(f)
            BY <3>2 DEF FrameInv
        <3>4. IsWhole(e)'
            BY <3>1, <3>3 DEF IsWhole, GetHead, GetPayload, GetPayloadLength
        <3> QED  BY <1>2, <3>1, <3>3, <3>4
    <2>2. CASE e = d
        <3>1. ~Holds(d) /\ Listens(d)
            BY <1>1, <1>5, <2>2 DEF FrameInv, Holds, Listens
        <3>2. interface[d].lengthOfReceivedMessage = 0
              /\ interface'[d].lengthOfReceivedMessage # 0
            BY <1>5, <2>2, <3>1 DEF Holds, IsMessageAvailable
        <3>3. PICK m \in Message :
                 /\ Head(rx[d]) = [part |-> "Rest", message |-> m]
                 /\ interface'[d].buffer[1] = m /\ interface'[d].buffer[2] = m
                 /\ interface'[d].lengthOfReceivedMessage = m.length + 3
            BY <1>1, <3>2, ReadElements
        <3>4. IsWhole(d)'
            <4>1. m.length \in Nat
                BY DEF Message
            <4>2. m.length = (m.length + 3) - 3
                BY <4>1
            <4> QED  BY <3>3, <4>2 DEF IsWhole, GetHead, GetPayload, GetPayloadLength
        <3>5. rx[d] \in Seq(Piece) /\ 1 \in DOMAIN rx[d] /\ rx[d][1].part = "Rest"
              /\ Tail(rx[d]) \in Seq(Piece)
            BY <1>1, <3>3, TailElements DEF TypeInv
        <3>6. ASSUME NEW j \in DOMAIN Tail(rx[d]) PROVE FALSE
            <4>1. j \in Nat \ {0} /\ j + 1 \in DOMAIN rx[d]
                BY <1>1, TailElements DEF TypeInv
            <4>2. Rank[rx[d][1].part] < Rank[rx[d][j + 1].part]
                BY <3>5, <4>1 DEF FrameInv, Rising
            <4>3. rx[d][j + 1] \in Piece
                BY <3>5, <4>1, LenNat, ElementOfSeq
            <4> QED  BY <3>5, <4>2, <4>3, RankOfPart
        <3>7. rx'[d] = <<>>
            <4>1. Tail(rx[d]) = <<>>
                BY <3>5, <3>6, LenNat
            <4> QED  BY <1>1, <4>1 DEF TypeInv
        <3>8. ASSUME NEW f \in Device, IsSending(f) PROVE FALSE
            <4>1. Rank[rx[d][1].part] < Rank[Head(tx[f]).part]
                BY <3>5, <3>8 DEF FrameInv, Behind
            <4>2. Head(tx[f]) \in Piece
                BY <1>1, <3>8, TailElements DEF TypeInv, IsSending
            <4> QED  BY <3>5, <4>1, <4>2, RankOfPart
        <3> QED  BY <1>2, <2>2, <3>4, <3>7, <3>8
    <2> QED  BY <2>1, <2>2
<1> QED  BY <1>1, <1>2, <1>3, <1>4, <1>5 DEF FrameInv

LEMMA LoseFrame == ASSUME FrameInv, TypeInv', NEW d \in Device, Lose(d) PROVE FrameInv'
<1>1. TypeInv /\ rx[d] # <<>> /\ rx' = [rx EXCEPT ![d] = Tail(rx[d])]
      /\ UNCHANGED <<tx, interface, queryStatus>>
    BY DEF FrameInv, Lose, master
<1>2. \A e \in Device : (IsSending(e)' <=> IsSending(e)) /\ (Holds(e)' <=> Holds(e))
    BY <1>1 DEF IsSending, Holds, Listens, IsMessageAvailable
<1>3. \A e \in Device : Rising(rx'[e])
    BY <1>1, TailRising DEF FrameInv
<1>4. ASSUME NEW e \in Device, NEW f \in Device, IsSending(e)'
      PROVE  Behind(rx'[f], Head(tx'[e]))
    <2>1. \A g \in Device : Behind(rx[g], Head(tx[e])) /\ Rising(rx[g])
        BY <1>2, <1>4 DEF FrameInv
    <2> QED  BY <1>1, <2>1, TailFrame
<1>5. ASSUME NEW e \in Device, Holds(e)'
      PROVE  rx'[e] = <<>> /\ IsWhole(e)' /\ \A f \in Device : ~IsSending(f)'
    <2>1. rx[e] = <<>> /\ IsWhole(e) /\ \A f \in Device : ~IsSending(f)
        BY <1>2, <1>5 DEF FrameInv
    <2>2. rx'[e] = rx[e]
        BY <1>1, <2>1 DEF TypeInv
    <2>3. IsWhole(e)'
        BY <1>1, <2>1 DEF IsWhole, GetHead, GetPayload, GetPayloadLength
    <2> QED  BY <1>2, <2>1, <2>2, <2>3
<1> QED  BY <1>1, <1>2, <1>3, <1>4, <1>5 DEF FrameInv

\* The receive buffers after a piece: each has it at the end, or is as it was.
LEMMA TransmitElements ==
    ASSUME TypeInv, NEW d \in Device, Transmit(d)
    PROVE  /\ tx[d] # <<>> /\ tx[d] \in Seq(Piece) /\ Head(tx[d]) \in Piece
           /\ tx' = [tx EXCEPT ![d] = Tail(tx[d])]
           /\ \A e \in Device : \/ rx'[e] = rx[e]
                                \/ rx'[e] = Append(rx[e], Head(tx[d]))
           /\ \A e \in Device \ {d} : rx'[e] = Append(rx[e], Head(tx[d]))
           /\ UNCHANGED <<interface, losses, did, master>>
<1>1. tx[d] # <<>> /\ tx' = [tx EXCEPT ![d] = Tail(tx[d])]
      /\ rx' = [e \in Device |-> IF e # d \/ Echo THEN Append(rx[e], Head(tx[d]))
                                                 ELSE rx[e]]
      /\ UNCHANGED <<interface, losses, did, master>>
    BY DEF Transmit
<1>2. tx[d] \in Seq(Piece) /\ Head(tx[d]) \in Piece
    BY <1>1, TailElements DEF TypeInv
<1> QED  BY <1>1, <1>2

LEMMA AppendFrame ==
    ASSUME NEW r \in Seq(Piece), NEW p \in Piece, Rising(r), Behind(r, p)
    PROVE  /\ Rising(Append(r, p))
           /\ \A q \in Piece : Rank[p.part] < Rank[q.part] => Behind(Append(r, p), q)
<1>1. /\ Len(r) \in Nat /\ DOMAIN r = 1 .. Len(r)
      /\ DOMAIN Append(r, p) = 1 .. Len(r) + 1
      /\ \A j \in DOMAIN r : Append(r, p)[j] = r[j]
      /\ Append(r, p)[Len(r) + 1] = p
    BY AppendElements
<1>2. \A j \in DOMAIN r : Rank[r[j].part] < Rank[p.part]
    BY DEF Behind
<1>3. Rising(Append(r, p))
    <2> SUFFICES ASSUME NEW i \in DOMAIN Append(r, p), NEW j \in DOMAIN Append(r, p), i < j
                 PROVE  Rank[Append(r, p)[i].part] < Rank[Append(r, p)[j].part]
        BY DEF Rising
    <2>1. i \in DOMAIN r
        BY <1>1
    <2>2. CASE j \in DOMAIN r
        BY <1>1, <2>1, <2>2 DEF Rising
    <2>3. CASE j = Len(r) + 1
        BY <1>1, <1>2, <2>1, <2>3
    <2> QED  BY <1>1, <2>2, <2>3
<1>4. ASSUME NEW q \in Piece, Rank[p.part] < Rank[q.part], NEW j \in DOMAIN Append(r, p)
      PROVE  Rank[Append(r, p)[j].part] < Rank[q.part]
    <2>1. CASE j \in DOMAIN r
        <3>1. Rank[r[j].part] < Rank[p.part] /\ Append(r, p)[j] = r[j] /\ r[j] \in Piece
            BY <1>1, <1>2, <2>1, ElementOfSeq
        <3> QED  BY <1>4, <3>1, RankOfPart
    <2>2. CASE j = Len(r) + 1
        BY <1>1, <1>4, <2>2
    <2> QED  BY <1>1, <2>1, <2>2
<1> QED  BY <1>3, <1>4 DEF Behind

\* The next piece of a message comes when the earlier ones are the only ones that a
\* device has not read, and the first when there is none.
LEMMA TransmitFrame ==
    ASSUME KeepsUp, FrameInv, TypeInv', NEW d \in Device, Transmit(d) PROVE FrameInv'
<1> DEFINE p == Head(tx[d])
<1>1. /\ tx[d] # <<>> /\ tx[d] \in Seq(Piece) /\ p \in Piece /\ TypeInv
      /\ \A e \in Device : tx'[e] = IF e = d THEN Tail(tx[d]) ELSE tx[e]
      /\ \A e \in Device : rx'[e] = rx[e] \/ rx'[e] = Append(rx[e], p)
      /\ \A e \in Device : rx[e] \in Seq(Piece)
      /\ UNCHANGED <<interface, queryStatus>>
    BY TransmitElements DEF FrameInv, TypeInv, master
<1>2. \A e \in Device \ {d} : ~IsSending(e) /\ ~IsSending(e)'
    BY <1>1 DEF Transmit, IsSending
<1>3. \A e \in Device : Rising(rx[e]) /\ Behind(rx[e], p) /\ ~Holds(e)
    <2>1. CASE IsSending(d)
        BY <2>1 DEF FrameInv
    <2>2. CASE ~IsSending(d)
        <3>1. \A e \in Device : Handled(e)
            BY <2>2 DEF Transmit
        <3>2. \A e \in Device : rx[e] = <<>> /\ ~Holds(e)
            BY <3>1 DEF Handled, Holds, Listens
        <3> QED  BY <3>2 DEF Rising, Behind
    <2> QED  BY <2>1, <2>2
<1>4. \A e \in Device : ~Holds(e)'
    BY <1>1, <1>3 DEF Holds, Listens, IsMessageAvailable
<1>5. WholeMessages(tx[d]) /\ \A e \in Device : WholeMessages(tx'[e])
    BY <1>1, TailIsWhole DEF FrameInv
<1>6. ASSUME IsSending(d)'
      PROVE  Head(tx'[d]) \in Piece /\ Rank[p.part] < Rank[Head(tx'[d]).part]
    <2>1. Tail(tx[d]) # <<>> /\ Head(Tail(tx[d])).part # "Start"
        BY <1>1, <1>6 DEF IsSending
    <2>2. Tail(tx[d]) \in Seq(Piece) /\ 1 \in DOMAIN tx[d] /\ p = tx[d][1]
          /\ \A j \in DOMAIN Tail(tx[d]) :
                 j + 1 \in DOMAIN tx[d] /\ Tail(tx[d])[j] = tx[d][j + 1]
        BY <1>1, TailElements
    <2>3. 1 \in DOMAIN Tail(tx[d]) /\ Head(Tail(tx[d])) = Tail(tx[d])[1]
          /\ Head(Tail(tx[d])) \in Piece
        BY <2>1, <2>2, TailElements
    <2>4. 1 + 1 \in DOMAIN tx[d] /\ Head(Tail(tx[d])) = tx[d][1 + 1]
        BY <2>2, <2>3
    <2>5. /\ p.part = "Start" => tx[d][1 + 1].part = "Head"
          /\ p.part = "Head" => tx[d][1 + 1].part = "Rest"
          /\ p.part # "Rest"
        BY <1>5, <2>1, <2>2, <2>4 DEF WholeMessages
    <2>6. p.part \in {"Start", "Head", "Rest"}
        BY <1>1, RankOfPart
    <2>7. tx'[d] = Tail(tx[d])
        BY <1>1
    <2> QED  BY <2>3, <2>4, <2>5, <2>6, <2>7, RankOfPart
<1> HIDE DEF p
<1>7. ASSUME NEW e \in Device PROVE Rising(rx'[e])
    BY <1>1, <1>3, AppendFrame
<1>8. ASSUME NEW e \in Device, NEW f \in Device, IsSending(e)'
      PROVE  Behind(rx'[f], Head(tx'[e]))
    <2>1. e = d
        BY <1>2, <1>8
    <2>2. Head(tx'[d]) \in Piece /\ Rank[p.part] < Rank[Head(tx'[d]).part]
        BY <1>6, <1>8, <2>1
    <2>3. CASE rx'[f] = Append(rx[f], p)
        BY <1>1, <1>3, <2>1, <2>2, <2>3, AppendFrame
    <2>4. CASE rx'[f] = rx[f]
        <3>1. ASSUME NEW j \in DOMAIN rx[f]
              PROVE  Rank[rx[f][j].part] < Rank[Head(tx'[d]).part]
            <4>1. rx[f][j] \in Piece
                BY <1>1, LenNat, ElementOfSeq
            <4>2. Rank[rx[f][j].part] \in 1..3 /\ Rank[p.part] \in 1..3
                  /\ Rank[Head(tx'[d]).part] \in 1..3
                BY <1>1, <2>2, <4>1, RankOfPart
            <4>3. Rank[rx[f][j].part] < Rank[p.part]
                BY <1>3 DEF Behind
            <4> QED  BY <2>2, <4>2, <4>3
        <3> QED  BY <2>1, <2>4, <3>1 DEF Behind
    <2> QED  BY <1>1, <2>3, <2>4
<1> QED  BY <1>2, <1>4, <1>5, <1>7, <1>8 DEF FrameInv

LEMMA NextFrame ==
    ASSUME KeepsUp, FrameInv, [Next]_vars, TypeInv' PROVE FrameInv'
<1>1. TypeInv /\ \A e \in Device : WholeMessages(tx[e])
    BY DEF FrameInv
<1>2. ASSUME tx' = tx
      PROVE  /\ \A e \in Device : WholeMessages(tx'[e])
             /\ \A e \in Device : IsSending(e)' => IsSending(e) /\ Head(tx'[e]) = Head(tx[e])
    BY <1>1, <1>2 DEF IsSending
<1>3. CASE Query
    <2>1. Master \in Device /\ interface' = Dropped(Master) /\ rx' = rx
          /\ SendMessage(Master, Request(asked + 1)) /\ Request(asked + 1) \in Message
        BY <1>1, <1>3, QueryElements
    <2>2. \A e \in Device : Holds(e)' => Holds(e) /\ interface'[e] = interface[e]
        BY <1>1, <2>1, DropHolds
    <2>3. /\ \A e \in Device : WholeMessages(tx'[e])
          /\ \A e \in Device : IsSending(e)' => IsSending(e) /\ Head(tx'[e]) = Head(tx[e])
        BY <1>1, <2>1, SendIsWhole
    <2> QED  BY <2>1, <2>2, <2>3, QuietFrame
<1>4. CASE DropEcho \/ \E s \in Slave : IgnoreMessage(s)
    <2>1. PICK d \in Device : interface' = Dropped(d)
        BY <1>4 DEF DropEcho, IgnoreMessage, Device
    <2>2. UNCHANGED <<tx, rx, queryStatus>>
        BY <1>4 DEF DropEcho, IgnoreMessage, master
    <2>3. \A e \in Device : Holds(e)' => Holds(e) /\ interface'[e] = interface[e]
        BY <1>1, <2>1, <2>2, DropHolds
    <2> QED  BY <1>2, <2>2, <2>3, QuietFrame
<1>5. CASE TakeAnswer \/ GiveUp
    <2>1. UNCHANGED <<tx, rx, interface>> /\ queryStatus' # "IN_PROGRESS"
        BY <1>5 DEF TakeAnswer, GiveUp
    <2>2. \A e \in Device : Holds(e)' => Holds(e) /\ interface'[e] = interface[e]
        BY <2>1 DEF Holds, Listens, IsMessageAvailable
    <2> QED  BY <1>2, <2>1, <2>2, QuietFrame
<1>6. CASE \E s \in Slave : CallAction(s) \/ RefuseRequest(s)
    <2>1. PICK s \in Slave, reply \in Reply : Answers(s, reply)
        BY <1>1, <1>6, SlaveAnswers
    <2>2. s \in Device /\ interface' = Dropped(s) /\ UNCHANGED <<rx, queryStatus>>
        BY <2>1 DEF Answers, Device, master
    <2>3. \A e \in Device : Holds(e)' => Holds(e) /\ interface'[e] = interface[e]
        BY <1>1, <2>2, DropHolds
    <2>4. /\ \A e \in Device : WholeMessages(tx'[e])
          /\ \A e \in Device : IsSending(e)' => IsSending(e) /\ Head(tx'[e]) = Head(tx[e])
        BY <1>1, <2>1, <2>2, SendIsWhole DEF Answers
    <2> QED  BY <2>2, <2>3, <2>4, QuietFrame
<1>7. CASE UNCHANGED vars
    <2>1. UNCHANGED <<tx, rx, interface, queryStatus>>
        BY <1>7 DEF vars, master
    <2>2. \A e \in Device : Holds(e)' => Holds(e) /\ interface'[e] = interface[e]
        BY <2>1 DEF Holds, Listens, IsMessageAvailable
    <2> QED  BY <1>2, <2>1, <2>2, QuietFrame
<1> QED
    BY <1>3, <1>4, <1>5, <1>6, <1>7, ReadFrame, LoseFrame, TransmitFrame
    DEF Next, MasterUpdate, SlaveUpdate

LEMMA InitFrame == Init => FrameInv
<1> SUFFICES ASSUME Init PROVE FrameInv  OBVIOUS
<1>1. \A d \in Device : tx[d] = <<>> /\ rx[d] = <<>> /\ ~IsMessageAvailable(d)
    BY DEF Init, IsMessageAvailable
<1> QED
    BY <1>1, InitType DEF FrameInv, WholeMessages, Rising, Behind, IsSending, Holds

\* The frames on a bus where every device has handled a message before the next starts.
THEOREM FramesAlways == ASSUME KeepsUp PROVE Spec => []FrameInv
<1>1. FrameInv /\ [Next]_vars => FrameInv'
    BY NextFrame, NextType DEF FrameInv
<1> QED  BY InitFrame, <1>1, PTL DEF Spec

\* On such a bus, what a main loop is about to handle is one message whose checksum was
\* right, whatever is lost and however many answers come late (interface.hpp:130).
THEOREM HandledIsAlwaysWhole == ASSUME KeepsUp PROVE Spec => []HandledIsWhole
<1>1. FrameInv => HandledIsWhole
    <2> SUFFICES ASSUME FrameInv, NEW d \in Device, IsMessageAvailable(d),
                        IF d = Master THEN Deciding ELSE rx[d] = <<>>
                 PROVE  /\ GetHead(d) = GetPayload(d) /\ GetHead(d) # Garbage
                        /\ GetHead(d).length = GetPayloadLength(d)
        BY DEF HandledIsWhole
    <2>1. Holds(d)
        BY DEF Holds, Listens, Deciding
    <2> QED  BY <2>1, GarbageIsNoMessage DEF FrameInv, IsWhole
<1> QED  BY <1>1, FramesAlways, PTL

-----------------------------------------------------------------------------
(* Each message is sent once, and its last piece is in one place: in the    *)
(* transmit buffer of its sender, in the receive buffer of the device it is *)
(* for, or stored there as a message.  A request is under way until a slave *)
(* has replied to the query, and an answer from then on.                    *)

RestOf(m) == [part |-> "Rest", message |-> m]
From(m) == IF m.flags = "REQUEST" THEN Master ELSE m.address
To(m) == IF m.flags = "REQUEST" THEN m.address ELSE Master

Leaving(m) == \E i \in DOMAIN tx[From(m)] : tx[From(m)][i] = RestOf(m)
Arriving(m) == \E i \in DOMAIN rx[To(m)] : rx[To(m)][i] = RestOf(m)
Arrived(m) == Holds(To(m)) /\ GetHead(To(m)) = m
UnderWay(m) == Leaving(m) \/ Arriving(m) \/ Arrived(m)

\* What m says of its query is true.
Genuine(m) ==
    /\ m.query <= asked
    /\ \/ m = Request(m.query) /\ did[m.query] = <<>>
       \/ /\ m = AnswerTo(Request(m.query), m.reply)
          /\ did[m.query] = <<[by |-> m.address, reply |-> m.reply]>>

\* What is under way belongs to the query in progress, or to one since the first that
\* timed out while its answer could still come.
InTime(q) == q = asked /\ queryStatus = "IN_PROGRESS"
Late(q) == \E t \in overtaken : t <= q

SentOnce ==
    \A d \in Device : \A i, j \in DOMAIN tx[d] :
        tx[d][i].part = "Rest" =>
            From(tx[d][i].message) = d /\ (tx[d][j] = tx[d][i] => i = j)

TokenInv ==
    /\ SentOnce
    /\ \A m \in Message :
          /\ ~(Leaving(m) /\ Arriving(m)) /\ ~(Leaving(m) /\ Arrived(m))
          /\ UnderWay(m) => Genuine(m) /\ (InTime(m.query) \/ Late(m.query))

LEMMA FromTo ==
    ASSUME NEW m \in Message
    PROVE  From(m) \in Device /\ To(m) \in Device /\ RestOf(m).part = "Rest"
           /\ RestOf(m).message = m
    BY DEF From, To, RestOf, Message, Device

\* A message that has arrived is not in the receive buffer any more.
LEMMA ArrivedIsRead ==
    ASSUME FrameInv, NEW m \in Message, Arrived(m) PROVE ~Arriving(m)
<1>1. rx[To(m)] = <<>>
    BY FromTo DEF FrameInv, Arrived
<1> QED  BY <1>1 DEF Arriving

\* The last piece of a message moves on, or gets lost, and nothing else happens to it.
LEMMA TokenStep ==
    ASSUME TokenInv, SentOnce', did' = did, asked' = asked,
           \A m \in Message : Leaving(m)' => Leaving(m),
           \A m \in Message : Arriving(m)' => Arriving(m) \/ (Leaving(m) /\ ~Leaving(m)'),
           \A m \in Message : Arrived(m)' => Arrived(m) \/ Arriving(m),
           \A m \in Message : UnderWay(m) /\ UnderWay(m)' =>
                                 (InTime(m.query) \/ Late(m.query))'
    PROVE  TokenInv'
<1> SUFFICES ASSUME NEW m \in Message
             PROVE  /\ ~(Leaving(m)' /\ Arriving(m)') /\ ~(Leaving(m)' /\ Arrived(m)')
                    /\ UnderWay(m)' => Genuine(m)' /\ (InTime(m.query) \/ Late(m.query))'
    BY DEF TokenInv
<1>1. ~(Leaving(m)' /\ Arriving(m)') /\ ~(Leaving(m)' /\ Arrived(m)')
    BY DEF TokenInv
<1>2. ASSUME UnderWay(m)' PROVE Genuine(m)' /\ (InTime(m.query) \/ Late(m.query))'
    <2>1. UnderWay(m)
        BY <1>2 DEF UnderWay
    <2>2. Genuine(m)
        BY <2>1 DEF TokenInv
    <2> QED  BY <1>2, <2>1, <2>2 DEF Genuine
<1> QED  BY <1>1, <1>2

LEMMA SameTokens ==
    ASSUME UNCHANGED <<tx, rx>>,
           \A e \in Device : Holds(e)' => Holds(e) /\ interface'[e] = interface[e]
    PROVE  \A m \in Message : /\ Leaving(m)' <=> Leaving(m)
                              /\ Arriving(m)' <=> Arriving(m)
                              /\ Arrived(m)' => Arrived(m)
<1> SUFFICES ASSUME NEW m \in Message
             PROVE  /\ Leaving(m)' <=> Leaving(m)
                    /\ Arriving(m)' <=> Arriving(m)
                    /\ Arrived(m)' => Arrived(m)
    OBVIOUS
<1>1. To(m) \in Device
    BY FromTo
<1>2. ASSUME Arrived(m)' PROVE Arrived(m)
    <2>1. Holds(To(m))' /\ interface'[To(m)].buffer[1] = m
        BY <1>2 DEF Arrived, GetHead
    <2>2. Holds(To(m)) /\ interface'[To(m)] = interface[To(m)]
        BY <1>1, <2>1
    <2> QED  BY <2>1, <2>2 DEF Arrived, GetHead
<1> QED  BY <1>2 DEF Leaving, Arriving

\* sendMessage: the message that is sent is under way, the others as they were.
LEMMA SendTokens ==
    ASSUME FrameInv, SentOnce, NEW m \in Message, ~Leaving(m), SendMessage(From(m), m)
    PROVE  /\ SentOnce'
           /\ \A n \in Message : Leaving(n)' => Leaving(n) \/ n = m
<1> DEFINE d == From(m)
           k == Len(tx[d])
           t == tx'[d]
<1>1. d \in Device /\ TypeInv
    BY FromTo DEF FrameInv
<1>2. /\ tx' \in [Device -> Seq(Piece)]
      /\ \A e \in Device \ {d} : tx'[e] = tx[e]
      /\ k \in Nat /\ DOMAIN tx[d] = 1 .. k /\ DOMAIN t = 1 .. k + 3
      /\ \A i \in DOMAIN tx[d] : t[i] = tx[d][i]
      /\ t[k + 1].part = "Start" /\ t[k + 2].part = "Head" /\ t[k + 3] = RestOf(m)
    <2>1. /\ tx' \in [Device -> Seq(Piece)]
          /\ \A e \in Device \ {d} : tx'[e] = tx[e]
          /\ k \in Nat /\ DOMAIN tx[d] = 1 .. k /\ DOMAIN t = 1 .. k + 3
          /\ \A i \in DOMAIN tx[d] : t[i] = tx[d][i]
        BY <1>1, SendElements
    <2>2. /\ t[k + 1] = [part |-> "Start", message |-> m]
          /\ t[k + 2] = [part |-> "Head", message |-> m]
          /\ t[k + 3] = [part |-> "Rest", message |-> m]
        BY <1>1, SendElements
    <2> QED  BY <2>1, <2>2 DEF RestOf
<1>3. \A i \in DOMAIN tx[d] : tx[d][i] # RestOf(m)
    BY DEF Leaving
<1> HIDE DEF k, t, d
<1>4. ASSUME NEW i \in DOMAIN t, t[i].part = "Rest"
      PROVE  (i \in 1 .. k /\ t[i] = tx[d][i]) \/ (i = k + 3 /\ t[i] = RestOf(m))
    <2>1. i \in 1 .. k \/ i = k + 1 \/ i = k + 2 \/ i = k + 3
        BY <1>2
    <2> QED  BY <1>2, <1>4, <2>1
<1>5. ASSUME NEW i \in DOMAIN t, NEW j \in DOMAIN t, t[i].part = "Rest"
      PROVE  From(t[i].message) = d /\ (t[j] = t[i] => i = j)
    <2>1. CASE i \in 1 .. k /\ t[i] = tx[d][i]
        <3>1. From(t[i].message) = d
            BY <1>1, <1>2, <1>5, <2>1 DEF SentOnce
        <3>2. ASSUME t[j] = t[i] PROVE i = j
            <4>1. j \in 1 .. k /\ t[j] = tx[d][j]
                BY <1>2, <1>3, <1>4, <1>5, <2>1, <3>2
            <4> QED  BY <1>1, <1>2, <1>5, <2>1, <3>2, <4>1 DEF SentOnce
        <3> QED  BY <3>1, <3>2
    <2>2. CASE i = k + 3 /\ t[i] = RestOf(m)
        <3>1. From(t[i].message) = d
            BY <2>2, FromTo DEF d
        <3>2. ASSUME t[j] = t[i] PROVE i = j
            BY <1>2, <1>3, <1>4, <1>5, <2>2, <3>2
        <3> QED  BY <3>1, <3>2
    <2> QED  BY <1>4, <1>5, <2>1, <2>2
<1>6. SentOnce'
    <2> SUFFICES ASSUME NEW e \in Device, NEW i \in DOMAIN tx'[e], NEW j \in DOMAIN tx'[e],
                        tx'[e][i].part = "Rest"
                 PROVE  From(tx'[e][i].message) = e /\ (tx'[e][j] = tx'[e][i] => i = j)
        BY DEF SentOnce
    <2>1. CASE e = d
        BY <1>5, <2>1 DEF t
    <2>2. CASE e # d
        BY <1>2, <2>2 DEF SentOnce
    <2> QED  BY <2>1, <2>2
<1>7. ASSUME NEW n \in Message, Leaving(n)' PROVE Leaving(n) \/ n = m
    <2>1. From(n) \in Device /\ RestOf(n).part = "Rest" /\ RestOf(n).message = n
          /\ RestOf(m).message = m
        BY FromTo
    <2>2. PICK i \in DOMAIN tx'[From(n)] : tx'[From(n)][i] = RestOf(n)
        BY <1>7 DEF Leaving
    <2>3. CASE From(n) = d
        <3>1. i \in DOMAIN t /\ t[i] = RestOf(n)
            BY <2>2, <2>3 DEF t
        <3>2. (i \in DOMAIN tx[d] /\ tx[d][i] = RestOf(n)) \/ RestOf(n) = RestOf(m)
            BY <1>2, <1>4, <2>1, <3>1
        <3> QED  BY <2>1, <2>3, <3>2 DEF Leaving
    <2>4. CASE From(n) # d
        BY <1>2, <2>1, <2>2, <2>4 DEF Leaving
    <2> QED  BY <2>3, <2>4
<1> QED  BY <1>6, <1>7

LEMMA TransmitTokens ==
    ASSUME FrameInv, SentOnce, NEW d \in Device, Transmit(d)
    PROVE  /\ SentOnce'
           /\ \A m \in Message :
                 /\ Leaving(m)' => Leaving(m)
                 /\ Arriving(m)' => Arriving(m) \/ (Leaving(m) /\ ~Leaving(m)')
                 /\ Arrived(m)' => Arrived(m)
<1> DEFINE p == Head(tx[d])
<1>1. /\ tx[d] # <<>> /\ tx[d] \in Seq(Piece) /\ p \in Piece
      /\ \A e \in Device : tx'[e] = IF e = d THEN Tail(tx[d]) ELSE tx[e]
      /\ \A e \in Device : rx'[e] = rx[e] \/ rx'[e] = Append(rx[e], p)
      /\ \A e \in Device : rx[e] \in Seq(Piece)
      /\ UNCHANGED <<interface, queryStatus>>
    BY TransmitElements DEF FrameInv, TypeInv, master
<1>2. 1 \in DOMAIN tx[d] /\ p = tx[d][1]
      /\ \A j \in DOMAIN Tail(tx[d]) :
             j \in Nat \ {0} /\ j + 1 \in DOMAIN tx[d] /\ Tail(tx[d])[j] = tx[d][j + 1]
    BY <1>1, TailElements
<1> HIDE DEF p
<1>3. SentOnce'
    <2> SUFFICES ASSUME NEW e \in Device, NEW i \in DOMAIN tx'[e], NEW j \in DOMAIN tx'[e],
                        tx'[e][i].part = "Rest"
                 PROVE  From(tx'[e][i].message) = e /\ (tx'[e][j] = tx'[e][i] => i = j)
        BY DEF SentOnce
    <2>1. CASE e = d
        <3>1. i \in DOMAIN Tail(tx[d]) /\ j \in DOMAIN Tail(tx[d]) /\ tx'[e] = Tail(tx[d])
            BY <1>1, <2>1
        <3>2. /\ i \in Nat /\ i + 1 \in DOMAIN tx[d] /\ tx'[e][i] = tx[d][i + 1]
              /\ j \in Nat /\ j + 1 \in DOMAIN tx[d] /\ tx'[e][j] = tx[d][j + 1]
            BY <1>2, <3>1
        <3>3. From(tx[d][i + 1].message) = d /\ (tx[d][j + 1] = tx[d][i + 1] => i + 1 = j + 1)
            BY <3>2 DEF SentOnce
        <3>4. i + 1 = j + 1 => i = j
            BY <3>2
        <3> QED  BY <2>1, <3>2, <3>3, <3>4
    <2>2. CASE e # d
        BY <1>1, <2>2 DEF SentOnce
    <2> QED  BY <2>1, <2>2
<1>4. ASSUME NEW m \in Message, Leaving(m)' PROVE Leaving(m)
    <2>1. From(m) \in Device
        BY FromTo
    <2>2. PICK i \in DOMAIN tx'[From(m)] : tx'[From(m)][i] = RestOf(m)
        BY <1>4 DEF Leaving
    <2>3. CASE From(m) = d
        <3>1. i \in DOMAIN Tail(tx[d]) /\ Tail(tx[d])[i] = RestOf(m)
            BY <1>1, <2>2, <2>3
        <3>2. i + 1 \in DOMAIN tx[d] /\ tx[d][i + 1] = RestOf(m)
            BY <1>2, <3>1
        <3> QED  BY <2>3, <3>2 DEF Leaving
    <2>4. CASE From(m) # d
        BY <1>1, <2>1, <2>2, <2>4 DEF Leaving
    <2> QED  BY <2>3, <2>4
<1>5. ASSUME NEW m \in Message, Arriving(m)', ~Arriving(m)
      PROVE  Leaving(m) /\ ~Leaving(m)'
    <2>1. To(m) \in Device /\ RestOf(m).part = "Rest" /\ RestOf(m).message = m
        BY FromTo
    <2>2. PICK i \in DOMAIN rx'[To(m)] : rx'[To(m)][i] = RestOf(m)
        BY <1>5 DEF Arriving
    <2>3. rx'[To(m)] = Append(rx[To(m)], p)
        BY <1>1, <1>5, <2>1, <2>2 DEF Arriving
    <2>4. p = RestOf(m)
        <3>1. rx[To(m)] \in Seq(Piece)
            BY <1>1, <2>1
        <3>2. i \in DOMAIN rx[To(m)] => rx'[To(m)][i] = rx[To(m)][i]
            BY <1>1, <2>3, <3>1, AppendElements
        <3>3. i \notin DOMAIN rx[To(m)] => rx'[To(m)][i] = p
            <4>1. /\ Len(rx[To(m)]) \in Nat /\ DOMAIN rx[To(m)] = 1 .. Len(rx[To(m)])
                  /\ DOMAIN rx'[To(m)] = 1 .. Len(rx[To(m)]) + 1
                  /\ rx'[To(m)][Len(rx[To(m)]) + 1] = p
                BY <1>1, <2>3, <3>1, AppendElements
            <4> QED  BY <2>2, <4>1
        <3> QED  BY <1>5, <2>2, <3>2, <3>3 DEF Arriving
    <2>5. /\ From(m) = d
          /\ \A j \in DOMAIN tx[d] : tx[d][j] = RestOf(m) => 1 = j
        <3>1. tx[d][1] = RestOf(m) /\ tx[d][1].part = "Rest" /\ tx[d][1].message = m
            BY <1>2, <2>1, <2>4
        <3>2. \A j \in DOMAIN tx[d] :
                  From(tx[d][1].message) = d /\ (tx[d][j] = tx[d][1] => 1 = j)
            BY <1>2, <3>1 DEF SentOnce
        <3> QED  BY <1>2, <3>1, <3>2
    <2>6. Leaving(m)
        BY <1>2, <2>4, <2>5 DEF Leaving
    <2>7. ASSUME NEW j \in DOMAIN tx'[d], tx'[d][j] = RestOf(m) PROVE FALSE
        <3>1. j \in Nat \ {0} /\ j + 1 \in DOMAIN tx[d] /\ tx[d][j + 1] = RestOf(m)
            BY <1>1, <1>2, <2>7
        <3>2. 1 = j + 1
            BY <2>5, <3>1
        <3> QED  BY <3>1, <3>2
    <2> QED  BY <2>5, <2>6, <2>7 DEF Leaving
<1>6. \A m \in Message : Arrived(m)' => Arrived(m)
    BY <1>1 DEF Arrived, Holds, Listens, IsMessageAvailable, GetHead
<1> QED  BY <1>3, <1>4, <1>5, <1>6

LEMMA ReadTokens ==
    ASSUME FrameInv, NEW d \in Device, Read(d)
    PROVE  \A m \in Message : /\ Leaving(m)' <=> Leaving(m)
                              /\ Arriving(m)' => Arriving(m)
                              /\ Arrived(m)' => Arrived(m) \/ Arriving(m)
<1> SUFFICES ASSUME NEW m \in Message
             PROVE  /\ Leaving(m)' <=> Leaving(m)
                    /\ Arriving(m)' => Arriving(m)
                    /\ Arrived(m)' => Arrived(m) \/ Arriving(m)
    OBVIOUS
<1>1. /\ TypeInv /\ rx[d] # <<>> /\ rx[d] \in Seq(Piece)
      /\ \A e \in Device : rx'[e] = IF e = d THEN Tail(rx[d]) ELSE rx[e]
      /\ \A e \in Device \ {d} : interface'[e] = interface[e]
      /\ UNCHANGED <<tx, queryStatus>>
    BY ReadElements DEF FrameInv, TypeInv, Read, master
<1>2. /\ 1 \in DOMAIN rx[d] /\ Head(rx[d]) = rx[d][1]
      /\ \A j \in DOMAIN Tail(rx[d]) : j + 1 \in DOMAIN rx[d] /\ Tail(rx[d])[j] = rx[d][j + 1]
    BY <1>1, TailElements
<1>3. To(m) \in Device
    BY FromTo
<1>4. Arriving(m)' => Arriving(m)
    <2>1. CASE To(m) = d
        <3>1. rx'[To(m)] = Tail(rx[d])
            BY <1>1, <1>3, <2>1
        <3> QED  BY <1>2, <2>1, <3>1 DEF Arriving
    <2>2. CASE To(m) # d
        BY <1>1, <1>3, <2>2 DEF Arriving
    <2> QED  BY <2>1, <2>2
<1>5. ASSUME Arrived(m)', ~Arrived(m) PROVE Arriving(m)
    <2>1. Holds(To(m))' /\ interface'[To(m)].buffer[1] = m
        BY <1>5 DEF Arrived, GetHead
    <2>2. To(m) = d
        BY <1>1, <1>3, <1>5, <2>1 DEF Arrived, Holds, Listens, IsMessageAvailable, GetHead
    <2>3. ~Holds(d) /\ Listens(d)
        BY <1>1, <2>1, <2>2 DEF FrameInv, Holds, Listens
    <2>4. interface[d].lengthOfReceivedMessage = 0
          /\ interface'[d].lengthOfReceivedMessage # 0
        BY <2>1, <2>2, <2>3 DEF Holds, IsMessageAvailable
    <2>5. PICK n \in Message :
             /\ Head(rx[d]) = [part |-> "Rest", message |-> n]
             /\ interface'[d].buffer[1] = n
        BY <1>1, <2>4, ReadElements
    <2>6. rx[d][1] = RestOf(m)
        BY <1>2, <2>1, <2>2, <2>5 DEF RestOf
    <2> QED  BY <1>2, <2>2, <2>6 DEF Arriving
<1> QED  BY <1>1, <1>4, <1>5 DEF Leaving

LEMMA LoseTokens ==
    ASSUME FrameInv, NEW d \in Device, Lose(d)
    PROVE  \A m \in Message : /\ Leaving(m)' <=> Leaving(m)
                              /\ Arriving(m)' => Arriving(m)
                              /\ Arrived(m)' => Arrived(m)
<1> SUFFICES ASSUME NEW m \in Message
             PROVE  /\ Leaving(m)' <=> Leaving(m)
                    /\ Arriving(m)' => Arriving(m)
                    /\ Arrived(m)' => Arrived(m)
    OBVIOUS
<1>1. /\ rx[d] # <<>> /\ rx[d] \in Seq(Piece)
      /\ \A e \in Device : rx'[e] = IF e = d THEN Tail(rx[d]) ELSE rx[e]
      /\ UNCHANGED <<tx, interface, queryStatus>>
    BY DEF FrameInv, TypeInv, Lose, master
<1>2. \A j \in DOMAIN Tail(rx[d]) : j + 1 \in DOMAIN rx[d] /\ Tail(rx[d])[j] = rx[d][j + 1]
    BY <1>1, TailElements
<1>3. To(m) \in Device
    BY FromTo
<1>4. Arriving(m)' => Arriving(m)
    <2>1. CASE To(m) = d
        <3>1. rx'[To(m)] = Tail(rx[d])
            BY <1>1, <1>3, <2>1
        <3> QED  BY <1>2, <2>1, <3>1 DEF Arriving
    <2>2. CASE To(m) # d
        BY <1>1, <1>3, <2>2 DEF Arriving
    <2> QED  BY <2>1, <2>2
<1> QED  BY <1>1, <1>4 DEF Leaving, Arrived, Holds, Listens, IsMessageAvailable, GetHead

-----------------------------------------------------------------------------
(* The exchange of queries and answers                                     *)

\* Nothing is replied to a query before it is made.
AskedInv == \A q \in QueryId : did[q] # <<>> => q <= asked

ExchangeInv == FrameInv /\ TokenInv /\ AskedInv /\ HandledOnce

LEMMA Flags ==
    /\ \A q \in QueryId : Request(q).flags = "REQUEST" /\ Request(q).query = q
    /\ \A r, reply : AnswerTo(r, reply).flags = IF reply = "NONE" THEN "ACK" ELSE "NACK"
    /\ \A r, reply : AnswerTo(r, reply).query = r.query
                     /\ AnswerTo(r, reply).address = r.address
                     /\ AnswerTo(r, reply).reply = reply
    BY DEF Request, AnswerTo

\* A genuine message is a request, to the slave of the query, or what that slave replied.
LEMMA GenuineKind ==
    ASSUME NEW m \in Message, Genuine(m)
    PROVE  /\ m.query \in QueryId
           /\ m.flags = "REQUEST" => m = Request(m.query) /\ did[m.query] = <<>>
           /\ m.flags # "REQUEST" =>
                 /\ m = AnswerTo(Request(m.query), m.reply)
                 /\ did[m.query] = <<[by |-> m.address, reply |-> m.reply]>>
                 /\ m.address = Script[m.query].address
           /\ (m.flags = "REQUEST") = (did[m.query] = <<>>)
<1>1. m.query \in QueryId
    BY DEF Message
<1>2. CASE m = Request(m.query) /\ did[m.query] = <<>>
    BY <1>1, <1>2, Flags
<1>3. CASE m = AnswerTo(Request(m.query), m.reply)
           /\ did[m.query] = <<[by |-> m.address, reply |-> m.reply]>>
    <2>1. m.flags # "REQUEST" /\ m.address = Request(m.query).address
        BY <1>3, Flags
    <2>2. did[m.query] # <<>>
        BY <1>3
    <2>3. m.address = Script[m.query].address
        BY <1>1, <2>1, RequestType
    <2> QED  BY <1>1, <1>3, <2>1, <2>2, <2>3
<1> QED  BY <1>2, <1>3 DEF Genuine

\* Two messages about one query that are under way are the same.
LEMMA OnePerQuery ==
    ASSUME TokenInv, NEW m \in Message, NEW n \in Message, UnderWay(m), UnderWay(n),
           m.query = n.query
    PROVE  m = n
<1>1. Genuine(m) /\ Genuine(n)
    BY DEF TokenInv
<1>2. m.flags = "REQUEST" <=> n.flags = "REQUEST"
    BY <1>1, GenuineKind
<1>3. CASE m.flags = "REQUEST"
    BY <1>1, <1>2, <1>3, GenuineKind
<1>4. CASE m.flags # "REQUEST"
    <2>1. <<[by |-> m.address, reply |-> m.reply]>> = <<[by |-> n.address, reply |-> n.reply]>>
        BY <1>1, <1>2, <1>4, GenuineKind
    <2>2. m.reply = n.reply
        BY <2>1
    <2> QED  BY <1>1, <1>2, <1>4, <2>2, GenuineKind, ZenonT(30)
<1> QED  BY <1>3, <1>4

\* A message that is sent comes to those under way; it must be about a query that
\* nothing else is about.
LEMMA TokenSend ==
    ASSUME FrameInv, TokenInv, NEW m \in Message, SendMessage(From(m), m), rx' = rx,
           ~UnderWay(m), Genuine(m)', (InTime(m.query) \/ Late(m.query))',
           \A e \in Device : Holds(e)' => Holds(e) /\ interface'[e] = interface[e],
           \A n \in Message : UnderWay(n) /\ UnderWay(n)' =>
               Genuine(n)' /\ (InTime(n.query) \/ Late(n.query))'
    PROVE  TokenInv'
<1>1. SentOnce' /\ \A n \in Message : Leaving(n)' => Leaving(n) \/ n = m
    BY SendTokens DEF TokenInv, UnderWay
<1>2. ASSUME NEW n \in Message
      PROVE  (Arriving(n)' <=> Arriving(n)) /\ (Arrived(n)' => Arrived(n))
    <2>1. To(n) \in Device
        BY FromTo
    <2>2. ASSUME Arrived(n)' PROVE Arrived(n)
        <3>1. Holds(To(n))' /\ interface'[To(n)].buffer[1] = n
            BY <2>2 DEF Arrived, GetHead
        <3>2. Holds(To(n)) /\ interface'[To(n)] = interface[To(n)]
            BY <2>1, <3>1
        <3> QED  BY <3>1, <3>2 DEF Arrived, GetHead
    <2> QED  BY <2>2 DEF Arriving
<1> SUFFICES ASSUME NEW n \in Message
             PROVE  /\ ~(Leaving(n)' /\ Arriving(n)') /\ ~(Leaving(n)' /\ Arrived(n)')
                    /\ UnderWay(n)' => Genuine(n)' /\ (InTime(n.query) \/ Late(n.query))'
    BY <1>1 DEF TokenInv
<1>3. CASE n = m
    BY <1>2, <1>3 DEF UnderWay
<1>4. CASE n # m
    <2>1. (Leaving(n)' => Leaving(n)) /\ (UnderWay(n)' => UnderWay(n))
        BY <1>1, <1>2, <1>4 DEF UnderWay
    <2> QED  BY <1>2, <2>1 DEF TokenInv
<1> QED  BY <1>3, <1>4

LEMMA QueryExchange == ASSUME ExchangeInv, FrameInv', Query PROVE ExchangeInv'
<1>0. PICK q \in QueryId, m \in Message : q = asked + 1 /\ m = Request(q)
    BY QueryElements DEF ExchangeInv, FrameInv
<1>1. /\ asked' = q /\ q \in QueryId /\ asked \in Nat /\ m \in Message
      /\ SendMessage(Master, m) /\ Master \in Device /\ interface' = Dropped(Master)
      /\ queryStatus # "IN_PROGRESS" /\ queryStatus' = "IN_PROGRESS"
      /\ UNCHANGED <<rx, losses, did, overtaken>>
    BY <1>0, QueryElements DEF ExchangeInv, FrameInv
<1>2. m.flags = "REQUEST" /\ m.query = q /\ From(m) = Master /\ m = Request(m.query)
    BY <1>0, Flags DEF From
<1>3. \A e \in Device : Holds(e)' => Holds(e) /\ interface'[e] = interface[e]
    BY <1>1, DropHolds DEF ExchangeInv, FrameInv
<1>4. QueryId \subseteq Nat
    BY RequestType
<1>5. ~UnderWay(m)
    <2>1. ~(q <= asked)
        BY <1>0, <1>1
    <2> QED  BY <1>1, <1>2, <2>1 DEF ExchangeInv, TokenInv, Genuine
<1>6. did[q] = <<>>
    <2>1. ~(q <= asked)
        BY <1>0, <1>1
    <2> QED  BY <1>1, <2>1 DEF ExchangeInv, AskedInv
<1>7. Genuine(m)' /\ InTime(m.query)'
    <2>1. q <= q
        BY <1>0, <1>1
    <2>2. m.query <= asked' /\ did'[m.query] = <<>> /\ m.query = asked'
        BY <1>1, <1>2, <1>6, <2>1
    <2> QED  BY <1>1, <1>2, <2>2 DEF Genuine, InTime
<1>8. ASSUME NEW n \in Message, UnderWay(n)
      PROVE  Genuine(n)' /\ Late(n.query)'
    <2>1. Genuine(n) /\ (InTime(n.query) \/ Late(n.query)) /\ n.query \in QueryId
        BY <1>8, GenuineKind DEF ExchangeInv, TokenInv
    <2>2. n.query <= asked'
        <3>1. n.query <= asked /\ n.query \in Nat /\ asked' = asked + 1
            BY <1>0, <1>1, <1>4, <2>1 DEF Genuine
        <3> QED  BY <1>1, <3>1
    <2> QED  BY <1>1, <2>1, <2>2 DEF Genuine, InTime, Late
<1>9. TokenInv'
    <2>1. SendMessage(From(m), m) /\ rx' = rx /\ m \in Message
        BY <1>1, <1>2
    <2>2. (InTime(m.query) \/ Late(m.query))'
        BY <1>7
    <2>3. \A n \in Message : UnderWay(n) /\ UnderWay(n)' =>
              Genuine(n)' /\ (InTime(n.query) \/ Late(n.query))'
        BY <1>8
    <2> QED  BY <1>3, <1>5, <1>7, <2>1, <2>2, <2>3, TokenSend DEF ExchangeInv
<1>10. AskedInv'
    <2> SUFFICES ASSUME NEW r \in QueryId, did[r] # <<>> PROVE r <= asked'
        BY <1>1 DEF AskedInv
    <2>1. r <= asked /\ r \in Nat /\ asked' = asked + 1
        BY <1>0, <1>1, <1>4 DEF ExchangeInv, AskedInv
    <2> QED  BY <1>1, <2>1
<1>11. HandledOnce'
    BY <1>1 DEF ExchangeInv, HandledOnce
<1> QED  BY <1>9, <1>10, <1>11 DEF ExchangeInv

LEMMA AppendToEmpty ==
    ASSUME NEW e
    PROVE  /\ Append(<<>>, e) = <<e>> /\ Len(<<e>>) = 1 /\ DOMAIN <<e>> = {1}
           /\ <<e>>[1] = e /\ <<e>> # <<>>
    OBVIOUS

\* A slave replies to a request that was under way, and its answer takes the place of it.
LEMMA AnswersExchange ==
    ASSUME ExchangeInv, FrameInv', NEW s \in Slave, NEW reply \in Reply, Answers(s, reply)
    PROVE  ExchangeInv'
<1>1. PICK r \in Message : r = GetHead(s)
    BY HeadOfRequest DEF ExchangeInv, FrameInv, Answers
<1>2. PICK m \in Message : m = AnswerTo(r, reply)
    BY <1>1 DEF Answers
<1>3. PICK q \in QueryId : q = r.query
    BY <1>1, HeadOfRequest DEF ExchangeInv, FrameInv, Answers
<1>4. PICK e : e = [by |-> s, reply |-> reply]
    OBVIOUS
<1>5. /\ TypeInv /\ s \in Device /\ s # Master
      /\ r.flags = "REQUEST" /\ r.address = s /\ To(r) = s
      /\ IsMessageAvailable(s) /\ Holds(s) /\ Arrived(r)
    <2>1. TypeInv /\ s \in Device /\ s # Master
        BY SabAssumption DEF ExchangeInv, FrameInv, Device
    <2>2. r.flags = "REQUEST" /\ r.address = s /\ IsMessageAvailable(s)
        BY <1>1, <2>1, HeadOfRequest DEF Answers
    <2> QED  BY <1>1, <2>1, <2>2 DEF To, Holds, Listens, Arrived
<1>6. /\ SendMessage(s, m) /\ did' = [did EXCEPT ![q] = Append(did[q], e)]
      /\ interface' = Dropped(s) /\ UNCHANGED <<rx, queryStatus, asked, overtaken>>
      /\ reply = "NO_ACTION" <=> r.command \notin DOMAIN ActionList
      /\ reply = "WRONG_PAYLOAD_LENGTH" <=>
            r.command \in DOMAIN ActionList /\ GetPayloadLength(s) # ActionList[r.command]
    BY <1>1, <1>2, <1>3, <1>4 DEF Answers, IsKnown, Fits, master
<1>7. UnderWay(r) /\ Genuine(r) /\ (InTime(q) \/ Late(q))
    BY <1>3, <1>5 DEF ExchangeInv, TokenInv, UnderWay
<1>8. r = Request(q) /\ did[q] = <<>> /\ q <= asked
    BY <1>3, <1>5, <1>7, GenuineKind DEF Genuine
<1>9. m = AnswerTo(Request(q), m.reply) /\ m.query = q /\ m.reply = reply
      /\ m.address = s /\ m.flags # "REQUEST" /\ From(m) = s
    <2>1. m.query = q /\ m.reply = reply /\ m.address = s /\ m.flags # "REQUEST"
        BY <1>2, <1>3, <1>5, Flags
    <2> QED  BY <1>2, <1>8, <2>1 DEF From
<1>10. did'[q] = <<e>> /\ did' \in [QueryId -> Seq([by : Slave, reply : Reply])]
       /\ \A x \in QueryId \ {q} : did'[x] = did[x]
    <2>1. did \in [QueryId -> Seq([by : Slave, reply : Reply])]
          /\ did' \in [QueryId -> Seq([by : Slave, reply : Reply])]
        BY DEF ExchangeInv, FrameInv, TypeInv
    <2>2. Append(did[q], e) = <<e>>
        BY <1>8, AppendToEmpty
    <2> HIDE DEF Reply
    <2> QED  BY <1>6, <2>1, <2>2
<1>11. \A f \in Device : Holds(f)' => f # s /\ Holds(f) /\ interface'[f] = interface[f]
    BY <1>5, <1>6, DropHolds
<1>12. ~UnderWay(m)
    <2>1. ASSUME UnderWay(m) PROVE FALSE
        <3>1. m = r
            BY <1>3, <1>7, <1>9, <2>1, OnePerQuery DEF ExchangeInv
        <3> QED  BY <1>5, <1>9, <3>1
    <2> QED  BY <2>1
<1>13. Genuine(m)' /\ (InTime(m.query) \/ Late(m.query))'
    <2>1. did'[m.query] = <<[by |-> m.address, reply |-> m.reply]>> /\ m.query <= asked'
        BY <1>4, <1>6, <1>8, <1>9, <1>10
    <2>2. (InTime(q) \/ Late(q))'
        BY <1>6, <1>7 DEF InTime, Late
    <2> QED  BY <1>9, <2>1, <2>2 DEF Genuine
<1>14. ~UnderWay(r)'
    <2>1. ~Leaving(r) /\ ~Arriving(r)
        BY <1>5, ArrivedIsRead DEF ExchangeInv, TokenInv
    <2>2. ~Leaving(r)'
        <3>1. \A n \in Message : Leaving(n)' => Leaving(n) \/ n = m
            BY <1>6, <1>9, <1>12, SendTokens DEF ExchangeInv, TokenInv, UnderWay
        <3> QED  BY <1>5, <1>9, <2>1, <3>1
    <2>3. ~Arriving(r)' /\ ~Arrived(r)'
        BY <1>5, <1>6, <1>11, <2>1 DEF Arriving, Arrived
    <2> QED  BY <2>2, <2>3 DEF UnderWay
<1>15. ASSUME NEW n \in Message, UnderWay(n), UnderWay(n)'
       PROVE  Genuine(n)' /\ (InTime(n.query) \/ Late(n.query))'
    <2>1. Genuine(n) /\ (InTime(n.query) \/ Late(n.query)) /\ n.query \in QueryId
        BY <1>15, GenuineKind DEF ExchangeInv, TokenInv
    <2>2. n.query # q
        BY <1>3, <1>7, <1>14, <1>15, OnePerQuery DEF ExchangeInv
    <2>3. did'[n.query] = did[n.query]
        BY <1>10, <2>1, <2>2
    <2> QED  BY <1>6, <2>1, <2>3 DEF Genuine, InTime, Late
<1>16. TokenInv'
    <2>1. SendMessage(From(m), m) /\ rx' = rx
        BY <1>6, <1>9
    <2>2. \A f \in Device : Holds(f)' => Holds(f) /\ interface'[f] = interface[f]
        BY <1>11
    <2>3. \A n \in Message : UnderWay(n) /\ UnderWay(n)' =>
              Genuine(n)' /\ (InTime(n.query) \/ Late(n.query))'
        BY <1>15
    <2>4. Genuine(m)' /\ (InTime(m.query) \/ Late(m.query))'
        BY <1>13
    <2> QED  BY <1>12, <2>1, <2>2, <2>3, <2>4, TokenSend DEF ExchangeInv
<1>17. AskedInv'
    <2> SUFFICES ASSUME NEW x \in QueryId, did'[x] # <<>> PROVE x <= asked'
        BY DEF AskedInv
    <2> QED  BY <1>6, <1>8, <1>10 DEF ExchangeInv, AskedInv
<1>18. HandledOnce'
    <2>1. /\ Script[q].address = s
          /\ e.reply = "NO_ACTION" <=> Script[q].command \notin DOMAIN ActionList
          /\ e.reply = "WRONG_PAYLOAD_LENGTH" <=>
                /\ Script[q].command \in DOMAIN ActionList
                /\ Script[q].length # ActionList[Script[q].command]
        <3>1. Script[q].address = s /\ r.command = Script[q].command
              /\ r.length = Script[q].length
            BY <1>5, <1>8 DEF Request
        <3>2. GetPayloadLength(s) = r.length
            BY <1>1, <1>5 DEF ExchangeInv, FrameInv, IsWhole
        <3>3. e.reply = reply
            BY <1>4
        <3> QED  BY <1>6, <3>1, <3>2, <3>3
    <2>2. e.by = s
        BY <1>4
    <2> SUFFICES ASSUME NEW x \in QueryId
                 PROVE  /\ Len(did'[x]) <= 1
                        /\ \A i \in DOMAIN did'[x] :
                              /\ did'[x][i].by = Script[x].address
                              /\ did'[x][i].reply = "NO_ACTION" <=>
                                    Script[x].command \notin DOMAIN ActionList
                              /\ did'[x][i].reply = "WRONG_PAYLOAD_LENGTH" <=>
                                    /\ Script[x].command \in DOMAIN ActionList
                                    /\ Script[x].length # ActionList[Script[x].command]
        BY DEF HandledOnce
    <2>3. CASE x = q
        <3>1. Len(did'[x]) = 1 /\ DOMAIN did'[x] = {1} /\ did'[x][1] = e
            BY <1>10, <2>3, AppendToEmpty
        <3> QED  BY <2>1, <2>2, <2>3, <3>1
    <2>4. CASE x # q
        <3>1. did'[x] = did[x]
            BY <1>10, <2>4
        <3> QED  BY <3>1 DEF ExchangeInv, HandledOnce
    <2> QED  BY <2>3, <2>4
<1> QED  BY <1>16, <1>17, <1>18 DEF ExchangeInv

\* As long as a message of the query in progress is under way, its answer may still come.
LEMMA ExchangeIsOnItsWay ==
    ASSUME ExchangeInv, ~IsMessageAvailable(Master), NEW m \in Message, UnderWay(m),
           m.query = asked
    PROVE  OnItsWay
<1> DEFINE slave == Script[asked].address
<1>1. Genuine(m)
    BY DEF ExchangeInv, TokenInv
<1>2. m.flags = "REQUEST" => m.address = slave
    <2>1. Request(asked).address = slave
        BY DEF Request
    <2>2. m.flags = "REQUEST" => m = Request(asked)
        BY <1>1, GenuineKind
    <2> QED  BY <2>1, <2>2
<1>3. m.flags # "REQUEST" => m.address = slave
    BY <1>1, GenuineKind
<1>4. From(m) \in {Master, slave} /\ To(m) \in {Master, slave}
    BY <1>2, <1>3 DEF From, To
<1>5. CASE Leaving(m)
    <2>1. tx[From(m)] # <<>>
        BY <1>5 DEF Leaving
    <2> QED  BY <1>4, <2>1 DEF OnItsWay
<1>6. CASE Arriving(m)
    <2>1. rx[To(m)] # <<>>
        BY <1>6 DEF Arriving
    <2> QED  BY <1>4, <2>1 DEF OnItsWay
<1>7. CASE Arrived(m)
    <2>1. IsMessageAvailable(To(m))
        BY <1>7 DEF Arrived, Holds, Listens
    <2> QED  BY <1>4, <2>1 DEF OnItsWay
<1> QED  BY <1>5, <1>6, <1>7 DEF UnderWay

\* The last answer to a query leaves nothing under way that could be taken for another.
LEMMA VerdictExchange ==
    ASSUME ExchangeInv, FrameInv', TakeAnswer \/ GiveUp PROVE ExchangeInv'
<1>1. /\ UNCHANGED <<tx, rx, interface, did, asked>> /\ Deciding
      /\ queryStatus' # "IN_PROGRESS" /\ overtaken \subseteq overtaken'
      /\ GiveUp => ~IsMessageAvailable(Master) /\ (OnItsWay => asked \in overtaken')
    BY DEF TakeAnswer, GiveUp
<1>2. \A e \in Device : Holds(e)' => Holds(e) /\ interface'[e] = interface[e]
    BY <1>1 DEF Holds, Listens, IsMessageAvailable
<1>3. \A m \in Message : /\ Leaving(m)' <=> Leaving(m)
                         /\ Arriving(m)' <=> Arriving(m)
                         /\ Arrived(m)' => Arrived(m)
    BY <1>1, <1>2, SameTokens
<1>4. SentOnce'
    BY <1>1 DEF ExchangeInv, TokenInv, SentOnce
<1>5. asked \in QueryId /\ QueryId \subseteq Nat
    BY <1>1, RequestType DEF Deciding, ExchangeInv, FrameInv, TypeInv
<1>6. ASSUME NEW n \in Message, UnderWay(n), UnderWay(n)' PROVE Late(n.query)'
    <2>1. InTime(n.query) \/ Late(n.query)
        BY <1>6 DEF ExchangeInv, TokenInv
    <2>2. CASE Late(n.query)
        BY <1>1, <2>2 DEF Late
    <2>3. CASE n.query = asked /\ GiveUp
        <3>1. asked <= asked
            BY <1>5
        <3>2. OnItsWay
            BY <1>1, <1>6, <2>3, ExchangeIsOnItsWay
        <3> QED  BY <1>1, <2>3, <3>1, <3>2 DEF Late
    <2>4. CASE n.query = asked /\ TakeAnswer /\ ~Late(asked)
        <3>1. Master \in Device /\ Holds(Master) /\ IsResponse(Master)
            BY <1>1, <2>4 DEF TakeAnswer, Deciding, Device, Holds, Listens
        <3>2. PICK m \in Message : m = GetHead(Master)
            BY <3>1 DEF ExchangeInv, FrameInv, IsWhole
        <3>3. m.flags # "REQUEST" /\ To(m) = Master /\ Arrived(m)
            BY <3>1, <3>2 DEF IsResponse, To, Arrived
        <3>4. InTime(m.query) \/ Late(m.query)
            BY <3>3 DEF ExchangeInv, TokenInv, UnderWay
        <3>5. m.query = asked
            <4>1. m.query <= asked /\ m.query \in QueryId
                BY <3>3, GenuineKind DEF ExchangeInv, TokenInv, UnderWay, Genuine
            <4>2. \A t \in overtaken : t \in Nat
                BY <1>5 DEF ExchangeInv, FrameInv, TypeInv
            <4>3. ASSUME NEW t \in overtaken, t <= m.query PROVE FALSE
                <5>1. t \in Nat /\ m.query \in Nat /\ asked \in Nat /\ m.query <= asked
                    BY <1>5, <4>1, <4>2
                <5>2. t <= asked
                    BY <4>3, <5>1
                <5> QED  BY <2>4, <5>2 DEF Late
            <4> QED  BY <3>4, <4>3 DEF InTime, Late
        <3>6. n = m
            BY <1>6, <2>4, <3>3, <3>5, OnePerQuery DEF ExchangeInv, UnderWay
        <3>7. ~Leaving(m) /\ ~Arriving(m)
            BY <3>3, ArrivedIsRead DEF ExchangeInv, TokenInv
        <3>8. ~Arrived(m)'
            BY <1>1, <3>3 DEF Arrived, Holds, Listens
        <3> QED  BY <1>3, <1>6, <3>6, <3>7, <3>8 DEF UnderWay
    <2> QED  BY <2>1, <2>2, <2>3, <2>4 DEF InTime
<1>7. TokenInv'
    BY <1>1, <1>3, <1>4, <1>6, TokenStep DEF ExchangeInv
<1>8. AskedInv' /\ HandledOnce'
    BY <1>1 DEF ExchangeInv, AskedInv, HandledOnce
<1> QED  BY <1>7, <1>8 DEF ExchangeInv

LEMMA NextExchange ==
    ASSUME ExchangeInv, FrameInv', [Next]_vars PROVE ExchangeInv'
<1>1. ASSUME did' = did, asked' = asked, queryStatus' = queryStatus, overtaken' = overtaken,
             SentOnce',
             \A m \in Message : Leaving(m)' => Leaving(m),
             \A m \in Message : Arriving(m)' => Arriving(m) \/ (Leaving(m) /\ ~Leaving(m)'),
             \A m \in Message : Arrived(m)' => Arrived(m) \/ Arriving(m)
      PROVE  ExchangeInv'
    <2>1. \A m \in Message :
              UnderWay(m) /\ UnderWay(m)' => (InTime(m.query) \/ Late(m.query))'
        BY <1>1 DEF ExchangeInv, TokenInv, InTime, Late
    <2>2. TokenInv'
        BY <1>1, <2>1, TokenStep DEF ExchangeInv
    <2>3. AskedInv' /\ HandledOnce'
        BY <1>1 DEF ExchangeInv, AskedInv, HandledOnce
    <2> QED  BY <2>2, <2>3 DEF ExchangeInv
<1>2. ASSUME tx' = tx PROVE SentOnce'
    BY <1>2 DEF ExchangeInv, TokenInv, SentOnce
<1>3. CASE DropEcho \/ \E s \in Slave : IgnoreMessage(s)
    <2>1. PICK d \in Device : interface' = Dropped(d)
        BY <1>3 DEF DropEcho, IgnoreMessage, Device
    <2>2. UNCHANGED <<tx, rx, did, queryStatus, asked, overtaken>>
        BY <1>3 DEF DropEcho, IgnoreMessage, master
    <2>3. \A e \in Device : Holds(e)' => Holds(e) /\ interface'[e] = interface[e]
        BY <2>1, <2>2, DropHolds DEF ExchangeInv, FrameInv
    <2> QED  BY <1>1, <1>2, <2>2, <2>3, SameTokens
<1>4. CASE \E s \in Slave : CallAction(s) \/ RefuseRequest(s)
    BY <1>4, SlaveAnswers, AnswersExchange DEF ExchangeInv, FrameInv
<1>5. ASSUME NEW d \in Device, Read(d) PROVE ExchangeInv'
    <2>1. UNCHANGED <<tx, did, queryStatus, asked, overtaken>>
        BY <1>5 DEF Read, master
    <2> QED  BY <1>1, <1>2, <1>5, <2>1, ReadTokens DEF ExchangeInv
<1>6. ASSUME NEW d \in Device, Lose(d) PROVE ExchangeInv'
    <2>1. UNCHANGED <<tx, did, queryStatus, asked, overtaken>>
        BY <1>6 DEF Lose, master
    <2> QED  BY <1>1, <1>2, <1>6, <2>1, LoseTokens DEF ExchangeInv
<1>7. ASSUME NEW d \in Device, Transmit(d) PROVE ExchangeInv'
    <2>1. UNCHANGED <<did, queryStatus, asked, overtaken>>
        BY <1>7 DEF Transmit, master
    <2> QED  BY <1>1, <1>7, <2>1, TransmitTokens DEF ExchangeInv, TokenInv
<1>8. CASE UNCHANGED vars
    <2>1. UNCHANGED <<tx, rx, interface, did, queryStatus, asked, overtaken>>
        BY <1>8 DEF vars, master
    <2>2. \A e \in Device : Holds(e)' => Holds(e) /\ interface'[e] = interface[e]
        BY <2>1 DEF Holds, Listens, IsMessageAvailable
    <2> QED  BY <1>1, <1>2, <2>1, <2>2, SameTokens
<1> QED
    BY <1>3, <1>4, <1>5, <1>6, <1>7, <1>8, QueryExchange, VerdictExchange
    DEF Next, MasterUpdate, SlaveUpdate

LEMMA InitExchange == Init => ExchangeInv
<1> SUFFICES ASSUME Init PROVE ExchangeInv  OBVIOUS
<1>1. FrameInv
    BY InitFrame
<1>2. \A d \in Device : tx[d] = <<>> /\ rx[d] = <<>> /\ ~IsMessageAvailable(d)
    BY DEF Init, IsMessageAvailable
<1>3. \A q \in QueryId : did[q] = <<>>
    BY DEF Init
<1>4. \A m \in Message : ~UnderWay(m)
    BY <1>2, FromTo DEF UnderWay, Leaving, Arriving, Arrived, Holds
<1>5. TokenInv
    BY <1>2, <1>4 DEF TokenInv, SentOnce, UnderWay
<1>6. AskedInv /\ HandledOnce
    <2>1. Len(<<>>) = 0 /\ DOMAIN <<>> = {}
        OBVIOUS
    <2> QED  BY <1>3, <2>1 DEF AskedInv, HandledOnce
<1> QED  BY <1>1, <1>5, <1>6 DEF ExchangeInv

\* The exchange of queries and answers on a bus that keeps up.
THEOREM ExchangeAlways == ASSUME KeepsUp PROVE Spec => []ExchangeInv
<1>1. FrameInv' /\ ExchangeInv /\ [Next]_vars => ExchangeInv'
    BY NextExchange
<1> QED  BY InitExchange, FramesAlways, <1>1, PTL DEF Spec

\* On a bus that keeps up a request is handled once at most, by the slave it is for, and
\* the action runs only if there is one that fits (slave_impl.hpp:78-109).
THEOREM AlwaysHandledOnce == ASSUME KeepsUp PROVE Spec => []HandledOnce
<1>1. ExchangeInv => HandledOnce  BY DEF ExchangeInv
<1> QED  BY <1>1, ExchangeAlways, PTL

\* Whoever has something to send has a message under way.
LEMMA TalkerIsUnderWay ==
    ASSUME ExchangeInv, NEW d \in Device, tx[d] # <<>>
    PROVE  \E m \in Message : Leaving(m) /\ From(m) = d
<1> DEFINE t == tx[d]
           n == Len(t)
<1>1. t \in Seq(Piece) /\ WholeMessages(t)
    BY DEF ExchangeInv, FrameInv, TypeInv
<1>2. n \in Nat /\ n # 0 /\ DOMAIN t = 1 .. n
    BY <1>1, LenNat
<1>3. n \in DOMAIN t /\ n + 1 \notin DOMAIN t /\ t[n] \in Piece
    <2>1. n \in 1 .. n /\ n + 1 \notin 1 .. n
        BY <1>2
    <2> QED  BY <1>1, <1>2, <2>1, ElementOfSeq
<1> HIDE DEF n
<1>4. t[n].part = "Rest"
    BY <1>1, <1>3, RankOfPart DEF WholeMessages
<1>5. t[n].message \in Message /\ t[n] = RestOf(t[n].message)
    BY <1>3, <1>4 DEF Piece, RestOf
<1>6. From(t[n].message) = d
    BY <1>3, <1>4 DEF ExchangeInv, TokenInv, SentOnce
<1> QED  BY <1>3, <1>5, <1>6 DEF Leaving

\* On a bus that keeps up the master and the slaves take turns without arbitration, also
\* after queries that timed out because bytes were lost.  The theorem says nothing from the
\* first query on that timed out while its answer could still come: the late answer may
\* then meet the next request on the bus.
THEOREM OneAlwaysTalks == ASSUME KeepsUp PROVE Spec => []OneTalks
<1>1. ExchangeInv => OneTalks
    <2> SUFFICES ASSUME ExchangeInv, overtaken = {}, NEW d \in Device, NEW e \in Device,
                        tx[d] # <<>>, tx[e] # <<>>
                 PROVE  d = e
        BY DEF OneTalks
    <2>1. PICK m \in Message : Leaving(m) /\ From(m) = d
        BY TalkerIsUnderWay
    <2>2. PICK n \in Message : Leaving(n) /\ From(n) = e
        BY TalkerIsUnderWay
    <2>3. UnderWay(m) /\ UnderWay(n)
        BY <2>1, <2>2 DEF UnderWay
    <2>4. m.query = asked /\ n.query = asked
        BY <2>3 DEF ExchangeInv, TokenInv, InTime, Late
    <2>5. m = n
        BY <2>3, <2>4, OnePerQuery DEF ExchangeInv
    <2> QED  BY <2>1, <2>2, <2>5
<1> QED  BY <1>1, ExchangeAlways, PTL

-----------------------------------------------------------------------------
(* The verdict of the master                                               *)

\* A query whose answer the master may have taken for the last one's.
Candidate(q) == q \in 1 .. asked /\ (q = asked \/ Late(q)) /\ did[q] # <<>>

AnsweredLength(q) == AnswerLength[Script[q].command]

VerdictInv ==
    /\ queryStatus = "SUCCESS" => \E q \in QueryId :
          /\ Candidate(q) /\ did[q][1].reply = "NONE"
          /\ AnsweredLength(q) = Script[asked].responseLength
    /\ queryStatus = "ERROR_PAYLOAD" => \E q \in QueryId :
          /\ Candidate(q) /\ did[q][1].reply = "NONE"
          /\ AnsweredLength(q) # Script[asked].responseLength
    /\ queryStatus = "ERROR_RESPONSE" => \E q \in QueryId :
          Candidate(q) /\ did[q][1].reply \in Error
    /\ queryStatus = "ERROR_RESPONSE" /\ overtaken = {} =>
          GetPayload(Master).reply = did[asked][1].reply
    /\ overtaken = {} /\ queryStatus # "IN_PROGRESS" => rx[Master] = <<>>

LEMMA VerdictInvIsTrue == ASSUME VerdictInv PROVE VerdictIsTrue
    BY DEF VerdictInv, VerdictIsTrue, Candidate, Late, AnsweredLength

\* Unless an answer may come late, nothing is sent until the next query.
LEMMA QuietWithoutQuery ==
    ASSUME ExchangeInv, overtaken = {}, queryStatus # "IN_PROGRESS", NEW d \in Device
    PROVE  tx[d] = <<>>
<1> SUFFICES ASSUME tx[d] # <<>> PROVE FALSE  OBVIOUS
<1>1. PICK m \in Message : Leaving(m)
    BY TalkerIsUnderWay
<1> QED  BY <1>1 DEF ExchangeInv, TokenInv, UnderWay, InTime, Late

\* The verdict stands while nobody changes what was replied, and what the master got.
LEMMA VerdictStands ==
    ASSUME VerdictInv, UNCHANGED <<queryStatus, asked, overtaken>>,
           \A q \in QueryId : did[q] # <<>> => did'[q] = did[q],
           overtaken = {} /\ queryStatus # "IN_PROGRESS" =>
               rx'[Master] = <<>> /\ interface'[Master].buffer = interface[Master].buffer
    PROVE  VerdictInv'
<1>1. \A q \in QueryId : Candidate(q) => Candidate(q)' /\ did'[q] = did[q]
    BY DEF Candidate, Late
<1>2. queryStatus = "ERROR_RESPONSE" /\ overtaken = {} =>
          did[asked] # <<>> /\ asked \in QueryId
    BY DEF VerdictInv, Candidate, Late
<1>3. queryStatus = "ERROR_RESPONSE" /\ overtaken = {} =>
          GetPayload(Master)' = GetPayload(Master) /\ did'[asked] = did[asked]
    BY <1>2 DEF GetPayload
<1>4. queryStatus' = "SUCCESS" => \E q \in QueryId :
          /\ Candidate(q)' /\ did'[q][1].reply = "NONE"
          /\ AnsweredLength(q) = Script[asked'].responseLength
    BY <1>1 DEF VerdictInv
<1>5. queryStatus' = "ERROR_PAYLOAD" => \E q \in QueryId :
          /\ Candidate(q)' /\ did'[q][1].reply = "NONE"
          /\ AnsweredLength(q) # Script[asked'].responseLength
    BY <1>1 DEF VerdictInv
<1>6. queryStatus' = "ERROR_RESPONSE" => \E q \in QueryId :
          Candidate(q)' /\ did'[q][1].reply \in Error
    BY <1>1 DEF VerdictInv
<1>7. queryStatus' = "ERROR_RESPONSE" /\ overtaken' = {} =>
          GetPayload(Master)'.reply = did'[asked'][1].reply
    BY <1>3 DEF VerdictInv
<1>8. overtaken' = {} /\ queryStatus' # "IN_PROGRESS" => rx'[Master] = <<>>
    OBVIOUS
<1> QED  BY <1>4, <1>5, <1>6, <1>7, <1>8 DEF VerdictInv, AnsweredLength

\* The master takes an answer: it is what a slave replied to a candidate.
LEMMA TakeAnswerVerdict ==
    ASSUME ExchangeInv, TakeAnswer PROVE VerdictInv'
<1>1. /\ UNCHANGED <<interface, rx, did, asked, overtaken>>
      /\ rx[Master] = <<>> /\ queryStatus = "IN_PROGRESS"
      /\ IsMessageAvailable(Master) /\ IsResponse(Master)
      /\ queryStatus' =
            IF ~IsAcknowledge(Master) THEN "ERROR_RESPONSE"
            ELSE IF GetPayloadLength(Master) = Script[asked].responseLength
                 THEN "SUCCESS" ELSE "ERROR_PAYLOAD"
    BY DEF TakeAnswer, Deciding
<1>2. Master \in Device /\ Holds(Master)
    BY <1>1 DEF Device, Holds, Listens
<1>3. PICK m \in Message : m = GetHead(Master)
    BY <1>2 DEF ExchangeInv, FrameInv, IsWhole
<1>4. GetPayload(Master) = m /\ GetPayloadLength(Master) = m.length
    BY <1>2, <1>3 DEF ExchangeInv, FrameInv, IsWhole
<1>5. m.flags # "REQUEST" /\ Arrived(m) /\ (IsAcknowledge(Master) <=> m.flags = "ACK")
    BY <1>1, <1>2, <1>3 DEF IsResponse, IsAcknowledge, To, Arrived
<1>6. Genuine(m) /\ (InTime(m.query) \/ Late(m.query))
    BY <1>5 DEF ExchangeInv, TokenInv, UnderWay
<1>7. PICK q \in QueryId : q = m.query
    BY <1>6, GenuineKind
<1>8. m = AnswerTo(Request(q), m.reply) /\ did[q] = <<[by |-> m.address, reply |-> m.reply]>>
    BY <1>5, <1>6, <1>7, GenuineKind
<1>9. did[q] # <<>> /\ did[q][1].reply = m.reply
    BY <1>8
<1>10. Candidate(q) /\ Candidate(q)'
    <2>1. q \in 1 .. asked
        <3>1. q <= asked /\ q \in 1 .. Len(Script) /\ asked \in 0 .. Len(Script)
            BY <1>6, <1>7, RequestType DEF Genuine, ExchangeInv, FrameInv, TypeInv
        <3> QED  BY <3>1
    <2>2. q = asked \/ Late(q)
        BY <1>6, <1>7 DEF InTime
    <2> QED  BY <1>1, <1>9, <2>1, <2>2 DEF Candidate, Late
<1>11. (m.flags = "ACK" <=> m.reply = "NONE") /\ m.reply \in Reply
    BY <1>8, Flags DEF Message, Reply
<1>12. m.reply = "NONE" => m.length = AnsweredLength(q)
    <2>1. Request(q).command = Script[q].command
        BY DEF Request
    <2>2. m.reply = "NONE" =>
             AnswerTo(Request(q), m.reply).length = AnswerLength[Script[q].command]
        BY <2>1 DEF AnswerTo
    <2> QED  BY <1>8, <2>2 DEF AnsweredLength
<1>13. queryStatus' = "SUCCESS" =>
           did'[q][1].reply = "NONE" /\ AnsweredLength(q) = Script[asked'].responseLength
    BY <1>1, <1>4, <1>5, <1>9, <1>11, <1>12
<1>14. queryStatus' = "ERROR_PAYLOAD" =>
           did'[q][1].reply = "NONE" /\ AnsweredLength(q) # Script[asked'].responseLength
    BY <1>1, <1>4, <1>5, <1>9, <1>11, <1>12
<1>15. queryStatus' = "ERROR_RESPONSE" => did'[q][1].reply \in Error
    BY <1>1, <1>5, <1>9, <1>11 DEF Reply
<1>16. overtaken' = {} => GetPayload(Master)'.reply = did'[asked'][1].reply
    <2>1. overtaken = {} => q = asked
        BY <1>10 DEF Candidate, Late
    <2>2. GetPayload(Master)' = m
        BY <1>1, <1>4 DEF GetPayload
    <2> QED  BY <1>1, <1>9, <2>1, <2>2
<1> QED
    BY <1>1, <1>10, <1>13, <1>14, <1>15, <1>16 DEF VerdictInv, AnsweredLength

LEMMA NextVerdict ==
    ASSUME ExchangeInv, VerdictInv, [Next]_vars PROVE VerdictInv'
<1>1. Master \in Device /\ TypeInv
    BY DEF Device, ExchangeInv, FrameInv
<1>2. overtaken = {} /\ queryStatus # "IN_PROGRESS" => rx[Master] = <<>>
    BY DEF VerdictInv
<1>3. CASE Query \/ GiveUp
    <2>1. \/ queryStatus' = "IN_PROGRESS"
          \/ queryStatus' = "ERROR_TIMEOUT" /\ rx'[Master] = <<>>
        BY <1>3 DEF Query, GiveUp, Deciding
    <2> QED  BY <2>1 DEF VerdictInv
<1>4. CASE DropEcho \/ \E s \in Slave : IgnoreMessage(s)
    <2>1. PICK d \in Device : interface' = Dropped(d)
        BY <1>4 DEF DropEcho, IgnoreMessage, Device
    <2>2. UNCHANGED <<rx, did, queryStatus, asked, overtaken>>
        BY <1>4 DEF DropEcho, IgnoreMessage, master
    <2>3. interface'[Master].buffer = interface[Master].buffer
        BY <1>1, <2>1, DroppedElements
    <2> QED  BY <1>2, <2>2, <2>3, VerdictStands
<1>5. CASE \E s \in Slave : CallAction(s) \/ RefuseRequest(s)
    <2>1. PICK s \in Slave, reply \in Reply : Answers(s, reply)
        BY <1>1, <1>5, SlaveAnswers
    <2>2. s \in Device /\ interface' = Dropped(s)
          /\ UNCHANGED <<rx, queryStatus, asked, overtaken>>
        BY <2>1 DEF Answers, Device, master
    <2>3. interface'[Master].buffer = interface[Master].buffer
        BY <1>1, <2>2, DroppedElements
    <2>4. PICK r \in Message : r = GetHead(s)
        BY <1>1, <2>1, HeadOfRequest DEF Answers
    <2>5. r.flags = "REQUEST" /\ r.address = s /\ IsMessageAvailable(s) /\ s # Master
        BY <1>1, <2>1, <2>4, HeadOfRequest, SabAssumption DEF Answers
    <2>6. Arrived(r)
        BY <2>4, <2>5 DEF Arrived, To, Holds, Listens
    <2>7. did[r.query] = <<>>
        BY <2>5, <2>6, GenuineKind DEF ExchangeInv, TokenInv, UnderWay
    <2>8. \A q \in QueryId : did[q] # <<>> => did'[q] = did[q]
        <3>1. did' = [did EXCEPT ![r.query] = Append(@, [by |-> s, reply |-> reply])]
            BY <2>1, <2>4 DEF Answers
        <3>2. DOMAIN did = QueryId
            BY <1>1 DEF TypeInv
        <3> QED  BY <2>7, <3>1, <3>2
    <2> QED  BY <1>2, <2>2, <2>3, <2>8, VerdictStands
<1>6. ASSUME NEW d \in Device, Read(d) \/ Lose(d) PROVE VerdictInv'
    <2>1. UNCHANGED <<did, queryStatus, asked, overtaken>> /\ rx[d] # <<>>
          /\ rx' = [rx EXCEPT ![d] = Tail(rx[d])]
        BY <1>6 DEF Read, Lose, master
    <2>2. d # Master => rx'[Master] = rx[Master]
          /\ interface'[Master].buffer = interface[Master].buffer
        <3>1. d # Master => rx'[Master] = rx[Master]
            BY <1>1, <2>1 DEF TypeInv
        <3>2. d # Master => interface'[Master] = interface[Master]
            BY <1>1, <1>6, ReadElements DEF Lose
        <3> QED  BY <3>1, <3>2
    <2> QED  BY <1>2, <2>1, <2>2, VerdictStands
<1>7. ASSUME NEW d \in Device, Transmit(d) PROVE VerdictInv'
    <2>1. UNCHANGED <<interface, did, queryStatus, asked, overtaken>> /\ tx[d] # <<>>
        BY <1>7 DEF Transmit, master
    <2>2. ~(overtaken = {} /\ queryStatus # "IN_PROGRESS")
        BY <2>1, QuietWithoutQuery
    <2> QED  BY <2>1, <2>2, VerdictStands
<1>8. CASE UNCHANGED vars
    <2>1. UNCHANGED <<rx, interface, did, queryStatus, asked, overtaken>>
        BY <1>8 DEF vars, master
    <2> QED  BY <1>2, <2>1, VerdictStands
<1> QED
    BY <1>3, <1>4, <1>5, <1>6, <1>7, <1>8, TakeAnswerVerdict
    DEF Next, MasterUpdate, SlaveUpdate

\* On a bus that keeps up, what the master says of a query is what its slave did, also after
\* queries that timed out because bytes were lost.  Late answers are excused: from a query
\* on that timed out while its answer could still come, the verdict is on what some slave
\* did since then (master_impl.hpp, update).
THEOREM VerdictIsAlwaysTrue == ASSUME KeepsUp PROVE Spec => []VerdictIsTrue
<1>1. Init => VerdictInv
    <2> SUFFICES ASSUME Init PROVE VerdictInv  OBVIOUS
    <2>1. queryStatus = "ERROR_TIMEOUT" /\ rx[Master] = <<>>
        BY DEF Init, Device
    <2> QED  BY <2>1 DEF VerdictInv
<1>2. ExchangeInv /\ VerdictInv /\ [Next]_vars => VerdictInv'
    BY NextVerdict
<1>3. VerdictInv => VerdictIsTrue
    BY VerdictInvIsTrue
<1> QED  BY <1>1, <1>2, <1>3, ExchangeAlways, PTL DEF Spec
=============================================================================
