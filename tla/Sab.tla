-------------------------------- MODULE Sab --------------------------------
(***************************************************************************)
(* The sensor actor bus (communication/sab): one master asks slaves over a *)
(* half duplex bus that every device hears, a device decodes what it hears *)
(* when its main loop calls update, and the addressed slave answers.       *)
(*                                                                         *)
(* A message travels as three pieces: Start (sync byte and length), Head   *)
(* (address with flags, and command) and Rest (payload and checksum).  The *)
(* checksum is right exactly if the three pieces are of one message.       *)
(***************************************************************************)
EXTENDS Integers, Sequences, SequencesExt, FiniteSets

CONSTANTS
    Slave,             \* the slaves, named by their addresses
    Master,            \* the master, no slave
    Script,            \* the queries of the master's program, in order
    ActionList,        \* command -> length of the payload its action expects
    AnswerLength,      \* command -> length of the payload its action answers with
    maxPayloadLength,
    Echo,              \* TRUE: a device hears its own messages (CAN transceivers)
    KeepsUp,           \* TRUE: a message starts after every device handled the last
    MaxLosses          \* bound: pieces lost in receivers

ASSUME SabAssumption ==
    /\ Master \notin Slave
    /\ Script \in Seq([address : Slave, command : STRING, length : Nat,
                       responseLength : Nat])
    /\ DOMAIN ActionList = DOMAIN AnswerLength
    /\ \A c \in DOMAIN ActionList : ActionList[c] \in Nat /\ AnswerLength[c] \in Nat
    /\ maxPayloadLength \in Nat /\ MaxLosses \in Nat
    /\ Echo \in BOOLEAN /\ KeepsUp \in BOOLEAN

Device == Slave \cup {Master}
QueryId == DOMAIN Script

\* Error codes of NACKs; GENERAL_ERROR is the one a callback sends.
Error == {"GENERAL_ERROR", "NO_ACTION", "WRONG_PAYLOAD_LENGTH", "NO_RESPONSE"}

\* reply is what the first payload byte of an answer says, query the query that the
\* message belongs to; the code does not transmit the latter.
Message ==
    [address : Slave, flags : {"REQUEST", "ACK", "NACK"}, command : STRING,
     length : Nat, reply : Error \cup {"NONE"}, query : QueryId]

Part == {"Start", "Head", "Rest"}
Garbage == [flags |-> "NONE"]

QueryStatus ==
    {"IN_PROGRESS", "SUCCESS", "ERROR_RESPONSE", "ERROR_TIMEOUT", "ERROR_PAYLOAD"}

VARIABLES
    interface,    \* device -> decoder: state, announced message, position, buffer,
                  \* lengthOfReceivedMessage
    tx,           \* device -> pieces in its transmit buffer
    rx,           \* device -> pieces in its receive buffer
    queryStatus,
    asked,        \* number of queries made; the last one counts
    losses,
    did,          \* query -> what slaves replied to it, in order
    overtaken     \* history: queries that timed out before their answer came

master == <<queryStatus, asked, overtaken>>
vars == <<interface, tx, rx, losses, did, master>>

-----------------------------------------------------------------------------
(* The interface.                                                          *)

Pieces(m) == <<[part |-> "Start", message |-> m], [part |-> "Head", message |-> m],
               [part |-> "Rest", message |-> m]>>

Request(q) ==
    [address |-> Script[q].address, flags |-> "REQUEST", command |-> Script[q].command,
     length |-> Script[q].length, reply |-> "NONE", query |-> q]

SendMessage(d, m) == tx' = [tx EXCEPT ![d] = @ \o Pieces(m)]

IsMessageAvailable(d) == interface[d].lengthOfReceivedMessage # 0
GetHead(d) == interface[d].buffer[1]
GetPayload(d) == interface[d].buffer[2]
GetPayloadLength(d) == interface[d].lengthOfReceivedMessage - 3
IsResponse(d) == GetHead(d).flags # "REQUEST"
IsAcknowledge(d) == GetHead(d).flags = "ACK"
Dropped(d) == [interface EXCEPT ![d].lengthOfReceivedMessage = 0]

\* SYNC and LENGTH: a piece that is not a start, or announces too much, is skipped.
Synchronised(i, p) ==
    IF p.part = "Start" /\ p.message.length <= maxPayloadLength
    THEN [i EXCEPT !.state = "DATA", !.announced = p.message, !.position = 0]
    ELSE i

\* Mutant: the length byte is counted as well.
Stored_Bug(i, p) ==
    LET place == <<"Head", "Rest">>[i.position + 1]
        buffer == [i.buffer EXCEPT ![i.position + 1] =
                       IF p.part = place THEN p.message ELSE Garbage]
        crcIsRight == \A k \in 1..2 : buffer[k] = i.announced
    IN  IF i.position = 0
        THEN [i EXCEPT !.buffer = buffer, !.position = 1]
        ELSE [i EXCEPT !.buffer = buffer, !.position = 2, !.state = "SYNC",
                       !.lengthOfReceivedMessage =
                           IF crcIsRight THEN i.announced.length + 4 ELSE @]

\* Mutant: the checksum is not checked.
Stored_Bug2(i, p) ==
    LET place == <<"Head", "Rest">>[i.position + 1]
        buffer == [i.buffer EXCEPT ![i.position + 1] =
                       IF p.part = place THEN p.message ELSE Garbage]
    IN  IF i.position = 0
        THEN [i EXCEPT !.buffer = buffer, !.position = 1]
        ELSE [i EXCEPT !.buffer = buffer, !.position = 2, !.state = "SYNC",
                       !.lengthOfReceivedMessage =
                           i.announced.length + 3]

\* DATA: the piece is stored whatever it is, the last one completes the message.
\* One that is out of place is garbage here.
Stored(i, p) ==
    LET place == <<"Head", "Rest">>[i.position + 1]
        buffer == [i.buffer EXCEPT ![i.position + 1] =
                       IF p.part = place THEN p.message ELSE Garbage]
        crcIsRight == \A k \in 1..2 : buffer[k] = i.announced
    IN  IF i.position = 0
        THEN [i EXCEPT !.buffer = buffer, !.position = 1]
        ELSE [i EXCEPT !.buffer = buffer, !.position = 2, !.state = "SYNC",
                       !.lengthOfReceivedMessage =
                           IF crcIsRight THEN i.announced.length + 3 ELSE @]

\* One turn of the loop in update.
Read(d) ==
    /\ rx[d] # <<>>
    /\ interface' = [interface EXCEPT ![d] =
                         IF @.state = "SYNC" THEN Synchronised(@, Head(rx[d]))
                                             ELSE Stored(@, Head(rx[d]))]
    /\ rx' = [rx EXCEPT ![d] = Tail(@)]
    /\ UNCHANGED <<tx, losses, did, master>>

-----------------------------------------------------------------------------
(* The master.                                                             *)

\* Mutant: a message that was not dropped yet is left in the interface.
Query_Bug ==
    /\ queryStatus # "IN_PROGRESS" /\ asked < Len(Script)
    /\ asked' = asked + 1
    /\ SendMessage(Master, Request(asked + 1))
    /\ queryStatus' = "IN_PROGRESS"
    /\ UNCHANGED <<interface, rx, losses, did, overtaken>>

\* The program makes its next query when the last one is completed.
Query ==
    /\ queryStatus # "IN_PROGRESS" /\ asked < Len(Script)
    /\ asked' = asked + 1
    /\ interface' = Dropped(Master)
    /\ SendMessage(Master, Request(asked + 1))
    /\ queryStatus' = "IN_PROGRESS"
    /\ UNCHANGED <<rx, losses, did, overtaken>>

\* update decides when the interface has read all that was received.
Deciding == rx[Master] = <<>> /\ queryStatus = "IN_PROGRESS"

\* Mutant: an echo is left in the interface.
DropEcho_Bug ==
    /\ Deciding /\ IsMessageAvailable(Master) /\ ~IsResponse(Master)
    /\ UNCHANGED <<interface, tx, rx, losses, did, master>>

\* A message that is not a response is an echo.
DropEcho ==
    /\ Deciding /\ IsMessageAvailable(Master) /\ ~IsResponse(Master)
    /\ interface' = Dropped(Master)
    /\ UNCHANGED <<tx, rx, losses, did, master>>

\* The answer stays in the interface, for getResponse and getErrorCode.
TakeAnswer ==
    /\ Deciding /\ IsMessageAvailable(Master) /\ IsResponse(Master)
    /\ queryStatus' =
          IF ~IsAcknowledge(Master) THEN "ERROR_RESPONSE"
          ELSE IF GetPayloadLength(Master) = Script[asked].responseLength
               THEN "SUCCESS" ELSE "ERROR_PAYLOAD"
    /\ UNCHANGED <<interface, tx, rx, losses, did, asked, overtaken>>

\* The request of the query in progress, or the answer to it, may still come.
OnItsWay ==
    LET slave == Script[asked].address IN
    \/ \E d \in {Master, slave} : tx[d] # <<>> \/ rx[d] # <<>>
    \/ IsMessageAvailable(slave)

\* The timer may have expired by now.
GiveUp ==
    /\ Deciding /\ ~IsMessageAvailable(Master)
    /\ queryStatus' = "ERROR_TIMEOUT"
    /\ overtaken' = IF OnItsWay THEN overtaken \cup {asked} ELSE overtaken
    /\ UNCHANGED <<interface, tx, rx, losses, did, asked>>

MasterUpdate == DropEcho \/ TakeAnswer \/ GiveUp

-----------------------------------------------------------------------------
(* The slaves.                                                             *)

\* s answers the message it handles; currentCommand is taken from it.
Answer(s, flags, length, reply) ==
    LET request == GetHead(s) IN
    /\ SendMessage(s, [address |-> s, flags |-> flags, command |-> request.command,
                       length |-> length, reply |-> reply, query |-> request.query])
    /\ did' = [did EXCEPT ![request.query] = Append(@, [by |-> s, reply |-> reply])]

Acknowledge(s) == Answer(s, "ACK", AnswerLength[GetHead(s).command], "NONE")
Refuse(s, error) == Answer(s, "NACK", 1, error)

IsKnown(s) == GetHead(s).command \in DOMAIN ActionList
Fits(s) == GetPayloadLength(s) = ActionList[GetHead(s).command]

\* Mutant: answers are not told from requests.
Concerns_Bug(s) == rx[s] = <<>> /\ IsMessageAvailable(s) /\ GetHead(s).address = s

\* update handles a request to the own address.
Concerns(s) ==
    /\ rx[s] = <<>> /\ IsMessageAvailable(s)
    /\ ~IsResponse(s) /\ GetHead(s).address = s

\* The callback sends an answer, an error or, by mistake, nothing.
CallAction(s) ==
    /\ Concerns(s) /\ IsKnown(s) /\ Fits(s)
    /\ Acknowledge(s) \/ Refuse(s, "GENERAL_ERROR") \/ Refuse(s, "NO_RESPONSE")
    /\ interface' = Dropped(s)
    /\ UNCHANGED <<rx, losses, master>>

\* Mutant: the message is kept in the interface.
RefuseRequest_Bug(s) ==
    /\ Concerns(s) /\ (IsKnown(s) => ~Fits(s))
    /\ Refuse(s, IF IsKnown(s) THEN "WRONG_PAYLOAD_LENGTH" ELSE "NO_ACTION")
    /\ UNCHANGED <<interface, rx, losses, master>>

RefuseRequest(s) ==
    /\ Concerns(s) /\ (IsKnown(s) => ~Fits(s))
    /\ Refuse(s, IF IsKnown(s) THEN "WRONG_PAYLOAD_LENGTH" ELSE "NO_ACTION")
    /\ interface' = Dropped(s)
    /\ UNCHANGED <<rx, losses, master>>

IgnoreMessage(s) ==
    /\ rx[s] = <<>> /\ IsMessageAvailable(s) /\ ~Concerns(s)
    /\ interface' = Dropped(s)
    /\ UNCHANGED <<tx, rx, losses, did, master>>

SlaveUpdate(s) == CallAction(s) \/ RefuseRequest(s) \/ IgnoreMessage(s)

-----------------------------------------------------------------------------
(* The bus (external).                                                     *)

\* d has sent a part of a message only.
IsSending(d) == tx[d] # <<>> /\ Head(tx[d]).part # "Start"

Handled(d) ==
    /\ rx[d] = <<>>
    /\ IsMessageAvailable(d) => d = Master /\ queryStatus # "IN_PROGRESS"

\* The oldest piece in the transmit buffer of d goes to the others.  A device does
\* not start while another sends.
Transmit(d) ==
    /\ tx[d] # <<>>
    /\ \A e \in Device \ {d} : ~IsSending(e)
    /\ KeepsUp /\ ~IsSending(d) => \A e \in Device : Handled(e)
    /\ tx' = [tx EXCEPT ![d] = Tail(@)]
    /\ rx' = [e \in Device |-> IF e # d \/ Echo THEN Append(rx[e], Head(tx[d])) ELSE rx[e]]
    /\ UNCHANGED <<interface, losses, did, master>>

\* A piece does not get through to the main loop of d.
Lose(d) ==
    /\ rx[d] # <<>> /\ losses < MaxLosses
    /\ rx' = [rx EXCEPT ![d] = Tail(@)]
    /\ losses' = losses + 1
    /\ UNCHANGED <<interface, tx, did, master>>

-----------------------------------------------------------------------------
Init ==
    /\ interface = [d \in Device |->
           [state |-> "SYNC", announced |-> Garbage, position |-> 0,
            buffer |-> <<Garbage, Garbage>>, lengthOfReceivedMessage |-> 0]]
    /\ tx = [d \in Device |-> <<>>]
    /\ rx = [d \in Device |-> <<>>]
    /\ queryStatus = "ERROR_TIMEOUT" /\ asked = 0
    /\ losses = 0
    /\ did = [q \in QueryId |-> <<>>]
    /\ overtaken = {}

Next ==
    \/ Query
    \/ MasterUpdate
    \/ \E s \in Slave : SlaveUpdate(s)
    \/ \E d \in Device : Read(d) \/ Transmit(d) \/ Lose(d)

Spec == Init /\ [][Next]_vars

\* Every main loop goes on, the bus transmits, and the timer expires in the end.
FairSpec ==
    /\ Spec
    /\ WF_vars(MasterUpdate)
    /\ \A s \in Slave : WF_vars(SlaveUpdate(s))
    /\ \A d \in Device : WF_vars(Read(d)) /\ WF_vars(Transmit(d))

-----------------------------------------------------------------------------
(* Properties                                                              *)

Piece == [part : {"Start", "Head", "Rest"}, message : Message]

\* lengthOfReceivedMessage stays within the buffer of maxPayloadLength + 3 bytes.
TypeOK ==
    /\ DOMAIN interface = Device
    /\ \A d \in Device :
          /\ interface[d].state \in {"SYNC", "DATA"}
          /\ interface[d].announced \in Message \cup {Garbage}
          /\ interface[d].position \in 0..2
          /\ interface[d].buffer \in Seq(Message \cup {Garbage})
          /\ interface[d].lengthOfReceivedMessage \in 0 .. maxPayloadLength + 3
    /\ tx \in [Device -> Seq(Piece)] /\ rx \in [Device -> Seq(Piece)]
    /\ queryStatus \in QueryStatus
    /\ asked \in 0 .. Len(Script)
    /\ losses \in 0 .. MaxLosses
    /\ did \in [QueryId -> Seq([by : Slave, reply : Error \cup {"NONE"}])]
    /\ overtaken \subseteq QueryId

\* "Data access is only valid after isMessageAvailable() returns true and before any
\* call of dropMessage() or update()" (interface.hpp:130): what a main loop is about to
\* handle is one message, whose checksum was right, and not a mixture.
HandledIsWhole ==
    \A d \in Device :
        LET waiting == IF d = Master THEN Deciding ELSE rx[d] = <<>> IN
        waiting /\ IsMessageAvailable(d) =>
            /\ GetHead(d) = GetPayload(d) /\ GetHead(d) # Garbage
            /\ GetHead(d).length = GetPayloadLength(d)

\* A request is handled at most once, by the slave it is addressed to, and its action
\* runs only if there is one for its command and payload (slave_impl.hpp:78-109).
HandledOnce ==
    \A q \in QueryId :
        /\ Len(did[q]) <= 1
        /\ \A i \in DOMAIN did[q] :
              LET query == Script[q]  reply == did[q][i].reply IN
              /\ did[q][i].by = query.address
              /\ reply = "NO_ACTION" <=> query.command \notin DOMAIN ActionList
              /\ reply = "WRONG_PAYLOAD_LENGTH" <=>
                    /\ query.command \in DOMAIN ActionList
                    /\ query.length # ActionList[query.command]

\* The verdict of the master on a query is what its slave did, also when bytes are lost
\* and earlier queries have timed out because of that.  Excused are late answers, which
\* the master does not notice, as it compares no addresses (master_impl.hpp:170): from a
\* query that timed out while its answer could still come, each query may get the answer
\* to one of those since then.
VerdictIsTrue ==
    LET candidates == {q \in 1 .. asked :
                         /\ q = asked \/ \E t \in overtaken : t <= q
                         /\ did[q] # <<>>}
        Reply(q) == did[q][1].reply
        AnsweredLength(q) == AnswerLength[Script[q].command]
    IN  /\ queryStatus = "SUCCESS" =>
              \E q \in candidates :
                  Reply(q) = "NONE" /\ AnsweredLength(q) = Script[asked].responseLength
        /\ queryStatus = "ERROR_PAYLOAD" =>
              \E q \in candidates :
                  Reply(q) = "NONE" /\ AnsweredLength(q) # Script[asked].responseLength
        /\ queryStatus = "ERROR_RESPONSE" => \E q \in candidates : Reply(q) \in Error
        /\ queryStatus = "ERROR_RESPONSE" /\ overtaken = {} =>
              GetPayload(Master).reply = Reply(asked)

\* Nobody arbitrates the bus: at most one device has something to send, also after a
\* query that timed out because bytes were lost.  The master may ask again when the timer
\* has expired, so nothing is said from the first query on that timed out while its
\* answer could still come.
OneTalks ==
    overtaken = {} => \A d, e \in Device : tx[d] # <<>> /\ tx[e] # <<>> => d = e

\* A query completes in the end, with an answer or ERROR_TIMEOUT.
QueryCompletes == queryStatus = "IN_PROGRESS" ~> queryStatus # "IN_PROGRESS"
=============================================================================
