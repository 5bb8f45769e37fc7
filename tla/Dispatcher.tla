----------------------------- MODULE Dispatcher -----------------------------
(***************************************************************************)
(* The message dispatcher of the xpcc component communication              *)
(* (communication/xpcc/dispatcher.{hpp,cpp}) with the Communicator that    *)
(* fills it, the DynamicPostman it delivers through and a backend that     *)
(* carries packets between boards.                                         *)
(*                                                                         *)
(* A board runs one dispatcher in one thread: its main loop lets the       *)
(* components work ("main") and calls Dispatcher::update(), which first    *)
(* handles the received packets ("rx") and then walks once through the     *)
(* list of entries ("pass").  Every action below is one iteration of one   *)
(* of those loops, with all the user code (action handlers, event          *)
(* listeners, response callbacks) that iteration calls.  Boards interleave *)
(* freely and meet only in the packets they exchange.                      *)
(*                                                                         *)
(* A payload is abstracted to the member of Call it belongs to.  The tag   *)
(* "call" of entries, packets and handles is that payload: no guard reads  *)
(* it, the dispatcher decides on headers alone.                            *)
(***************************************************************************)
EXTENDS Integers, Sequences, FiniteSets, SequencesExt

CONSTANTS
    Board,          \* the microcontrollers, each with one Dispatcher
    Component,      \* component identifiers, unique in the network
    Home,           \* Home[c]: the board component c lives on
    Registered,     \* the <<component, action>> pairs with an action handler
    Listens,        \* the <<board, event>> pairs with an event listener
    Call,           \* the action calls and events of one execution
    Source, Destination, Identifier,    \* their header fields
    WithCallback,   \* the calls made with a ResponseCallback
    ResponseType,   \* the kinds of answers the handlers give
    Reorder,        \* the backend may deliver packets out of order
    MaxLosses,      \* bound: packets the backend loses
    MaxTimeouts     \* bound: acknowledge timeouts that expire

EventAddress == 0

ASSUME ComponentAssumption ==
    /\ Component \subseteq 1..255
    /\ Home \in [Component -> Board]
ASSUME PostmanAssumption ==
    /\ Registered \subseteq Component \X (0..255)
    /\ Listens \subseteq Board \X (0..255)
ASSUME CallAssumption ==
    /\ Source \in [Call -> Component]
    /\ Destination \in [Call -> Component \cup {EventAddress}]
    /\ Identifier \in [Call -> 0..255]
    /\ WithCallback \subseteq {c \in Call : Destination[c] # EventAddress}
ASSUME AnswerAssumption == ResponseType \subseteq {"RESPONSE", "NEGATIVE_RESPONSE"}
ASSUME BackendAssumption ==
    Reorder \in BOOLEAN /\ MaxLosses \in Nat /\ MaxTimeouts \in Nat

VARIABLES
    pc,         \* pc[b]: where board b is in its main loop
    entries,    \* entries[b]: Dispatcher::entries, the front first
    entry,      \* entry[b]: the iterator of handleWaitingMessages
    handles,    \* handles[b]: ResponseHandles the components hold
    todo,       \* calls and events not made yet
    wire,       \* wire[b]: packets sent to b and not dropped by it yet
    losses,     \* packets lost so far
    timeouts,   \* timeouts expired so far
    ran,        \* history: ran[b][c], how often b executed the handler for c
    got,        \* history: got[c], the payloads given to the callback of c
    answered,   \* history: calls a response was submitted for
    gaveUp      \* history: <<c, type>> of the entries dropped after 3 tries

loop    == <<pc, entry>>
network == <<wire, losses>>
history == <<ran, got, answered, gaveUp>>
vars    == <<loop, entries, handles, todo, network, timeouts, history>>

\* Mutant: one transmission less.
MaxTries_OneLess == 1

\* dispatcher.cpp:263, an entry whose tries reach this is given up.
MaxTries == 2

-----------------------------------------------------------------------------
(* Data: headers, packets, entries, response handles                       *)

PacketType == {"REQUEST", "RESPONSE", "NEGATIVE_RESPONSE"}

Header == [type : PacketType, isAcknowledge : BOOLEAN,
           destination : Component \cup {EventAddress},
           source : Component, packetIdentifier : 0..255]

Packet == [header : Header, call : Call]

Entry == [type : {"Default", "Callback"}, header : Header, call : Call,
          state : {"TransmissionPending", "WaitForACK", "WaitForResponse"},
          tries : 0..MaxTries]

ResponseHandle == [destination : Component, packetIdentifier : 0..255,
                   component : Component, call : Call]

MakeHeader(type, ack, destination, source, id) ==
    [type |-> type, isAcknowledge |-> ack, destination |-> destination,
     source |-> source, packetIdentifier |-> id]

MakeEntry(type, header, c) ==
    [type |-> type, header |-> header, call |-> c,
     state |-> "TransmissionPending", tries |-> 0]

\* Communicator::callAction and publishEvent
RequestEntry(c) ==
    MakeEntry(IF c \in WithCallback THEN "Callback" ELSE "Default",
              MakeHeader("REQUEST", FALSE, Destination[c], Source[c], Identifier[c]), c)

\* Communicator::sendResponse and sendNegativeResponse
ResponseEntry(h, type) ==
    MakeEntry("Default",
              MakeHeader(type, FALSE, h.destination, h.component, h.packetIdentifier),
              h.call)

\* The handle a postman gives to the action handler of a request.
HandleFor(p) ==
    [destination |-> p.header.source, packetIdentifier |-> p.header.packetIdentifier,
     component |-> p.header.destination, call |-> p.call]

PacketOf(e) == [header |-> e.header, call |-> e.call]

AckOf(p) ==
    [header |-> MakeHeader(p.header.type, TRUE, p.header.source,
                           p.header.destination, p.header.packetIdentifier),
     call |-> p.call]

IsRequest(m) == m.header.type = "REQUEST"
IsResponse(m) == m.header.type # "REQUEST"

\* Mutant: the packet identifier is not compared.
HeaderFits_IgnoresIdentifier(e, header) ==
    /\ header.source = e.header.destination
    /\ header.destination = e.header.source

\* Entry::headerFits: neither the type nor the acknowledge flag is compared.
HeaderFits(e, header) ==
    /\ header.source = e.header.destination
    /\ header.destination = e.header.source
    /\ header.packetIdentifier = e.header.packetIdentifier

\* i is the entry of s that handlePacket stops at.
FirstFit(s, i, header) ==
    HeaderFits(s[i], header) /\ \A j \in 1 .. i - 1 : ~HeaderFits(s[j], header)

NoFit(s, header) == \A i \in 1 .. Len(s) : ~HeaderFits(s[i], header)

-----------------------------------------------------------------------------
(* The postman of a board                                                  *)

\* A component is known to a postman once it has registered an action handler.
IsComponentAvailable(b, c) == \E r \in Registered : r[1] = c /\ Home[c] = b

\* deliverPacket returns OK: it has called the listeners or the handler.
DeliversTo(b, header) ==
    IF header.destination = EventAddress
    THEN <<b, header.packetIdentifier>> \in Listens
    ELSE /\ <<header.destination, header.packetIdentifier>> \in Registered
         /\ Home[header.destination] = b

-----------------------------------------------------------------------------
(* User code.  A handler, listener or callback may answer one of the       *)
(* requests whose handles the board's components hold and may make one     *)
(* call; both go into the list of the board at once.                       *)

AtMostOne(S) == {<<>>} \cup {<<x>> : x \in S}

Replies(held) == AtMostOne(held \X ResponseType)
Calls(b) == AtMostOne({c \in todo : Home[Source[c]] = b})

\* Mutant: responses are appended like requests.
AfterUserCode_AppendsResponses(s, reply, call) ==
    s \o [i \in DOMAIN reply |-> ResponseEntry(reply[i][1], reply[i][2])]
      \o [i \in DOMAIN call |-> RequestEntry(call[i])]

\* addResponse prepends and addMessage appends to the list s.
AfterUserCode(s, reply, call) ==
    [i \in DOMAIN reply |-> ResponseEntry(reply[i][1], reply[i][2])]
        \o s \o [i \in DOMAIN call |-> RequestEntry(call[i])]

\* The list of b becomes s and its iterator i, but for what the user code adds:
\* a linked list keeps the iterator on its node, so a prepended entry shifts i.
UserCode(b, s, i, held, reply, call) ==
    /\ entries' = [entries EXCEPT ![b] = AfterUserCode(s, reply, call)]
    /\ entry' = [entry EXCEPT ![b] = IF i = 0 THEN 0 ELSE i + Len(reply)]
    /\ handles' = [handles EXCEPT ![b] = held \ {r[1] : r \in ToSet(reply)}]
    /\ todo' = todo \ ToSet(call)
    /\ answered' = answered \cup {r[1].call : r \in ToSet(reply)}

NoUserCode(b, s, i) ==
    /\ entries' = [entries EXCEPT ![b] = s]
    /\ entry' = [entry EXCEPT ![b] = i]
    /\ UNCHANGED <<handles, todo, answered>>

\* postman->deliverPacket(p) on board b
Deliver(b, p, s, i) ==
    IF DeliversTo(b, p.header)
    THEN LET held == IF p.header.destination = EventAddress
                     THEN handles[b] ELSE handles[b] \cup {HandleFor(p)}
         IN /\ \E reply \in Replies(held), call \in Calls(b) :
                   UserCode(b, s, i, held, reply, call)
            /\ ran' = [ran EXCEPT ![b][p.call] = @ + 1]
    ELSE NoUserCode(b, s, i) /\ UNCHANGED ran

\* entry->callbackResponse(p) for the request entry e of board b
CallBack(b, e, p, s, i) ==
    /\ \E reply \in Replies(handles[b]), call \in Calls(b) :
           UserCode(b, s, i, handles[b], reply, call)
    /\ got' = [got EXCEPT ![e.call] = Append(@, p.call)]

\* A step of the components outside update(): a call, an event or a late answer.
Work(b) ==
    /\ pc[b] = "main"
    /\ \E reply \in Replies(handles[b]), call \in Calls(b) :
           reply \o call # <<>> /\ UserCode(b, entries[b], 0, handles[b], reply, call)
    /\ UNCHANGED <<pc, network, timeouts, ran, got, gaveUp>>

-----------------------------------------------------------------------------
(* The backend: sendPacket broadcasts to the other boards.                 *)

Sent(w, b, packets) == [d \in Board |-> IF d = b THEN w[d] ELSE w[d] \o packets]

Send(b, e) == wire' = Sent(wire, b, <<PacketOf(e)>>) /\ UNCHANGED losses

\* Packets of board b that getPacketHeader may return next.
Arrivals(b) == {k \in DOMAIN wire[b] : Reorder \/ k = 1}

\* b acknowledges packet k if acks, and drops it.
Drop(b, k, acks) ==
    /\ wire' = Sent([wire EXCEPT ![b] = RemoveAt(@, k)], b,
                    IF acks THEN <<AckOf(wire[b][k])>> ELSE <<>>)
    /\ UNCHANGED losses

Lose(b) ==
    /\ losses < MaxLosses
    /\ losses' = losses + 1
    /\ \E k \in DOMAIN wire[b] : wire' = [wire EXCEPT ![b] = RemoveAt(@, k)]
    /\ UNCHANGED <<loop, entries, handles, todo, timeouts, history>>

-----------------------------------------------------------------------------
(* update(): the receive loop                                              *)

StartUpdate(b) ==
    /\ pc[b] = "main"
    /\ pc' = [pc EXCEPT ![b] = "rx"]
    /\ UNCHANGED <<entries, entry, handles, todo, network, timeouts, history>>

\* Mutant: the result of deliverPacket is not looked at.
ReceiveRequest_AcksAll(b, k) ==
    LET p == wire[b][k] IN
    /\ pc[b] = "rx" /\ k \in Arrivals(b)
    /\ IsRequest(p) /\ ~p.header.isAcknowledge
    /\ Deliver(b, p, entries[b], 0)
    /\ Drop(b, k, p.header.destination # EventAddress)
    /\ UNCHANGED <<pc, timeouts, got, gaveUp>>

\* handleActionCall: the acknowledgement leaves after the handler has run.
ReceiveRequest(b, k) ==
    LET p == wire[b][k] IN
    /\ pc[b] = "rx" /\ k \in Arrivals(b)
    /\ IsRequest(p) /\ ~p.header.isAcknowledge
    /\ Deliver(b, p, entries[b], 0)
    /\ Drop(b, k, DeliversTo(b, p.header) /\ p.header.destination # EventAddress)
    /\ UNCHANGED <<pc, timeouts, got, gaveUp>>

IsReply(b, k) ==
    /\ pc[b] = "rx" /\ k \in Arrivals(b)
    /\ IsResponse(wire[b][k]) \/ wire[b][k].header.isAcknowledge

\* A response is acknowledged whether or not an entry was waiting for it.
AckReply(b, k) ==
    LET p == wire[b][k] IN
    Drop(b, k, ~p.header.isAcknowledge /\ p.header.destination # EventAddress
               /\ IsComponentAvailable(b, p.header.destination))

IgnoreReply(b, k) ==
    /\ IsReply(b, k) /\ NoFit(entries[b], wire[b][k].header)
    /\ AckReply(b, k)
    /\ UNCHANGED <<loop, entries, handles, todo, timeouts, history>>

\* A fitting entry without callback goes, and so does one with a callback when
\* the acknowledgement of a response fits it.
ReplyEndsEntry(b, k, i) ==
    LET p == wire[b][k]  e == entries[b][i] IN
    /\ IsReply(b, k) /\ FirstFit(entries[b], i, p.header)
    /\ e.type = "Default" \/ (IsResponse(p) /\ p.header.isAcknowledge)
    /\ NoUserCode(b, RemoveAt(entries[b], i), 0)
    /\ AckReply(b, k)
    /\ UNCHANGED <<pc, timeouts, ran, got, gaveUp>>

\* Mutant: an acknowledged request with a callback is removed like any other.
ReplyAcknowledges_Removes(b, k, i) ==
    LET p == wire[b][k] IN
    /\ IsReply(b, k) /\ FirstFit(entries[b], i, p.header)
    /\ entries[b][i].type = "Callback" /\ IsRequest(p)
    /\ NoUserCode(b, RemoveAt(entries[b], i), 0)
    /\ AckReply(b, k)
    /\ UNCHANGED <<pc, timeouts, ran, got, gaveUp>>

\* An entry with a callback goes on to wait for the response.
ReplyAcknowledges(b, k, i) ==
    LET p == wire[b][k] IN
    /\ IsReply(b, k) /\ FirstFit(entries[b], i, p.header)
    /\ entries[b][i].type = "Callback" /\ IsRequest(p)
    /\ NoUserCode(b, [entries[b] EXCEPT ![i].state = "WaitForResponse"], 0)
    /\ AckReply(b, k)
    /\ UNCHANGED <<pc, timeouts, ran, got, gaveUp>>

\* Mutant: the entry stays after its callback was called.
ReplyCallsBack_Keeps(b, k, i) ==
    LET p == wire[b][k] IN
    /\ IsReply(b, k) /\ FirstFit(entries[b], i, p.header)
    /\ entries[b][i].type = "Callback" /\ IsResponse(p) /\ ~p.header.isAcknowledge
    /\ CallBack(b, entries[b][i], p, entries[b], 0)
    /\ AckReply(b, k)
    /\ UNCHANGED <<pc, timeouts, ran, gaveUp>>

\* The response ends the entry; its callback runs first.
ReplyCallsBack(b, k, i) ==
    LET p == wire[b][k] IN
    /\ IsReply(b, k) /\ FirstFit(entries[b], i, p.header)
    /\ entries[b][i].type = "Callback" /\ IsResponse(p) /\ ~p.header.isAcknowledge
    /\ CallBack(b, entries[b][i], p, RemoveAt(entries[b], i), 0)
    /\ AckReply(b, k)
    /\ UNCHANGED <<pc, timeouts, ran, gaveUp>>

\* No packet is left; one that is still on the wire may come later.
EndReceive(b) ==
    /\ pc[b] = "rx"
    /\ pc' = [pc EXCEPT ![b] = "pass"]
    /\ entry' = [entry EXCEPT ![b] = 1]
    /\ UNCHANGED <<entries, handles, todo, network, timeouts, history>>

-----------------------------------------------------------------------------
(* update(): handleWaitingMessages.  e is the entry under the iterator.    *)

InPass(b) == pc[b] = "pass" /\ entry[b] <= Len(entries[b])
Current(b) == entries[b][entry[b]]
Pending(b) == InPass(b) /\ Current(b).state = "TransmissionPending"
IsLocal(b) == IsComponentAvailable(b, Current(b).header.destination)
IsEvent(b) == Current(b).header.destination = EventAddress

Without(b) == RemoveAt(entries[b], entry[b])

\* Mutant: the iterator is advanced after the removal as well.
SendEvent_SkipsNext(b) ==
    /\ Pending(b) /\ IsEvent(b)
    /\ Deliver(b, PacketOf(Current(b)), Without(b), entry[b] + 1)
    /\ Send(b, Current(b))
    /\ UNCHANGED <<pc, timeouts, got, gaveUp>>

\* Mutant: the event stays in the list.
SendEvent_Keeps(b) ==
    /\ Pending(b) /\ IsEvent(b)
    /\ Deliver(b, PacketOf(Current(b)), entries[b], entry[b])
    /\ Send(b, Current(b))
    /\ UNCHANGED <<pc, timeouts, got, gaveUp>>

\* The listeners of the own board run, the event is broadcast and forgotten.
SendEvent(b) ==
    /\ Pending(b) /\ IsEvent(b)
    /\ Deliver(b, PacketOf(Current(b)), Without(b), entry[b])
    /\ Send(b, Current(b))
    /\ UNCHANGED <<pc, timeouts, got, gaveUp>>

\* sendMessageToInnerComponent with a REQUEST: an entry with a callback stays.
SendLocalRequest(b) ==
    LET e == Current(b) IN
    /\ Pending(b) /\ ~IsEvent(b) /\ IsLocal(b) /\ IsRequest(e)
    /\ Send(b, e)
    /\ Deliver(b, PacketOf(e),
               IF e.type = "Callback"
               THEN [entries[b] EXCEPT ![entry[b]].state = "WaitForResponse"]
               ELSE Without(b),
               entry[b])
    /\ UNCHANGED <<pc, timeouts, got, gaveUp>>

\* sendMessageToInnerComponent with a response: the request it answers is the
\* first one after it in the list that is no longer pending and fits.
AnsweredBy(b, i) ==
    /\ i \in entry[b] + 1 .. Len(entries[b])
    /\ IsRequest(entries[b][i]) /\ entries[b][i].state # "TransmissionPending"
    /\ HeaderFits(entries[b][i], Current(b).header)

LocalResponse(b) ==
    Pending(b) /\ ~IsEvent(b) /\ IsLocal(b) /\ IsResponse(Current(b))

SendLocalResponse(b, i) ==
    LET rest == RemoveAt(RemoveAt(entries[b], i), entry[b]) IN
    /\ LocalResponse(b)
    /\ AnsweredBy(b, i) /\ \A j \in 1 .. i - 1 : ~AnsweredBy(b, j)
    /\ Send(b, Current(b))
    /\ IF entries[b][i].type = "Callback"
       THEN CallBack(b, entries[b][i], PacketOf(Current(b)), rest, entry[b])
       ELSE NoUserCode(b, rest, entry[b]) /\ UNCHANGED got
    /\ UNCHANGED <<pc, timeouts, ran, gaveUp>>

SendLocalResponseInVain(b) ==
    /\ LocalResponse(b) /\ \A i \in DOMAIN entries[b] : ~AnsweredBy(b, i)
    /\ Send(b, Current(b))
    /\ NoUserCode(b, Without(b), entry[b])
    /\ UNCHANGED <<pc, timeouts, ran, got, gaveUp>>

\* An action or response for another board waits for its acknowledgement.
SendRemote(b) ==
    /\ Pending(b) /\ ~IsEvent(b) /\ ~IsLocal(b)
    /\ Send(b, Current(b))
    /\ NoUserCode(b, [entries[b] EXCEPT ![entry[b]].state = "WaitForACK"], entry[b] + 1)
    /\ UNCHANGED <<pc, timeouts, ran, got, gaveUp>>

\* The acknowledge timeout of the entry has expired.  Packets may take any time,
\* so it may be read as expired whenever the iterator comes by.
Expired(b) ==
    /\ InPass(b) /\ Current(b).state = "WaitForACK"
    /\ timeouts < MaxTimeouts /\ timeouts' = timeouts + 1

\* Mutant: no limit on the tries.
Retransmit_Unlimited(b) ==
    /\ Expired(b)
    /\ Send(b, Current(b))
    /\ NoUserCode(b, [entries[b] EXCEPT ![entry[b]].tries = @ + 1], entry[b] + 1)
    /\ UNCHANGED <<pc, ran, got, gaveUp>>

Retransmit(b) ==
    /\ Expired(b) /\ Current(b).tries < MaxTries
    /\ Send(b, Current(b))
    /\ NoUserCode(b, [entries[b] EXCEPT ![entry[b]].tries = @ + 1], entry[b] + 1)
    /\ UNCHANGED <<pc, ran, got, gaveUp>>

\* Mutant: an entry with the last try used up is neither sent nor given up.
GiveUp_OffByOne(b) ==
    /\ Expired(b) /\ Current(b).tries > MaxTries
    /\ NoUserCode(b, Without(b), entry[b])
    /\ gaveUp' = gaveUp \cup {<<Current(b).call, Current(b).header.type>>}
    /\ UNCHANGED <<pc, network, ran, got>>

GiveUp(b) ==
    /\ Expired(b) /\ Current(b).tries >= MaxTries
    /\ NoUserCode(b, Without(b), entry[b])
    /\ gaveUp' = gaveUp \cup {<<Current(b).call, Current(b).header.type>>}
    /\ UNCHANGED <<pc, network, ran, got>>

\* WaitForACK before the timeout, or WaitForResponse
Skip(b) ==
    /\ InPass(b) /\ Current(b).state # "TransmissionPending"
    /\ NoUserCode(b, entries[b], entry[b] + 1)
    /\ UNCHANGED <<pc, network, timeouts, ran, got, gaveUp>>

EndPass(b) ==
    /\ pc[b] = "pass" /\ entry[b] > Len(entries[b])
    /\ pc' = [pc EXCEPT ![b] = "main"]
    /\ entry' = [entry EXCEPT ![b] = 0]
    /\ UNCHANGED <<entries, handles, todo, network, timeouts, history>>

-----------------------------------------------------------------------------
Receive(b, k) ==
    \/ ReceiveRequest(b, k)
    \/ IgnoreReply(b, k)
    \/ \E i \in DOMAIN entries[b] : \/ ReplyEndsEntry(b, k, i)
                                    \/ ReplyAcknowledges(b, k, i)
                                    \/ ReplyCallsBack(b, k, i)

\* One iteration of the loop of handleWaitingMessages, or its end.
Pass(b) ==
    \/ SendEvent(b)
    \/ SendLocalRequest(b)
    \/ \E i \in DOMAIN entries[b] : SendLocalResponse(b, i)
    \/ SendLocalResponseInVain(b)
    \/ SendRemote(b)
    \/ Retransmit(b)
    \/ GiveUp(b)
    \/ Skip(b)
    \/ EndPass(b)

Init ==
    /\ pc = [b \in Board |-> "main"]
    /\ entries = [b \in Board |-> <<>>]
    /\ entry = [b \in Board |-> 0]
    /\ handles = [b \in Board |-> {}]
    /\ todo = Call
    /\ wire = [b \in Board |-> <<>>]
    /\ losses = 0
    /\ timeouts = 0
    /\ ran = [b \in Board |-> [c \in Call |-> 0]]
    /\ got = [c \in Call |-> <<>>]
    /\ answered = {}
    /\ gaveUp = {}

Next ==
    \E b \in Board :
        \/ Work(b)
        \/ StartUpdate(b)
        \/ \E k \in DOMAIN wire[b] : Receive(b, k)
        \/ EndReceive(b)
        \/ Pass(b)
        \/ Lose(b)

Spec == Init /\ [][Next]_vars

\* The main loop of every board runs for ever and calls update(); the backend
\* hands over a packet it does not lose, in the end; the clock advances, so an
\* entry that is visited again and again is found expired at last.
Fairness ==
    \A b \in Board :
        /\ WF_vars(StartUpdate(b))
        /\ WF_vars(EndReceive(b))
        /\ WF_vars(Pass(b))
        /\ SF_vars(Receive(b, 1))
        /\ SF_vars(Retransmit(b) \/ GiveUp(b))

FairSpec == Spec /\ Fairness

-----------------------------------------------------------------------------
(* Properties                                                              *)

TypeOK ==
    /\ pc \in [Board -> {"main", "rx", "pass"}]
    /\ entries \in [Board -> Seq(Entry)]
    /\ entry \in [Board -> Nat]
    /\ handles \in [Board -> SUBSET ResponseHandle]
    /\ todo \in SUBSET Call
    /\ wire \in [Board -> Seq(Packet)]
    /\ losses \in 0 .. MaxLosses
    /\ timeouts \in 0 .. MaxTimeouts
    /\ ran \in [Board -> [Call -> Nat]]
    /\ got \in [Call -> Seq(Call)]
    /\ answered \in SUBSET Call
    /\ gaveUp \in SUBSET (Call \X PacketType)

\* In the list s no request stands before a response.
InFront(s) ==
    \A i, j \in DOMAIN s : IsRequest(s[i]) /\ IsResponse(s[j]) => j < i

\* Responses are inserted at the front of the list and requests at its end, so
\* the search of sendMessageToInnerComponent may start after the response: a
\* request never stands before a response, whatever user code adds while the
\* list is walked (dispatcher.cpp:195).
ResponsesFirst == \A b \in Board : InFront(entries[b])

\* All that waits for transmission before position i of s is responses.
OnlyResponsesBefore(s, i) ==
    \A j \in DOMAIN s :
        j < i /\ s[j].state = "TransmissionPending" => IsResponse(s[j])

\* One pass of handleWaitingMessages leaves no request or event untransmitted
\* behind the iterator: only responses that user code prepended meanwhile wait
\* for the next pass.
PassLeavesOnlyResponses ==
    \A b \in Board : OnlyResponsesBefore(entries[b], entry[b])

Listed(c, type) ==
    \E b \in Board : \E i \in DOMAIN entries[b] :
        entries[b][i].call = c /\ entries[b][i].header.type = type

Handled(c) == ran[Home[Destination[c]]][c] > 0

IsAction(c) == Destination[c] # EventAddress
CanRun(c) == IsAction(c) /\ <<Destination[c], Identifier[c]>> \in Registered

\* No two calls of an execution have the same identifier between the same two
\* components, in either direction: a hypothesis about the users, for the header
\* is all the dispatcher recognises a message by.
DistinctCalls ==
    \A c, d \in {x \in Call : IsAction(x)} :
        c # d /\ Identifier[c] = Identifier[d]
            => {Source[c], Destination[c]} # {Source[d], Destination[d]}

\* An acknowledged request was executed: no acknowledgement of a request is
\* under way before its handler ran at the destination (dispatcher.cpp:81-90
\* sends it after deliverPacket, and only if that returned OK).
AckMeansHandled ==
    \A b \in Board : \A k \in DOMAIN wire[b] :
        IsRequest(wire[b][k]) /\ wire[b][k].header.isAcknowledge
            => Handled(wire[b][k].call)

\* A call leaves the caller's list only when its handler ran or when three
\* transmissions stayed without acknowledgement.
NoSilentLoss ==
    \A c \in Call \ todo :
        CanRun(c) => \/ Listed(c, "REQUEST")
                     \/ Handled(c)
                     \/ <<c, "REQUEST">> \in gaveUp

\* A callback gets at most one answer, and the one to its own call.
CallbackGetsOwnAnswer ==
    \A c \in Call : got[c] \in {<<>>, <<c>>}

\* An answer that was submitted is not lost while its caller waits: it is listed
\* for transmission, it reached the callback, or one side gave up.
AnswerNotLost ==
    \A c \in answered \cap WithCallback :
        \/ \E t \in ResponseType : Listed(c, t) \/ <<c, t>> \in gaveUp
        \/ <<c, "REQUEST">> \in gaveUp
        \/ got[c] # <<>>

\* Retransmission repeats a handler, but no oftener than a timeout expired and
\* at most three times; without a timeout it runs at most once.
RunsAtMostOncePerTry ==
    \A b \in Board, c \in Call :
        /\ ran[b][c] <= MaxTries + 1
        /\ ran[b][c] <= timeouts + 1

\* An event runs the listeners of each board at most once, and those of its own
\* board once by the time it has left the list.
EventRunsOnce ==
    \A c \in Call : ~IsAction(c) =>
        /\ \A b \in Board : ran[b][c] <= 1
        /\ LET own == Home[Source[c]] IN
           c \notin todo /\ ~Listed(c, "REQUEST") /\ <<own, Identifier[c]>> \in Listens
               => ran[own][c] = 1

\* Entry e is the message that p acknowledges or answers.
Concerns(p, e) ==
    /\ e.call = p.call
    /\ IsResponse(e) <=> (IsResponse(p) /\ p.header.isAcknowledge)

\* A reply is matched only with the entry of the very message it replies to:
\* "Checks if a Response or Acknowledge fits to the Message represented by this
\* Entry" (dispatcher.hpp:129).
ReplyMeetsItsEntry ==
    \A b \in Board : \A k \in DOMAIN wire[b], i \in DOMAIN entries[b] :
        IsReply(b, k) /\ FirstFit(entries[b], i, wire[b][k].header)
            => Concerns(wire[b][k], entries[b][i])

\* A call to a handler is executed although the backend loses two packets: the
\* dispatcher transmits it up to three times.
CallRunsDespiteLosses ==
    \A c \in Call : CanRun(c) => (c \notin todo ~> Handled(c))

\* No entry is transmitted for ever: every call is acknowledged or given up.
EntrySettles ==
    \A c \in Call :
        [](c \notin todo =>
              <>~\E b \in Board : \E i \in DOMAIN entries[b] :
                    /\ entries[b][i].call = c
                    /\ entries[b][i].state # "WaitForResponse")

\* An answer reaches the callback in the end, unless one side gives up.
AnswerArrives ==
    \A c \in WithCallback :
        c \in answered ~> \/ got[c] # <<>>
                          \/ <<c, "REQUEST">> \in gaveUp
                          \/ \E t \in ResponseType : <<c, t>> \in gaveUp
=============================================================================
