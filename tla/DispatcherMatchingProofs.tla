---------------------- MODULE DispatcherMatchingProofs ----------------------
(***************************************************************************)
(* Proofs about Dispatcher: what an entry, a handle or a packet says of    *)
(* the call it carries is true, so an acknowledgement means that the       *)
(* handler ran, and a reply meets the entry of its own message as long as  *)
(* headers tell the calls apart.                                           *)
(***************************************************************************)
EXTENDS DispatcherProofs

-----------------------------------------------------------------------------
(* Honest messages.  M stands for the calls that were made and D for those *)
(* whose handler ran at the destination.                                   *)

Made == Call \ todo
Done == {c \in Call : IsAction(c) /\ Handled(c)}

RequestHeader(c) ==
    MakeHeader("REQUEST", FALSE, Destination[c], Source[c], Identifier[c])

\* A header that goes back to the caller of c, and one that follows the call.
Answers(header, c) ==
    /\ header.destination = Source[c]
    /\ header.source = Destination[c]
    /\ header.packetIdentifier = Identifier[c]
Follows(header, c) ==
    /\ header.destination = Destination[c]
    /\ header.source = Source[c]
    /\ header.packetIdentifier = Identifier[c]

\* The caller and the handler of c live on different boards.
Away(c) == Home[Source[c]] # Home[Destination[c]]

\* In the list of board b: its own calls, and answers its components gave.
HonestEntry(b, M, D) ==
    {e \in Entry :
        /\ e.call \in M /\ ~e.header.isAcknowledge
        /\ IsRequest(e) => /\ e.header = RequestHeader(e.call)
                           /\ Home[Source[e.call]] = b
                           /\ e.type = "Callback" <=> e.call \in WithCallback
        /\ IsResponse(e) => /\ e.call \in D /\ Home[Destination[e.call]] = b
                            /\ Answers(e.header, e.call)
                            /\ e.header.type \in ResponseType
                            /\ e.type = "Default"}

\* Held by the components of b: handles of requests that were delivered.
HonestHandle(b, M, D) ==
    {h \in ResponseHandle :
        /\ h.call \in M \cap D /\ Home[Destination[h.call]] = b
        /\ h.destination = Source[h.call]
        /\ h.component = Destination[h.call]
        /\ h.packetIdentifier = Identifier[h.call]}

\* On the way to board b.
HonestPacket(b, M, D) ==
    {p \in Packet :
        /\ p.call \in M
        /\ IsRequest(p) /\ ~p.header.isAcknowledge
              => p.header = RequestHeader(p.call) /\ Home[Source[p.call]] # b
        /\ IsRequest(p) /\ p.header.isAcknowledge
              => p.call \in D /\ Answers(p.header, p.call) /\ Away(p.call)
        /\ IsResponse(p) /\ ~p.header.isAcknowledge
              => /\ p.call \in D /\ Answers(p.header, p.call)
                 /\ p.header.type \in ResponseType /\ Home[Destination[p.call]] # b
        /\ IsResponse(p) /\ p.header.isAcknowledge
              => /\ p.call \in D /\ Follows(p.header, p.call)
                 /\ p.header.type \in ResponseType /\ Away(p.call)}

ListsHonest ==
    \A b \in Board : /\ entries[b] \in Seq(HonestEntry(b, Made, Done))
                     /\ handles[b] \subseteq HonestHandle(b, Made, Done)
WireHonest == \A b \in Board : wire[b] \in Seq(HonestPacket(b, Made, Done))

Honest == ListsHonest /\ WireHonest

HonestInv == TypeInv /\ Honest

-----------------------------------------------------------------------------
(* What was made and executed stays so.                                    *)

LEMMA HonestGrows ==
    ASSUME NEW M, NEW D, NEW N, NEW F, M \subseteq N, D \subseteq F, NEW b
    PROVE  /\ HonestEntry(b, M, D) \subseteq HonestEntry(b, N, F)
           /\ HonestHandle(b, M, D) \subseteq HonestHandle(b, N, F)
           /\ HonestPacket(b, M, D) \subseteq HonestPacket(b, N, F)
           /\ Seq(HonestEntry(b, M, D)) \subseteq Seq(HonestEntry(b, N, F))
           /\ Seq(HonestPacket(b, M, D)) \subseteq Seq(HonestPacket(b, N, F))
  <1>1. HonestEntry(b, M, D) \subseteq HonestEntry(b, N, F)
    BY DEF HonestEntry
  <1>2. HonestHandle(b, M, D) \subseteq HonestHandle(b, N, F)
    BY DEF HonestHandle
  <1>3. HonestPacket(b, M, D) \subseteq HonestPacket(b, N, F)
    BY DEF HonestPacket
  <1>. QED
    BY <1>1, <1>2, <1>3, SeqMonotonic

Grows == Made \subseteq Made' /\ Done \subseteq Done'

\* Calls are only made once, and handlers only run more often.
LEMMA MoreDone ==
    ASSUME TypeOK, todo' \subseteq todo,
           \/ ran' = ran
           \/ \E b \in Board, c \in Call : ran' = [ran EXCEPT ![b][c] = @ + 1]
    PROVE  Grows
  <1>1. Made \subseteq Made'
    BY DEF Made
  <1>2. Done \subseteq Done'
    <2>. SUFFICES ASSUME NEW d \in Done PROVE d \in Done'
      OBVIOUS
    <2>1. d \in Call /\ Destination[d] \in Component /\ Home[Destination[d]] \in Board
      BY CallAssumption, ComponentAssumption DEF Done, IsAction
    <2>2. /\ ran[Home[Destination[d]]][d] \in Nat
          /\ ran[Home[Destination[d]]][d] > 0
      BY <2>1 DEF Done, Handled, TypeOK
    <2>3. CASE ran' = ran
      BY <2>2, <2>3 DEF Done, Handled
    <2>4. ASSUME NEW b \in Board, NEW c \in Call, ran' = [ran EXCEPT ![b][c] = @ + 1]
          PROVE  d \in Done'
      <3>1. ran'[Home[Destination[d]]][d] \in {ran[Home[Destination[d]]][d],
                                             ran[Home[Destination[d]]][d] + 1}
        BY <2>1, <2>4 DEF TypeOK
      <3>. QED
        BY <2>2, <3>1 DEF Done, Handled
    <2>. QED
      BY <2>3, <2>4
  <1>. QED
    BY <1>1, <1>2 DEF Grows

-----------------------------------------------------------------------------
(* Lists and handles                                                       *)

LEMMA RequestEntryHonest ==
    ASSUME NEW M, NEW D, NEW b, NEW c \in Call, c \in M, Home[Source[c]] = b
    PROVE  RequestEntry(c) \in HonestEntry(b, M, D)
  <1>1. RequestEntry(c) \in Entry
    BY RequestEntryType
  <1>2. /\ RequestEntry(c).call = c /\ RequestEntry(c).header = RequestHeader(c)
        /\ RequestEntry(c).type = "Callback" <=> c \in WithCallback
    BY DEF RequestEntry, MakeEntry, RequestHeader
  <1>3. ~RequestHeader(c).isAcknowledge /\ RequestHeader(c).type = "REQUEST"
    BY DEF RequestHeader, MakeHeader
  <1>. QED
    BY <1>1, <1>2, <1>3 DEF HonestEntry, IsRequest, IsResponse

LEMMA ResponseEntryHonest ==
    ASSUME NEW M, NEW D, NEW b, NEW h \in HonestHandle(b, M, D), NEW t \in ResponseType
    PROVE  ResponseEntry(h, t) \in HonestEntry(b, M, D)
  <1>1. ResponseEntry(h, t) \in Entry
    BY ResponseEntryType DEF HonestHandle
  <1>2. LET e == ResponseEntry(h, t) IN
        /\ e.call = h.call /\ e.type = "Default" /\ ~e.header.isAcknowledge
        /\ e.header.type = t /\ e.header.destination = h.destination
        /\ e.header.source = h.component /\ e.header.packetIdentifier = h.packetIdentifier
    BY DEF ResponseEntry, MakeEntry, MakeHeader
  <1>3. t # "REQUEST"
    BY AnswerAssumption
  <1>. QED
    BY <1>1, <1>2, <1>3 DEF HonestEntry, HonestHandle, Answers, IsRequest, IsResponse

\* User code adds honest entries to an honest list.
LEMMA UserCodeHonestList ==
    ASSUME TypeOK, NEW b \in Board, NEW M, NEW D, NEW N,
           M \subseteq N,
           NEW held \in SUBSET HonestHandle(b, M, D),
           NEW reply \in Replies(held), NEW call \in Calls(b), ToSet(call) \subseteq N,
           NEW s \in Seq(HonestEntry(b, M, D))
    PROVE  AfterUserCode(s, reply, call) \in Seq(HonestEntry(b, N, D))
  <1> DEFINE E == HonestEntry(b, N, D)
             S == held \X ResponseType
             T == {c \in ToSet(call) : Home[Source[c]] = b}
  <1>1. reply \in AtMostOne(S)
    BY DEF Replies
  <1>2. call \in AtMostOne(T)
    <2>1. ASSUME NEW c \in todo, call = <<c>>, Home[Source[c]] = b PROVE call \in AtMostOne(T)
      <3>1. ToSet(call) = {c}
        BY <2>1 DEF ToSet
      <3>. QED
        BY <2>1, <3>1 DEF AtMostOne
    <2>. QED
      BY <2>1 DEF Calls, AtMostOne
  <1>3. \A r \in S : ResponseEntry(r[1], r[2]) \in E
    BY ResponseEntryHonest, HonestGrows
  <1>4. \A c \in T : RequestEntry(c) \in E
    <2>1. \A c \in ToSet(call) : c \in Call
      BY AtMostOneList DEF TypeOK, Calls
    <2>. QED
      BY <2>1, RequestEntryHonest
  <1>5. s \in Seq(E)
    BY HonestGrows
  <1>. HIDE DEF E, S, T
  <1>6. AfterUserCode(s, reply, call) \in Seq(E)
    BY <1>1, <1>2, <1>3, <1>4, <1>5, AfterUserCodeList
  <1>. QED
    BY <1>6 DEF E

LEMMA NoUserCodeHonest ==
    ASSUME HonestInv, NEW b \in Board, NEW s \in Seq(HonestEntry(b, Made, Done)), NEW i,
           NoUserCode(b, s, i), Grows
    PROVE  ListsHonest'
  <1>. SUFFICES ASSUME NEW d \in Board
                PROVE  /\ entries'[d] \in Seq(HonestEntry(d, Made', Done'))
                       /\ handles'[d] \subseteq HonestHandle(d, Made', Done')
    BY DEF ListsHonest
  <1>1. /\ entries[d] \in Seq(HonestEntry(d, Made, Done))
        /\ handles[d] \subseteq HonestHandle(d, Made, Done)
    BY DEF HonestInv, Honest, ListsHonest
  <1>2. entries'[d] = (IF d = b THEN s ELSE entries[d]) /\ handles'[d] = handles[d]
    BY DEF NoUserCode, HonestInv, TypeInv, TypeOK
  <1>. QED
    BY <1>1, <1>2, HonestGrows, ZenonT(30) DEF Grows

LEMMA UserCodeHonest ==
    ASSUME HonestInv, NEW b \in Board, NEW s \in Seq(HonestEntry(b, Made, Done)), NEW i,
           NEW held \in SUBSET HonestHandle(b, Made, Done'),
           NEW reply \in Replies(held), NEW call \in Calls(b),
           UserCode(b, s, i, held, reply, call), Grows
    PROVE  ListsHonest'
  <1>. SUFFICES ASSUME NEW d \in Board
                PROVE  /\ entries'[d] \in Seq(HonestEntry(d, Made', Done'))
                       /\ handles'[d] \subseteq HonestHandle(d, Made', Done')
    BY DEF ListsHonest
  <1>1. /\ entries[d] \in Seq(HonestEntry(d, Made, Done))
        /\ handles[d] \subseteq HonestHandle(d, Made, Done)
    BY DEF HonestInv, Honest, ListsHonest
  <1>2. CASE d # b
    <2>1. entries'[d] = entries[d] /\ handles'[d] = handles[d]
      BY <1>2 DEF UserCode, HonestInv, TypeInv, TypeOK
    <2>. QED
      BY <1>1, <2>1, HonestGrows DEF Grows
  <1>3. CASE d = b
    <2>1. /\ entries'[b] = AfterUserCode(s, reply, call)
          /\ handles'[b] \subseteq held
      BY DEF UserCode, HonestInv, TypeInv, TypeOK
    <2>2. ToSet(call) \subseteq Made' /\ Made \subseteq Made'
      <3>1. \A c \in ToSet(call) : c \in Call
        BY AtMostOneList DEF Calls, HonestInv, TypeInv, TypeOK
      <3>. QED
        BY <3>1 DEF UserCode, Made
    <2>3. s \in Seq(HonestEntry(b, Made, Done'))
      BY HonestGrows DEF Grows
    <2>4. AfterUserCode(s, reply, call) \in Seq(HonestEntry(b, Made', Done'))
      BY <2>2, <2>3, UserCodeHonestList DEF HonestInv, TypeInv
    <2>5. held \subseteq HonestHandle(b, Made', Done')
      BY <2>2, HonestGrows
    <2>. QED
      BY <1>3, <2>1, <2>4, <2>5
  <1>. QED
    BY <1>2, <1>3

\* The handle a delivered request leaves behind.
LEMMA HandleHonest ==
    ASSUME NEW M, NEW D, NEW b, NEW p \in Packet, p.call \in M, p.call \in D,
           p.header = RequestHeader(p.call), p.header.destination # EventAddress,
           DeliversTo(b, p.header)
    PROVE  HandleFor(p) \in HonestHandle(b, M, D)
  <1>1. HandleFor(p) \in ResponseHandle
    BY DEF HandleFor, ResponseHandle, Packet, Header
  <1>2. /\ p.header.source = Source[p.call] /\ p.header.destination = Destination[p.call]
        /\ p.header.packetIdentifier = Identifier[p.call]
    BY DEF RequestHeader, MakeHeader
  <1>3. Home[p.header.destination] = b
    BY DEF DeliversTo
  <1>. QED
    BY <1>1, <1>2, <1>3 DEF HonestHandle, HandleFor

\* A request or an event in transit whose handler runs now.
LEMMA DeliverHonest ==
    ASSUME HonestInv, NEW b \in Board, NEW p \in Packet, p.call \in Made,
           p.header = RequestHeader(p.call),
           NEW s \in Seq(HonestEntry(b, Made, Done)), NEW i, Deliver(b, p, s, i)
    PROVE  /\ Grows /\ ListsHonest'
           /\ DeliversTo(b, p.header) /\ p.header.destination # EventAddress
                 => p.call \in Done' /\ Home[Destination[p.call]] = b
  <1>0. TypeOK /\ p.call \in Call /\ p.header.destination = Destination[p.call]
    BY DEF HonestInv, TypeInv, Packet, RequestHeader, MakeHeader
  <1>1. CASE DeliversTo(b, p.header)
    <2> DEFINE held == IF p.header.destination = EventAddress
                       THEN handles[b] ELSE handles[b] \cup {HandleFor(p)}
    <2>1. PICK reply \in Replies(held), call \in Calls(b) :
             UserCode(b, s, i, held, reply, call)
      BY <1>1 DEF Deliver
    <2>2. ran' = [ran EXCEPT ![b][p.call] = @ + 1]
      BY <1>1 DEF Deliver
    <2>3. Grows
      BY <1>0, <2>1, <2>2, MoreDone DEF UserCode
    <2>4. p.header.destination # EventAddress
             => p.call \in Done' /\ Home[Destination[p.call]] = b
      <3>. SUFFICES ASSUME p.header.destination # EventAddress
                    PROVE  p.call \in Done' /\ Home[Destination[p.call]] = b
        OBVIOUS
      <3>1. Home[Destination[p.call]] = b
        BY <1>0, <1>1 DEF DeliversTo
      <3>2. ran'[b][p.call] = ran[b][p.call] + 1 /\ ran[b][p.call] \in Nat
        BY <1>0, <2>2 DEF TypeOK
      <3>. QED
        BY <1>0, <3>1, <3>2 DEF Done, Handled, IsAction
    <2>5. held \in SUBSET HonestHandle(b, Made, Done')
      <3>1. handles[b] \subseteq HonestHandle(b, Made, Done')
        BY <2>3, HonestGrows DEF HonestInv, Honest, ListsHonest, Grows
      <3>2. p.header.destination # EventAddress
               => HandleFor(p) \in HonestHandle(b, Made, Done')
        BY <1>1, <2>4, HandleHonest
      <3>. QED
        BY <3>1, <3>2
    <2>. HIDE DEF held
    <2>6. ListsHonest'
      BY <2>1, <2>3, <2>5, UserCodeHonest
    <2>. QED
      BY <2>3, <2>4, <2>6
  <1>2. CASE ~DeliversTo(b, p.header)
    <2>1. NoUserCode(b, s, i) /\ ran' = ran
      BY <1>2 DEF Deliver
    <2>2. Grows
      BY <1>0, <2>1, MoreDone DEF NoUserCode
    <2>. QED
      BY <1>2, <2>1, <2>2, NoUserCodeHonest
  <1>. QED
    BY <1>1, <1>2

LEMMA CallBackHonest ==
    ASSUME HonestInv, NEW b \in Board, NEW e, NEW p, NEW s \in Seq(HonestEntry(b, Made, Done)),
           NEW i, CallBack(b, e, p, s, i), ran' = ran
    PROVE  Grows /\ ListsHonest'
  <1>1. PICK reply \in Replies(handles[b]), call \in Calls(b) :
           UserCode(b, s, i, handles[b], reply, call)
    BY DEF CallBack
  <1>2. Grows
    BY <1>1, MoreDone DEF UserCode, HonestInv, TypeInv
  <1>3. handles[b] \in SUBSET HonestHandle(b, Made, Done')
    BY <1>2, HonestGrows DEF HonestInv, Honest, ListsHonest, Grows
  <1>. QED
    BY <1>1, <1>2, <1>3, UserCodeHonest

-----------------------------------------------------------------------------
(* Packets                                                                 *)

LEMMA SentHonest ==
    ASSUME NEW w, \A d \in Board : w[d] \in Seq(HonestPacket(d, Made, Done)),
           NEW b \in Board, NEW q, Grows, wire' = Sent(w, b, q),
           \A d \in Board : d # b => q \in Seq(HonestPacket(d, Made', Done'))
    PROVE  WireHonest'
  <1>. SUFFICES ASSUME NEW d \in Board
                PROVE  wire'[d] \in Seq(HonestPacket(d, Made', Done'))
    BY DEF WireHonest
  <1>1. w[d] \in Seq(HonestPacket(d, Made', Done'))
    BY HonestGrows DEF Grows
  <1>2. wire'[d] = IF d = b THEN w[d] ELSE w[d] \o q
    BY DEF Sent
  <1>. QED
    BY <1>1, <1>2, ConcatProperties

\* An entry of b is sent to the other boards.
LEMMA PacketHonest ==
    ASSUME NEW M, NEW D, NEW b, NEW e \in HonestEntry(b, M, D), NEW d, d # b
    PROVE  PacketOf(e) \in HonestPacket(d, M, D)
  <1>1. PacketOf(e) \in Packet /\ PacketOf(e).header = e.header /\ PacketOf(e).call = e.call
    BY DEF PacketOf, Packet, HonestEntry, Entry
  <1>. QED
    BY <1>1 DEF HonestEntry, HonestPacket, IsRequest, IsResponse

LEMMA SendHonest ==
    ASSUME HonestInv, NEW b \in Board, NEW e \in HonestEntry(b, Made, Done), Send(b, e), Grows
    PROVE  WireHonest'
  <1>1. \A d \in Board : d # b => <<PacketOf(e)>> \in Seq(HonestPacket(d, Made', Done'))
    <2>. SUFFICES ASSUME NEW d \in Board, d # b
                  PROVE  PacketOf(e) \in HonestPacket(d, Made', Done')
      OBVIOUS
    <2>1. PacketOf(e) \in HonestPacket(d, Made, Done)
      BY PacketHonest
    <2>. QED
      BY <2>1, HonestGrows DEF Grows
  <1>. QED
    BY <1>1, SentHonest DEF Send, HonestInv, Honest, WireHonest

\* The acknowledgement of a packet that was delivered to the board of its receiver.
LEMMA AckHonest ==
    ASSUME NEW M, NEW D, NEW b, NEW d, NEW p \in HonestPacket(b, M, D), p.call \in D,
           ~p.header.isAcknowledge, p.header.destination # EventAddress,
           Home[p.header.destination] = b
    PROVE  AckOf(p) \in HonestPacket(d, M, D)
  <1> DEFINE a == AckOf(p)
  <1>1. /\ a.call = p.call /\ a.header.type = p.header.type /\ a.header.isAcknowledge
        /\ a.header.destination = p.header.source
        /\ a.header.source = p.header.destination
        /\ a.header.packetIdentifier = p.header.packetIdentifier
    BY DEF AckOf, MakeHeader
  <1>2. a \in Packet
    BY DEF AckOf, MakeHeader, HonestPacket, Packet, Header
  <1>3. CASE IsRequest(p)
    <2>1. /\ p.header.destination = Destination[p.call]
          /\ p.header.source = Source[p.call]
          /\ p.header.packetIdentifier = Identifier[p.call]
          /\ Home[Source[p.call]] # b
      BY <1>3 DEF HonestPacket, RequestHeader, MakeHeader
    <2>. QED
      BY <1>1, <1>2, <1>3, <2>1 DEF HonestPacket, Answers, Away, IsRequest, IsResponse
  <1>4. CASE IsResponse(p)
    <2>1. Answers(p.header, p.call) /\ Home[Destination[p.call]] # b
          /\ p.header.type \in ResponseType
      BY <1>4 DEF HonestPacket
    <2>. QED
      BY <1>1, <1>2, <1>4, <2>1
         DEF HonestPacket, Answers, Follows, Away, IsRequest, IsResponse
  <1>. QED
    BY <1>3, <1>4 DEF IsRequest, IsResponse

LEMMA DropHonest ==
    ASSUME HonestInv, NEW b \in Board, NEW k \in DOMAIN wire[b], NEW acks, Grows,
           Drop(b, k, acks), ~wire[b][k].header.isAcknowledge \/ ~acks,
           acks => /\ wire[b][k].call \in Done'
                   /\ wire[b][k].header.destination # EventAddress
                   /\ Home[wire[b][k].header.destination] = b
    PROVE  WireHonest'
  <1> DEFINE w == [wire EXCEPT ![b] = RemoveAt(@, k)]
             q == IF acks THEN <<AckOf(wire[b][k])>> ELSE <<>>
  <1>1. wire[b] \in Seq(HonestPacket(b, Made, Done)) /\ k \in 1 .. Len(wire[b])
    BY DEF HonestInv, Honest, WireHonest
  <1>2. RemoveAt(wire[b], k) \in Seq(HonestPacket(b, Made, Done))
    BY <1>1, RemoveAtList
  <1>3. \A d \in Board : w[d] \in Seq(HonestPacket(d, Made, Done))
    BY <1>2 DEF HonestInv, Honest, WireHonest, TypeInv, TypeOK
  <1>4. \A d \in Board : q \in Seq(HonestPacket(d, Made', Done'))
    <2>1. wire[b][k] \in HonestPacket(b, Made', Done')
      BY <1>1, ElementOfSeq, HonestGrows DEF Grows
    <2>2. acks => \A d \in Board : AckOf(wire[b][k]) \in HonestPacket(d, Made', Done')
      BY <2>1, AckHonest
    <2>. QED
      BY <2>2
  <1>5. wire' = Sent(w, b, q)
    BY DEF Drop
  <1>. HIDE DEF w, q
  <1>. QED
    BY <1>3, <1>4, <1>5, SentHonest

-----------------------------------------------------------------------------
(* The steps                                                               *)

\* What every step of a board may rely on.
LEMMA HonestParts ==
    ASSUME HonestInv, NEW b \in Board
    PROVE  /\ TypeInv /\ TypeOK /\ ListsHonest /\ WireHonest
           /\ entries[b] \in Seq(HonestEntry(b, Made, Done))
           /\ handles[b] \in SUBSET HonestHandle(b, Made, Done)
           /\ \A i \in DOMAIN entries[b] :
                 /\ i \in 1 .. Len(entries[b])
                 /\ entries[b][i] \in HonestEntry(b, Made, Done)
                 /\ RemoveAt(entries[b], i) \in Seq(HonestEntry(b, Made, Done))
           /\ \A k \in DOMAIN wire[b] : wire[b][k] \in HonestPacket(b, Made, Done)
  <1>1. /\ entries[b] \in Seq(HonestEntry(b, Made, Done))
        /\ handles[b] \in SUBSET HonestHandle(b, Made, Done)
        /\ wire[b] \in Seq(HonestPacket(b, Made, Done))
    BY DEF HonestInv, Honest, ListsHonest, WireHonest
  <1>2. \A i \in 1 .. Len(entries[b]) :
           /\ entries[b][i] \in HonestEntry(b, Made, Done)
           /\ RemoveAt(entries[b], i) \in Seq(HonestEntry(b, Made, Done))
    BY <1>1, ElementOfSeq, RemoveAtList
  <1>. QED
    BY <1>1, <1>2 DEF HonestInv, Honest, TypeInv

\* A new state or another try of an entry.
LEMMA UpdateHonest ==
    ASSUME NEW M, NEW D, NEW b, NEW s \in Seq(HonestEntry(b, M, D)), NEW i \in 1 .. Len(s)
    PROVE  /\ \A st \in {"WaitForACK", "WaitForResponse"} :
                 [s EXCEPT ![i].state = st] \in Seq(HonestEntry(b, M, D))
           /\ s[i].tries < MaxTries
                 => [s EXCEPT ![i].tries = @ + 1] \in Seq(HonestEntry(b, M, D))
  <1>1. s[i] \in HonestEntry(b, M, D)
    BY ElementOfSeq
  <1>2. ASSUME NEW st \in {"WaitForACK", "WaitForResponse"}
        PROVE  [s EXCEPT ![i].state = st] \in Seq(HonestEntry(b, M, D))
    <2>1. [s[i] EXCEPT !.state = st] \in HonestEntry(b, M, D)
      BY <1>1 DEF HonestEntry, Entry, IsRequest, IsResponse
    <2>. QED
      BY <2>1, ExceptSeq
  <1>3. ASSUME s[i].tries < MaxTries
        PROVE  [s EXCEPT ![i].tries = @ + 1] \in Seq(HonestEntry(b, M, D))
    <2>1. [s[i] EXCEPT !.tries = @ + 1] \in HonestEntry(b, M, D)
      BY <1>1, <1>3 DEF HonestEntry, Entry, IsRequest, IsResponse, MaxTries
    <2>. QED
      BY <2>1, ExceptSeq
  <1>. QED
    BY <1>2, <1>3

LEMMA WorkHonest == ASSUME HonestInv, NEW b \in Board, Work(b) PROVE Honest' /\ Grows
  <1>1. PICK reply \in Replies(handles[b]), call \in Calls(b) :
           UserCode(b, entries[b], 0, handles[b], reply, call)
    BY DEF Work
  <1>2. ran' = ran /\ wire' = wire
    BY DEF Work, network
  <1>3. Grows
    BY <1>1, <1>2, HonestParts, MoreDone DEF UserCode
  <1>4. handles[b] \in SUBSET HonestHandle(b, Made, Done')
    BY <1>3, HonestParts, HonestGrows DEF Grows
  <1>5. ListsHonest'
    BY <1>1, <1>3, <1>4, HonestParts, UserCodeHonest
  <1>6. WireHonest'
    BY <1>2, <1>3, HonestGrows DEF HonestInv, Honest, WireHonest, Grows
  <1>. QED
    BY <1>3, <1>5, <1>6 DEF Honest

\* Steps that neither user code nor the dispatcher's list take part in.
LEMMA QuietHonest ==
    ASSUME HonestInv, UNCHANGED <<entries, handles, todo, ran>>,
           wire' = wire \/ \E b \in Board : Lose(b)
    PROVE  Honest' /\ Grows
  <1>1. Made' = Made /\ Done' = Done
    BY DEF Made, Done, Handled
  <1>2. ListsHonest'
    BY <1>1 DEF HonestInv, Honest, ListsHonest
  <1>3. WireHonest'
    <2>1. CASE wire' = wire
      BY <1>1, <2>1 DEF HonestInv, Honest, WireHonest
    <2>2. ASSUME NEW b \in Board, Lose(b) PROVE WireHonest'
      <3>1. PICK k \in DOMAIN wire[b] : wire' = [wire EXCEPT ![b] = RemoveAt(@, k)]
        BY <2>2 DEF Lose
      <3>2. RemoveAt(wire[b], k) \in Seq(HonestPacket(b, Made, Done))
        BY RemoveAtList DEF HonestInv, Honest, WireHonest
      <3>. QED
        BY <1>1, <3>1, <3>2 DEF HonestInv, Honest, WireHonest, TypeInv, TypeOK
    <2>. QED
      BY <2>1, <2>2
  <1>. QED
    BY <1>1, <1>2, <1>3 DEF Honest, Grows

LEMMA ReceiveRequestHonest ==
    ASSUME HonestInv, NEW b \in Board, NEW k, ReceiveRequest(b, k)
    PROVE  Honest' /\ Grows
  <1> DEFINE p == wire[b][k]
             acks == DeliversTo(b, p.header) /\ p.header.destination # EventAddress
  <1>1. /\ k \in DOMAIN wire[b] /\ IsRequest(p) /\ ~p.header.isAcknowledge
        /\ Deliver(b, p, entries[b], 0) /\ Drop(b, k, acks)
    BY DEF ReceiveRequest, Arrivals
  <1>2. p \in HonestPacket(b, Made, Done)
    BY <1>1, HonestParts
  <1>3. p \in Packet /\ p.call \in Made /\ p.header = RequestHeader(p.call)
    BY <1>1, <1>2 DEF HonestPacket
  <1>4. /\ Grows /\ ListsHonest'
        /\ acks => p.call \in Done' /\ Home[Destination[p.call]] = b
    BY <1>1, <1>3, HonestParts, DeliverHonest
  <1>5. p.header.destination = Destination[p.call]
    BY <1>3 DEF RequestHeader, MakeHeader
  <1>6. acks => p.header.destination # EventAddress /\ Home[p.header.destination] = b
    BY <1>4, <1>5
  <1>. HIDE DEF acks
  <1>7. WireHonest'
    BY <1>1, <1>4, <1>6, DropHonest
  <1>. QED
    BY <1>4, <1>7 DEF Honest

\* The acknowledgement of a reply.
LEMMA AckReplyHonest ==
    ASSUME HonestInv, NEW b \in Board, NEW k, IsReply(b, k), AckReply(b, k), Grows
    PROVE  WireHonest'
  <1> DEFINE p == wire[b][k]
             acks == /\ ~p.header.isAcknowledge /\ p.header.destination # EventAddress
                     /\ IsComponentAvailable(b, p.header.destination)
  <1>1. k \in DOMAIN wire[b] /\ Drop(b, k, acks) /\ (IsResponse(p) \/ p.header.isAcknowledge)
    BY DEF IsReply, AckReply, Arrivals
  <1>2. p \in HonestPacket(b, Made, Done)
    BY <1>1, HonestParts
  <1>3. acks => /\ p.call \in Done' /\ p.header.destination # EventAddress
                /\ Home[p.header.destination] = b
    <2>1. acks => p.call \in Done
      BY <1>1, <1>2 DEF HonestPacket
    <2>. QED
      BY <2>1 DEF IsComponentAvailable, Grows
  <1>4. ~p.header.isAcknowledge \/ ~acks
    OBVIOUS
  <1>. HIDE DEF acks
  <1>. QED
    BY <1>1, <1>3, <1>4, DropHonest

LEMMA ReplyHonest ==
    ASSUME HonestInv, NEW b \in Board, NEW k,
           \/ IgnoreReply(b, k)
           \/ \E i \in DOMAIN entries[b] : \/ ReplyEndsEntry(b, k, i)
                                           \/ ReplyAcknowledges(b, k, i)
                                           \/ ReplyCallsBack(b, k, i)
    PROVE  Honest' /\ Grows
  <1>1. /\ IsReply(b, k) /\ AckReply(b, k) /\ ran' = ran
    BY DEF IgnoreReply, ReplyEndsEntry, ReplyAcknowledges, ReplyCallsBack, history
  <1>2. Grows /\ ListsHonest'
    <2>1. CASE IgnoreReply(b, k)
      <3>1. Made' = Made /\ Done' = Done
        BY <2>1 DEF IgnoreReply, Made, Done, Handled, history
      <3>. QED
        BY <2>1, <3>1 DEF IgnoreReply, HonestInv, Honest, ListsHonest, Grows
    <2>2. ASSUME NEW i \in DOMAIN entries[b], ReplyEndsEntry(b, k, i)
          PROVE  Grows /\ ListsHonest'
      <3>1. NoUserCode(b, RemoveAt(entries[b], i), 0)
        BY <2>2 DEF ReplyEndsEntry
      <3>2. Grows
        BY <1>1, <3>1, HonestParts, MoreDone DEF NoUserCode
      <3>. QED
        BY <3>1, <3>2, HonestParts, NoUserCodeHonest
    <2>3. ASSUME NEW i \in DOMAIN entries[b], ReplyAcknowledges(b, k, i)
          PROVE  Grows /\ ListsHonest'
      <3>1. NoUserCode(b, [entries[b] EXCEPT ![i].state = "WaitForResponse"], 0)
        BY <2>3 DEF ReplyAcknowledges
      <3>2. Grows
        BY <1>1, <3>1, HonestParts, MoreDone DEF NoUserCode
      <3>3. [entries[b] EXCEPT ![i].state = "WaitForResponse"]
               \in Seq(HonestEntry(b, Made, Done))
        BY HonestParts, UpdateHonest
      <3>. QED
        BY <3>1, <3>2, <3>3, NoUserCodeHonest
    <2>4. ASSUME NEW i \in DOMAIN entries[b], ReplyCallsBack(b, k, i)
          PROVE  Grows /\ ListsHonest'
      <3>1. CallBack(b, entries[b][i], wire[b][k], RemoveAt(entries[b], i), 0)
        BY <2>4 DEF ReplyCallsBack
      <3>. QED
        BY <1>1, <3>1, HonestParts, CallBackHonest
    <2>. QED
      BY <2>1, <2>2, <2>3, <2>4
  <1>. QED
    BY <1>1, <1>2, AckReplyHonest DEF Honest

\* The entry under the iterator and its packet.
LEMMA CurrentHonest ==
    ASSUME HonestInv, NEW b \in Board, InPass(b)
    PROVE  /\ entry[b] \in DOMAIN entries[b] /\ entry[b] \in 1 .. Len(entries[b])
           /\ Current(b) = entries[b][entry[b]]
           /\ Current(b) \in HonestEntry(b, Made, Done)
           /\ Without(b) \in Seq(HonestEntry(b, Made, Done))
           /\ PacketOf(Current(b)) \in Packet
           /\ PacketOf(Current(b)).call = Current(b).call
           /\ PacketOf(Current(b)).header = Current(b).header
           /\ Current(b).call \in Made
           /\ IsRequest(Current(b)) => Current(b).header = RequestHeader(Current(b).call)
  <1>1. entry[b] \in 1 .. Len(entries[b]) /\ PacketOf(Current(b)) \in Packet
    BY InPassType, HonestParts
  <1>2. entry[b] \in DOMAIN entries[b]
    BY <1>1, HonestParts
  <1>3. Current(b) \in HonestEntry(b, Made, Done)
    BY <1>2, HonestParts DEF Current
  <1>. QED
    BY <1>1, <1>2, <1>3, HonestParts DEF Current, Without, PacketOf, HonestEntry

\* An entry for all is a request: nobody answers to the event address.
LEMMA EventIsRequest ==
    ASSUME NEW M, NEW D, NEW b, NEW e \in HonestEntry(b, M, D),
           e.header.destination = EventAddress
    PROVE  IsRequest(e)
  <1>1. e.call \in Call
    BY DEF HonestEntry, Entry
  <1>2. Source[e.call] \in Component /\ Component \subseteq 1 .. 255
    BY <1>1, CallAssumption, ComponentAssumption
  <1>3. Source[e.call] # EventAddress
    BY <1>2 DEF EventAddress
  <1>. QED
    BY <1>3 DEF HonestEntry, Answers, IsRequest, IsResponse

LEMMA PassHonest == ASSUME HonestInv, NEW b \in Board, Pass(b) PROVE Honest' /\ Grows
  <1>1. CASE SendEvent(b)
    <2>1. InPass(b) /\ Deliver(b, PacketOf(Current(b)), Without(b), entry[b])
          /\ Send(b, Current(b)) /\ Current(b).header.destination = EventAddress
      BY <1>1 DEF SendEvent, Pending, IsEvent
    <2>2. IsRequest(Current(b))
      BY <2>1, CurrentHonest, EventIsRequest
    <2>3. Grows /\ ListsHonest'
      BY <2>1, <2>2, CurrentHonest, DeliverHonest
    <2>. QED
      BY <2>1, <2>3, CurrentHonest, SendHonest DEF Honest
  <1>2. CASE SendLocalRequest(b)
    <2> DEFINE s == IF Current(b).type = "Callback"
                    THEN [entries[b] EXCEPT ![entry[b]].state = "WaitForResponse"]
                    ELSE Without(b)
    <2>1. InPass(b) /\ Deliver(b, PacketOf(Current(b)), s, entry[b])
          /\ Send(b, Current(b)) /\ IsRequest(Current(b))
      BY <1>2 DEF SendLocalRequest, Pending
    <2>2. s \in Seq(HonestEntry(b, Made, Done))
      BY <2>1, CurrentHonest, HonestParts, UpdateHonest
    <2>. HIDE DEF s
    <2>3. Grows /\ ListsHonest'
      BY <2>1, <2>2, CurrentHonest, DeliverHonest
    <2>. QED
      BY <2>1, <2>3, CurrentHonest, SendHonest DEF Honest
  <1>3. ASSUME NEW i \in DOMAIN entries[b], SendLocalResponse(b, i)
        PROVE  Honest' /\ Grows
    <2> DEFINE rest == RemoveAt(RemoveAt(entries[b], i), entry[b])
    <2>1. /\ InPass(b) /\ Send(b, Current(b)) /\ ran' = ran
          /\ IF entries[b][i].type = "Callback"
             THEN CallBack(b, entries[b][i], PacketOf(Current(b)), rest, entry[b])
             ELSE NoUserCode(b, rest, entry[b]) /\ UNCHANGED got
      BY <1>3 DEF SendLocalResponse, LocalResponse, Pending
    <2>2. rest \in Seq(HonestEntry(b, Made, Done))
      <3>1. i \in entry[b] + 1 .. Len(entries[b])
        BY <1>3 DEF SendLocalResponse, AnsweredBy
      <3>2. /\ RemoveAt(entries[b], i) \in Seq(HonestEntry(b, Made, Done))
            /\ Len(RemoveAt(entries[b], i)) = Len(entries[b]) - 1
        BY HonestParts, RemoveAtList
      <3>3. entry[b] \in 1 .. Len(RemoveAt(entries[b], i))
        BY <2>1, <3>1, <3>2, CurrentHonest
      <3>. QED
        BY <3>2, <3>3, RemoveAtList
    <2>. HIDE DEF rest
    <2>3. Grows /\ ListsHonest'
      <3>1. CASE entries[b][i].type = "Callback"
        BY <2>1, <2>2, <3>1, CallBackHonest
      <3>2. CASE entries[b][i].type # "Callback"
        <4>1. Grows
          BY <2>1, <3>2, HonestParts, MoreDone DEF NoUserCode
        <4>. QED
          BY <2>1, <2>2, <3>2, <4>1, NoUserCodeHonest
      <3>. QED
        BY <3>1, <3>2
    <2>. QED
      BY <2>1, <2>3, CurrentHonest, SendHonest DEF Honest
  <1>4. ASSUME NEW s \in Seq(HonestEntry(b, Made, Done)), NEW i, NoUserCode(b, s, i),
               ran' = ran, InPass(b), Send(b, Current(b)) \/ wire' = wire
        PROVE  Honest' /\ Grows
    <2>1. Grows
      BY <1>4, HonestParts, MoreDone DEF NoUserCode
    <2>2. ListsHonest'
      BY <1>4, <2>1, NoUserCodeHonest
    <2>3. CASE Send(b, Current(b))
      BY <1>4, <2>1, <2>2, <2>3, CurrentHonest, SendHonest DEF Honest
    <2>4. CASE wire' = wire
      BY <2>1, <2>2, <2>4, HonestParts, HonestGrows DEF Honest, WireHonest, Grows
    <2>. QED
      BY <1>4, <2>3, <2>4
  <1>5. CASE SendLocalResponseInVain(b)
    BY <1>4, <1>5, CurrentHonest DEF SendLocalResponseInVain, LocalResponse, Pending
  <1>6. CASE SendRemote(b)
    <2>1. InPass(b)
      BY <1>6 DEF SendRemote, Pending
    <2>2. [entries[b] EXCEPT ![entry[b]].state = "WaitForACK"]
             \in Seq(HonestEntry(b, Made, Done))
      BY <2>1, CurrentHonest, HonestParts, UpdateHonest
    <2>. QED
      BY <1>4, <1>6, <2>1, <2>2 DEF SendRemote
  <1>7. CASE Retransmit(b)
    <2>1. InPass(b) /\ entries[b][entry[b]].tries < MaxTries
      BY <1>7 DEF Retransmit, Expired, Current
    <2>2. [entries[b] EXCEPT ![entry[b]].tries = @ + 1]
             \in Seq(HonestEntry(b, Made, Done))
      BY <2>1, CurrentHonest, HonestParts, UpdateHonest
    <2>. QED
      BY <1>4, <1>7, <2>1, <2>2 DEF Retransmit
  <1>8. CASE GiveUp(b)
    BY <1>4, <1>8, CurrentHonest DEF GiveUp, Expired, network
  <1>9. CASE Skip(b)
    BY <1>4, <1>9, HonestParts DEF Skip, network
  <1>10. CASE EndPass(b)
    BY <1>10, QuietHonest DEF EndPass, network, history
  <1>. QED
    BY <1>1, <1>2, <1>3, <1>5, <1>6, <1>7, <1>8, <1>9, <1>10 DEF Pass

LEMMA HonestStep == ASSUME HonestInv, [Next]_vars PROVE Honest' /\ Grows
  <1>1. CASE UNCHANGED vars
    BY <1>1, QuietHonest DEF vars, network, history
  <1>2. ASSUME NEW b \in Board, StartUpdate(b) \/ EndReceive(b) \/ Lose(b)
        PROVE  Honest' /\ Grows
    BY <1>2, QuietHonest DEF StartUpdate, EndReceive, Lose, network, history
  <1>3. ASSUME NEW b \in Board, NEW k \in DOMAIN wire[b], Receive(b, k)
        PROVE  Honest' /\ Grows
    BY <1>3, ReceiveRequestHonest, ReplyHonest DEF Receive
  <1>. QED
    BY <1>1, <1>2, <1>3, WorkHonest, PassHonest DEF Next

LEMMA HonestInvInit == Init => HonestInv
  <1>. SUFFICES ASSUME Init PROVE HonestInv
    OBVIOUS
  <1>1. ListsHonest
    BY DEF Init, ListsHonest
  <1>2. WireHonest
    BY DEF Init, WireHonest
  <1>. QED
    BY <1>1, <1>2, TypeInvInit DEF HonestInv, Honest

LEMMA HonestInvStep == HonestInv /\ [Next]_vars => HonestInv'
  BY HonestStep, TypeInvStep DEF HonestInv

\* Every entry, handle and packet says the truth about its call.
THEOREM HonestAlways == Spec => []HonestInv
  BY HonestInvInit, HonestInvStep, PTL DEF Spec

\* No acknowledgement of a request is under way before the handler ran at its
\* destination: handleActionCall acknowledges after deliverPacket, and only if
\* that returned OK.
THEOREM AcknowledgedMeansHandled == Spec => []AckMeansHandled
  <1>1. HonestInv => AckMeansHandled
    BY HonestParts DEF AckMeansHandled, HonestPacket, Done
  <1>. QED
    BY <1>1, HonestAlways, PTL

-----------------------------------------------------------------------------
(* Matching replies with entries                                           *)

\* Calls with the same identifier between the same components are the same call.
LEMMA SameCall ==
    ASSUME DistinctCalls, NEW c \in Call, NEW d \in Call, IsAction(c), IsAction(d),
           Identifier[c] = Identifier[d],
           \/ Source[c] = Source[d] /\ Destination[c] = Destination[d]
           \/ Source[c] = Destination[d] /\ Destination[c] = Source[d]
    PROVE  c = d
  BY DEF DistinctCalls

\* A header that fits an entry comes from a component, so it is no event's entry.
LEMMA FitsAction ==
    ASSUME NEW header \in Header, NEW e, HeaderFits(e, header)
    PROVE  e.header.destination # EventAddress
  <1>1. header.source \in Component
    BY DEF Header
  <1>2. header.source \in 1 .. 255
    BY <1>1, ComponentAssumption
  <1>. QED
    BY <1>2 DEF HeaderFits, EventAddress

\* Entry::headerFits compares neither the type nor the acknowledge flag, but the
\* calls are told apart and an entry never meets a message of its own direction.
LEMMA FitsMeansConcerns ==
    ASSUME DistinctCalls, NEW M, NEW D, D \subseteq {x \in Call : IsAction(x)}, NEW b,
           NEW p \in HonestPacket(b, M, D), NEW e \in HonestEntry(b, M, D),
           IsResponse(p) \/ p.header.isAcknowledge, HeaderFits(e, p.header)
    PROVE  Concerns(p, e)
  <1> DEFINE c == e.call
             d == p.call
  <1>1. /\ c \in Call /\ d \in Call /\ d \in D /\ IsAction(d)
        /\ p.header \in Header
    BY DEF HonestEntry, HonestPacket, Entry, Packet, IsRequest, IsResponse
  <1>2. /\ p.header.source = e.header.destination
        /\ p.header.destination = e.header.source
        /\ p.header.packetIdentifier = e.header.packetIdentifier
    BY DEF HeaderFits
  <1>3. e.header.destination # EventAddress
    BY <1>1, FitsAction
  <1>4. CASE IsRequest(e)
    <2>1. Follows(e.header, c) /\ IsAction(c)
      BY <1>3, <1>4 DEF HonestEntry, RequestHeader, MakeHeader, Follows, IsAction
    <2>2. CASE IsResponse(p) /\ p.header.isAcknowledge
      <3>1. Follows(p.header, d) /\ Away(d)
        BY <2>2 DEF HonestPacket
      <3>2. c = d
        BY <1>1, <1>2, <2>1, <3>1, SameCall DEF Follows
      <3>. QED
        BY <1>2, <2>1, <3>1, <3>2 DEF Follows, Away
    <2>3. CASE ~(IsResponse(p) /\ p.header.isAcknowledge)
      <3>1. Answers(p.header, d)
        BY <2>3 DEF HonestPacket, IsRequest, IsResponse
      <3>2. c = d
        BY <1>1, <1>2, <2>1, <3>1, SameCall DEF Follows, Answers
      <3>. QED
        BY <1>4, <2>3, <3>2 DEF Concerns, IsRequest, IsResponse
    <2>. QED
      BY <2>2, <2>3
  <1>5. CASE IsResponse(e)
    <2>1. Answers(e.header, c) /\ IsAction(c) /\ Home[Destination[c]] = b
      BY <1>5 DEF HonestEntry
    <2>2. CASE IsResponse(p) /\ p.header.isAcknowledge
      <3>1. Follows(p.header, d)
        BY <2>2 DEF HonestPacket
      <3>2. c = d
        BY <1>1, <1>2, <2>1, <3>1, SameCall DEF Follows, Answers
      <3>. QED
        BY <1>5, <2>2, <3>2 DEF Concerns
    <2>3. CASE ~(IsResponse(p) /\ p.header.isAcknowledge)
      <3>1. /\ Answers(p.header, d)
            /\ Away(d) \/ Home[Destination[d]] # b
        BY <2>3 DEF HonestPacket, IsRequest, IsResponse
      <3>2. c = d /\ Source[d] = Destination[d]
        BY <1>1, <1>2, <2>1, <3>1, SameCall DEF Answers
      <3>. QED
        BY <2>1, <3>1, <3>2 DEF Away
    <2>. QED
      BY <2>2, <2>3
  <1>. QED
    BY <1>4, <1>5 DEF IsRequest, IsResponse

LEMMA ReplyConcerns ==
    ASSUME DistinctCalls, HonestInv, NEW b \in Board, NEW k, IsReply(b, k),
           NEW i \in DOMAIN entries[b], HeaderFits(entries[b][i], wire[b][k].header)
    PROVE  Concerns(wire[b][k], entries[b][i])
  <1>1. k \in DOMAIN wire[b] /\ (IsResponse(wire[b][k]) \/ wire[b][k].header.isAcknowledge)
    BY DEF IsReply, Arrivals
  <1>2. Done \subseteq {x \in Call : IsAction(x)}
    BY DEF Done
  <1>. QED
    BY <1>1, <1>2, HonestParts, FitsMeansConcerns

\* A received reply is matched with the entry of the very message it replies to,
\* provided that no two calls share the header the search compares.
THEOREM RepliesMeetTheirEntries ==
    ASSUME DistinctCalls PROVE Spec => []ReplyMeetsItsEntry
  <1>1. HonestInv => ReplyMeetsItsEntry
    BY ReplyConcerns DEF ReplyMeetsItsEntry, FirstFit
  <1>. QED
    BY <1>1, HonestAlways, PTL
=============================================================================
