-------------------------- MODULE DispatcherProofs --------------------------
(***************************************************************************)
(* Proofs about Dispatcher, for any boards, components, calls and bounds.  *)
(***************************************************************************)
EXTENDS Dispatcher, SequenceTheorems, TLAPS

-----------------------------------------------------------------------------
(* Lists                                                                   *)

\* What remains of a list without its i-th element (LinkedList::remove).
LEMMA RemoveAtList ==
    ASSUME NEW S, NEW s \in Seq(S), NEW i \in 1 .. Len(s)
    PROVE  /\ RemoveAt(s, i) \in Seq(S)
           /\ Len(RemoveAt(s, i)) = Len(s) - 1
           /\ \A j \in 1 .. Len(s) - 1 :
                 RemoveAt(s, i)[j] = IF j < i THEN s[j] ELSE s[j + 1]
  <1> DEFINE f == SubSeq(s, 1, i - 1)
             g == SubSeq(s, i + 1, Len(s))
  <1>1. f \in Seq(S) /\ Len(f) = i - 1 /\ \A j \in 1 .. i - 1 : f[j] = s[j]
    OBVIOUS
  <1>2. /\ g \in Seq(S) /\ Len(g) = Len(s) - i
        /\ \A j \in 1 .. Len(s) - i : g[j] = s[i + j]
    OBVIOUS
  <1>3. RemoveAt(s, i) = f \o g
    BY DEF RemoveAt
  <1>. HIDE DEF f, g
  <1>4. /\ f \o g \in Seq(S) /\ Len(f \o g) = Len(f) + Len(g)
        /\ \A j \in 1 .. Len(f) + Len(g) :
              (f \o g)[j] = IF j <= Len(f) THEN f[j] ELSE g[j - Len(f)]
    BY <1>1, <1>2, ConcatProperties
  <1>5. ASSUME NEW j \in 1 .. Len(s) - 1
        PROVE  RemoveAt(s, i)[j] = IF j < i THEN s[j] ELSE s[j + 1]
    <2>1. CASE j < i
      BY <1>1, <1>2, <1>3, <1>4, <2>1
    <2>2. CASE ~(j < i)
      <3>1. PICK k \in 1 .. Len(s) - i : k = j - (i - 1) /\ i + k = j + 1
        BY <2>2
      <3>2. RemoveAt(s, i)[j] = g[k]
        BY <1>1, <1>2, <1>3, <1>4, <2>2, <3>1
      <3>3. g[k] = s[j + 1]
        BY <1>2, <3>1
      <3>. QED
        BY <2>2, <3>2, <3>3
    <2>. QED
      BY <2>1, <2>2
  <1>. QED
    BY <1>1, <1>2, <1>3, <1>4, <1>5

\* At most one element, as a sequence.
LEMMA AtMostOneList ==
    ASSUME NEW S, NEW q \in AtMostOne(S)
    PROVE  /\ q \in Seq(S) /\ Len(q) \in {0, 1} /\ DOMAIN q = 1 .. Len(q)
           /\ \A x \in ToSet(q) : x \in S
  <1>1. CASE q = <<>>
    BY <1>1 DEF ToSet
  <1>2. ASSUME NEW x \in S, q = <<x>>
        PROVE  /\ q \in Seq(S) /\ Len(q) \in {0, 1} /\ DOMAIN q = 1 .. Len(q)
               /\ \A y \in ToSet(q) : y \in S
    <2>1. q \in Seq(S) /\ Len(q) = 1 /\ DOMAIN q = {1} /\ q[1] = x
      BY <1>2
    <2>. QED
      BY <2>1 DEF ToSet
  <1>. QED
    BY <1>1, <1>2 DEF AtMostOne

\* The list after user code ran: its answers, the list s, its calls.
LEMMA AfterUserCodeList ==
    ASSUME NEW E, NEW S, NEW T, NEW s \in Seq(E),
           NEW reply \in AtMostOne(S), NEW call \in AtMostOne(T),
           \A r \in S : ResponseEntry(r[1], r[2]) \in E,
           \A c \in T : RequestEntry(c) \in E
    PROVE  /\ AfterUserCode(s, reply, call) \in Seq(E)
           /\ Len(reply) \in {0, 1} /\ Len(call) \in {0, 1}
           /\ Len(AfterUserCode(s, reply, call)) = Len(reply) + Len(s) + Len(call)
           /\ \A j \in 1 .. Len(reply) :
                 \E r \in S : AfterUserCode(s, reply, call)[j] = ResponseEntry(r[1], r[2])
           /\ \A j \in Len(reply) + 1 .. Len(reply) + Len(s) :
                 AfterUserCode(s, reply, call)[j] = s[j - Len(reply)]
           /\ \A j \in Len(reply) + Len(s) + 1 .. Len(reply) + Len(s) + Len(call) :
                 \E c \in T : AfterUserCode(s, reply, call)[j] = RequestEntry(c)
  <1> DEFINE front == [i \in DOMAIN reply |-> ResponseEntry(reply[i][1], reply[i][2])]
             back == [i \in DOMAIN call |-> RequestEntry(call[i])]
             both == front \o s
             m == Len(reply)
             n == Len(call)
  <1>1. /\ m \in {0, 1} /\ DOMAIN reply = 1 .. m /\ \A i \in 1 .. m : reply[i] \in S
        /\ n \in {0, 1} /\ DOMAIN call = 1 .. n /\ \A i \in 1 .. n : call[i] \in T
    <2>1. \A i \in 1 .. m : reply[i] \in S
      BY AtMostOneList, ElementOfSeq
    <2>2. \A i \in 1 .. n : call[i] \in T
      BY AtMostOneList, ElementOfSeq
    <2>. QED
      BY <2>1, <2>2, AtMostOneList
  <1>2. front \in Seq(E) /\ Len(front) = m
    BY <1>1
  <1>3. back \in Seq(E) /\ Len(back) = n
    BY <1>1
  <1>4. \A i \in 1 .. m : \E r \in S : front[i] = ResponseEntry(r[1], r[2])
    BY <1>1
  <1>5. \A i \in 1 .. n : \E c \in T : back[i] = RequestEntry(c)
    BY <1>1
  <1>6. AfterUserCode(s, reply, call) = both \o back
    BY DEF AfterUserCode
  <1>. HIDE DEF front, back, m, n
  <1>7. /\ both \in Seq(E) /\ Len(both) = m + Len(s)
        /\ \A j \in 1 .. m + Len(s) :
              both[j] = IF j <= m THEN front[j] ELSE s[j - m]
    BY <1>2, ConcatProperties
  <1>. HIDE DEF both
  <1>8. /\ both \o back \in Seq(E)
        /\ Len(both \o back) = m + Len(s) + n
        /\ \A j \in 1 .. m + Len(s) + n :
              (both \o back)[j] =
                 IF j <= m + Len(s) THEN both[j] ELSE back[j - (m + Len(s))]
    BY <1>3, <1>7, ConcatProperties
  <1>9. \A j \in 1 .. m : \E r \in S :
           AfterUserCode(s, reply, call)[j] = ResponseEntry(r[1], r[2])
    BY <1>1, <1>4, <1>6, <1>7, <1>8
  <1>10. \A j \in m + 1 .. m + Len(s) : AfterUserCode(s, reply, call)[j] = s[j - m]
    BY <1>1, <1>6, <1>7, <1>8
  <1>11. ASSUME NEW j \in m + Len(s) + 1 .. m + Len(s) + n
         PROVE  \E c \in T : AfterUserCode(s, reply, call)[j] = RequestEntry(c)
    <2>0. j \in 1 .. m + Len(s) + n /\ ~(j <= m + Len(s))
      BY <1>1
    <2>1. AfterUserCode(s, reply, call)[j] = back[j - (m + Len(s))]
      BY <1>6, <1>8, <2>0
    <2>2. j - (m + Len(s)) \in 1 .. n
      BY <1>1
    <2>. QED
      BY <1>5, <2>1, <2>2
  <1>. QED
    BY <1>1, <1>6, <1>8, <1>9, <1>10, <1>11 DEF m, n

-----------------------------------------------------------------------------
(* Type correctness                                                        *)

LEMMA RequestEntryType == ASSUME NEW c \in Call PROVE RequestEntry(c) \in Entry
  BY CallAssumption
     DEF RequestEntry, MakeEntry, MakeHeader, Entry, Header, PacketType, MaxTries

LEMMA ResponseEntryType ==
    ASSUME NEW h \in ResponseHandle, NEW t \in ResponseType
    PROVE  ResponseEntry(h, t) \in Entry
  BY AnswerAssumption DEF ResponseEntry, MakeEntry, MakeHeader, Entry, Header,
     PacketType, MaxTries, ResponseHandle

\* The part of TypeOK that user code and the lists of entries concern.
ListsOK(es, it, hs, td, an) ==
    /\ es \in [Board -> Seq(Entry)]
    /\ it \in [Board -> Nat]
    /\ hs \in [Board -> SUBSET ResponseHandle]
    /\ td \in SUBSET Call
    /\ an \in SUBSET Call

\* The iterator of b becomes i, or stays on its node beyond entries put in front.
Moves(b, i) ==
    \E x \in Nat : entry' = [entry EXCEPT ![b] = x] /\ (x = 0 <=> i = 0)

LEMMA NoUserCodeType ==
    ASSUME TypeOK, NEW b \in Board, NEW s \in Seq(Entry), NEW i \in Nat,
           NoUserCode(b, s, i)
    PROVE  /\ ListsOK(entries', entry', handles', todo', answered')
           /\ Moves(b, i)
  BY DEF TypeOK, NoUserCode, ListsOK, Moves

\* What user code adds to a list has the type of a list.
LEMMA UserCodeList ==
    ASSUME TypeOK, NEW b \in Board, NEW s \in Seq(Entry),
           NEW held \in SUBSET ResponseHandle,
           NEW reply \in Replies(held), NEW call \in Calls(b)
    PROVE  /\ AfterUserCode(s, reply, call) \in Seq(Entry)
           /\ Len(reply) \in {0, 1} /\ Len(call) \in {0, 1}
           /\ Len(AfterUserCode(s, reply, call)) = Len(reply) + Len(s) + Len(call)
           /\ \A j \in 1 .. Len(reply) : IsResponse(AfterUserCode(s, reply, call)[j])
           /\ \A j \in Len(reply) + 1 .. Len(reply) + Len(s) :
                 AfterUserCode(s, reply, call)[j] = s[j - Len(reply)]
           /\ \A j \in Len(reply) + Len(s) + 1 .. Len(reply) + Len(s) + Len(call) :
                 /\ IsRequest(AfterUserCode(s, reply, call)[j])
                 /\ \E c \in todo : /\ call = <<c>>
                                   /\ AfterUserCode(s, reply, call)[j] = RequestEntry(c)
  <1> DEFINE S == held \X ResponseType
             T == {c \in todo : call = <<c>>}
  <1>1. reply \in AtMostOne(S) /\ call \in AtMostOne(T)
    BY DEF Replies, Calls, AtMostOne
  <1>2. \A r \in S : /\ ResponseEntry(r[1], r[2]) \in Entry
                     /\ IsResponse(ResponseEntry(r[1], r[2]))
    <2>1. \A r \in S : ResponseEntry(r[1], r[2]) \in Entry
      BY ResponseEntryType
    <2>2. \A r \in S : IsResponse(ResponseEntry(r[1], r[2]))
      BY AnswerAssumption DEF IsResponse, ResponseEntry, MakeEntry, MakeHeader
    <2>. QED
      BY <2>1, <2>2
  <1>3. \A c \in T : RequestEntry(c) \in Entry /\ IsRequest(RequestEntry(c))
    <2>1. \A c \in T : RequestEntry(c) \in Entry
      BY RequestEntryType DEF TypeOK
    <2>2. \A c \in T : IsRequest(RequestEntry(c))
      BY DEF IsRequest, RequestEntry, MakeEntry, MakeHeader
    <2>. QED
      BY <2>1, <2>2
  <1>4. \A c \in T : c \in todo /\ call = <<c>>
    OBVIOUS
  <1>. HIDE DEF S, T
  <1>. QED
    BY <1>1, <1>2, <1>3, <1>4, AfterUserCodeList

LEMMA UserCodeType ==
    ASSUME TypeOK, NEW b \in Board, NEW s \in Seq(Entry), NEW i \in Nat,
           NEW held \in SUBSET ResponseHandle,
           NEW reply \in Replies(held), NEW call \in Calls(b),
           UserCode(b, s, i, held, reply, call)
    PROVE  /\ ListsOK(entries', entry', handles', todo', answered')
           /\ Moves(b, i)
  <1>0. AfterUserCode(s, reply, call) \in Seq(Entry) /\ Len(reply) \in Nat
    BY UserCodeList
  <1>1. entries' \in [Board -> Seq(Entry)] /\ entry' \in [Board -> Nat]
    <2>1. entries' \in [Board -> Seq(Entry)]
      BY <1>0 DEF TypeOK, UserCode
    <2>2. (IF i = 0 THEN 0 ELSE i + Len(reply)) \in Nat
      BY <1>0
    <2>3. entry' \in [Board -> Nat]
      BY <2>2 DEF TypeOK, UserCode
    <2>. QED
      BY <2>1, <2>3
  <1>2. handles' \in [Board -> SUBSET ResponseHandle] /\ todo' \in SUBSET Call
    BY DEF TypeOK, UserCode
  <1>3. \A r \in ToSet(reply) : r[1].call \in Call
    BY AtMostOneList DEF Replies, ResponseHandle
  <1>4. Moves(b, i)
    <2>1. (IF i = 0 THEN 0 ELSE i + Len(reply)) \in Nat
      BY <1>0
    <2>2. (IF i = 0 THEN 0 ELSE i + Len(reply)) = 0 <=> i = 0
      BY <1>0
    <2>. QED
      BY <2>1, <2>2 DEF UserCode, Moves
  <1>. QED
    BY <1>1, <1>2, <1>3, <1>4 DEF TypeOK, UserCode, ListsOK

LEMMA DeliverType ==
    ASSUME TypeOK, NEW b \in Board, NEW p \in Packet, NEW s \in Seq(Entry), NEW i \in Nat,
           Deliver(b, p, s, i)
    PROVE  /\ ListsOK(entries', entry', handles', todo', answered') /\ Moves(b, i)
           /\ ran' \in [Board -> [Call -> Nat]]
  <1>1. CASE DeliversTo(b, p.header)
    <2> DEFINE held == IF p.header.destination = EventAddress
                       THEN handles[b] ELSE handles[b] \cup {HandleFor(p)}
    <2>1. held \in SUBSET ResponseHandle
      BY DEF TypeOK, HandleFor, ResponseHandle, Packet, Header
    <2>2. PICK reply \in Replies(held), call \in Calls(b) :
             UserCode(b, s, i, held, reply, call)
      BY <1>1 DEF Deliver
    <2>3. ran' = [ran EXCEPT ![b][p.call] = @ + 1]
      BY <1>1 DEF Deliver
    <2>. HIDE DEF held
    <2>4. ListsOK(entries', entry', handles', todo', answered') /\ Moves(b, i)
      BY <2>1, <2>2, UserCodeType
    <2>5. ran' \in [Board -> [Call -> Nat]]
      BY <2>3 DEF TypeOK, Packet
    <2>. QED
      BY <2>4, <2>5
  <1>2. CASE ~DeliversTo(b, p.header)
    <2>1. NoUserCode(b, s, i) /\ ran' = ran
      BY <1>2 DEF Deliver
    <2>. QED
      BY <2>1, NoUserCodeType DEF TypeOK
  <1>. QED
    BY <1>1, <1>2

LEMMA CallBackType ==
    ASSUME TypeOK, NEW b \in Board, NEW e \in Entry, NEW p \in Packet,
           NEW s \in Seq(Entry), NEW i \in Nat, CallBack(b, e, p, s, i)
    PROVE  /\ ListsOK(entries', entry', handles', todo', answered') /\ Moves(b, i)
           /\ got' \in [Call -> Seq(Call)]
  <1>1. handles[b] \in SUBSET ResponseHandle
    BY DEF TypeOK
  <1>2. ListsOK(entries', entry', handles', todo', answered') /\ Moves(b, i)
    BY <1>1, UserCodeType DEF CallBack
  <1>3. got' \in [Call -> Seq(Call)]
    BY DEF TypeOK, CallBack, Packet, Entry
  <1>. QED
    BY <1>2, <1>3

\* The part of TypeOK that concerns the packets and the losses.
NetworkOK(w, n) == w \in [Board -> Seq(Packet)] /\ n \in 0 .. MaxLosses

LEMMA SentType ==
    ASSUME NEW w \in [Board -> Seq(Packet)], NEW b \in Board, NEW q \in Seq(Packet)
    PROVE  Sent(w, b, q) \in [Board -> Seq(Packet)]
  BY DEF Sent

LEMMA SendType ==
    ASSUME TypeOK, NEW b \in Board, NEW e \in Entry, Send(b, e)
    PROVE  NetworkOK(wire', losses')
  <1>1. <<PacketOf(e)>> \in Seq(Packet)
    BY DEF PacketOf, Packet, Entry
  <1>. QED
    BY <1>1, SentType DEF TypeOK, Send, NetworkOK

LEMMA DropType ==
    ASSUME TypeOK, NEW b \in Board, NEW k \in DOMAIN wire[b], NEW acks \in BOOLEAN,
           Drop(b, k, acks), acks => wire[b][k].header.destination # EventAddress
    PROVE  NetworkOK(wire', losses')
  <1>1. wire[b] \in Seq(Packet) /\ k \in 1 .. Len(wire[b]) /\ wire[b][k] \in Packet
    BY DEF TypeOK
  <1>2. acks => AckOf(wire[b][k]) \in Packet
    BY <1>1 DEF AckOf, MakeHeader, Packet, Header, PacketType
  <1>3. (IF acks THEN <<AckOf(wire[b][k])>> ELSE <<>>) \in Seq(Packet)
    BY <1>2
  <1>4. [wire EXCEPT ![b] = RemoveAt(@, k)] \in [Board -> Seq(Packet)]
    BY <1>1, RemoveAtList DEF TypeOK
  <1>. QED
    BY <1>3, <1>4, SentType DEF TypeOK, Drop, NetworkOK

\* Changing the state or counting the tries of an entry keeps the list's shape.
LEMMA StateUpdateList ==
    ASSUME NEW s \in Seq(Entry), NEW i \in 1 .. Len(s),
           NEW st \in {"WaitForACK", "WaitForResponse"}
    PROVE  /\ [s EXCEPT ![i].state = st] \in Seq(Entry)
           /\ Len([s EXCEPT ![i].state = st]) = Len(s)
           /\ \A j \in 1 .. Len(s) :
                 /\ [s EXCEPT ![i].state = st][j].header = s[j].header
                 /\ [s EXCEPT ![i].state = st][j].state = IF j = i THEN st ELSE s[j].state
  <1> DEFINE e == [s[i] EXCEPT !.state = st]
  <1>1. s[i] \in Entry
    BY ElementOfSeq
  <1>2. e \in Entry /\ e.header = s[i].header /\ e.state = st
    BY <1>1 DEF Entry
  <1>3. [s EXCEPT ![i].state = st] = [s EXCEPT ![i] = e]
    OBVIOUS
  <1>. HIDE DEF e
  <1>. QED
    BY <1>2, <1>3, ExceptSeq

LEMMA TriesUpdateList ==
    ASSUME NEW s \in Seq(Entry), NEW i \in 1 .. Len(s), s[i].tries < MaxTries
    PROVE  /\ [s EXCEPT ![i].tries = @ + 1] \in Seq(Entry)
           /\ Len([s EXCEPT ![i].tries = @ + 1]) = Len(s)
           /\ \A j \in 1 .. Len(s) :
                 /\ [s EXCEPT ![i].tries = @ + 1][j].header = s[j].header
                 /\ [s EXCEPT ![i].tries = @ + 1][j].state = s[j].state
  <1> DEFINE e == [s[i] EXCEPT !.tries = @ + 1]
  <1>1. s[i] \in Entry
    BY ElementOfSeq
  <1>2. e \in Entry /\ e.header = s[i].header /\ e.state = s[i].state
    BY <1>1 DEF Entry, MaxTries
  <1>3. [s EXCEPT ![i].tries = @ + 1] = [s EXCEPT ![i] = e]
    OBVIOUS
  <1>. HIDE DEF e
  <1>. QED
    BY <1>2, <1>3, ExceptSeq

\* TypeOK from its parts.
RestOK(at, n, r, g, u) ==
    /\ at \in [Board -> {"main", "rx", "pass"}]
    /\ n \in 0 .. MaxTimeouts
    /\ r \in [Board -> [Call -> Nat]]
    /\ g \in [Call -> Seq(Call)]
    /\ u \in SUBSET (Call \X PacketType)

LEMMA TypeParts ==
    TypeOK <=> /\ ListsOK(entries, entry, handles, todo, answered)
               /\ NetworkOK(wire, losses)
               /\ RestOK(pc, timeouts, ran, got, gaveUp)
  BY DEF TypeOK, ListsOK, NetworkOK, RestOK

LEMMA TypePartsNext ==
    ASSUME ListsOK(entries', entry', handles', todo', answered'),
           NetworkOK(wire', losses'),
           RestOK(pc', timeouts', ran', got', gaveUp')
    PROVE  TypeOK'
  BY DEF TypeOK, ListsOK, NetworkOK, RestOK

LEMMA InitType == Init => TypeOK
  BY BackendAssumption DEF Init, TypeOK

\* The packet a receiving board looks at, and what becomes of it.
LEMMA ArrivalType ==
    ASSUME TypeOK, NEW b \in Board, NEW k \in Arrivals(b)
    PROVE  k \in DOMAIN wire[b] /\ wire[b][k] \in Packet
  BY DEF TypeOK, Arrivals

LEMMA AckReplyType ==
    ASSUME TypeOK, NEW b \in Board, NEW k \in Arrivals(b), AckReply(b, k)
    PROVE  NetworkOK(wire', losses')
  <1> DEFINE acks == /\ ~wire[b][k].header.isAcknowledge
                     /\ wire[b][k].header.destination # EventAddress
                     /\ IsComponentAvailable(b, wire[b][k].header.destination)
  <1>1. acks \in BOOLEAN /\ (acks => wire[b][k].header.destination # EventAddress)
    OBVIOUS
  <1>2. Drop(b, k, acks)
    BY DEF AckReply
  <1>. HIDE DEF acks
  <1>. QED
    BY <1>1, <1>2, ArrivalType, DropType

\* The entry under the iterator during a pass.
LEMMA CurrentType ==
    ASSUME TypeOK, NEW b \in Board, InPass(b), entry[b] # 0
    PROVE  /\ entry[b] \in 1 .. Len(entries[b])
           /\ Current(b) \in Entry
           /\ PacketOf(Current(b)) \in Packet
           /\ Without(b) \in Seq(Entry)
  <1>1. entries[b] \in Seq(Entry) /\ entry[b] \in 1 .. Len(entries[b])
    BY DEF TypeOK, InPass
  <1>2. Current(b) \in Entry
    BY <1>1 DEF Current
  <1>3. PacketOf(Current(b)) \in Packet
    BY <1>2 DEF PacketOf, Packet, Entry
  <1>. QED
    BY <1>1, <1>2, <1>3, RemoveAtList DEF Without

-----------------------------------------------------------------------------
\* The iterator exists exactly while the list is walked.
IteratorOK == \A b \in Board : pc[b] = "pass" <=> entry[b] # 0

TypeInv == TypeOK /\ IteratorOK

\* A step that leaves every board where it is in its main loop.
LEMMA IteratorStep ==
    ASSUME TypeInv, NEW b \in Board, NEW i \in Nat, Moves(b, i), pc' = pc,
           i # 0 <=> pc[b] = "pass"
    PROVE  IteratorOK'
  BY DEF TypeInv, TypeOK, IteratorOK, Moves

LEMMA WorkType == ASSUME TypeInv, NEW b \in Board, Work(b) PROVE TypeInv'
  <1>1. handles[b] \in SUBSET ResponseHandle /\ entries[b] \in Seq(Entry)
    BY DEF TypeInv, TypeOK
  <1>2. PICK reply \in Replies(handles[b]), call \in Calls(b) :
           UserCode(b, entries[b], 0, handles[b], reply, call)
    BY DEF Work
  <1>3. ListsOK(entries', entry', handles', todo', answered') /\ Moves(b, 0)
    BY <1>1, <1>2, UserCodeType DEF TypeInv
  <1>4. TypeOK'
    BY <1>3, TypeParts, TypePartsNext DEF TypeInv, Work, network
  <1>5. IteratorOK'
    BY <1>3, IteratorStep DEF Work
  <1>. QED
    BY <1>4, <1>5 DEF TypeInv

LEMMA LoopType ==
    ASSUME TypeInv, NEW b \in Board, StartUpdate(b) \/ EndReceive(b) \/ EndPass(b)
    PROVE  TypeInv'
  <1>1. TypeOK'
    <2>1. pc' \in [Board -> {"main", "rx", "pass"}] /\ entry' \in [Board -> Nat]
      <3>1. CASE StartUpdate(b)
        BY <3>1 DEF TypeInv, TypeOK, StartUpdate
      <3>2. CASE EndReceive(b)
        BY <3>2 DEF TypeInv, TypeOK, EndReceive
      <3>3. CASE EndPass(b)
        BY <3>3 DEF TypeInv, TypeOK, EndPass
      <3>. QED
        BY <3>1, <3>2, <3>3
    <2>2. UNCHANGED <<entries, handles, todo, network, timeouts, history>>
      BY DEF StartUpdate, EndReceive, EndPass
    <2>. QED
      BY <2>1, <2>2 DEF TypeInv, TypeOK, network, history
  <1>2. IteratorOK'
    <2>1. CASE StartUpdate(b)
      BY <2>1 DEF TypeInv, TypeOK, IteratorOK, StartUpdate
    <2>2. CASE EndReceive(b)
      BY <2>2 DEF TypeInv, TypeOK, IteratorOK, EndReceive
    <2>3. CASE EndPass(b)
      BY <2>3 DEF TypeInv, TypeOK, IteratorOK, EndPass
    <2>. QED
      BY <2>1, <2>2, <2>3
  <1>. QED
    BY <1>1, <1>2 DEF TypeInv

LEMMA LoseType == ASSUME TypeInv, NEW b \in Board, Lose(b) PROVE TypeInv'
  <1>1. PICK k \in DOMAIN wire[b] : wire' = [wire EXCEPT ![b] = RemoveAt(@, k)]
    BY DEF Lose
  <1>2. wire' \in [Board -> Seq(Packet)]
    BY <1>1, RemoveAtList DEF TypeInv, TypeOK
  <1>3. losses' \in 0 .. MaxLosses
    BY BackendAssumption DEF Lose, TypeInv, TypeOK
  <1>. QED
    BY <1>2, <1>3 DEF TypeInv, TypeOK, IteratorOK, Lose, loop, history

LEMMA ReceiveRequestType ==
    ASSUME TypeInv, NEW b \in Board, NEW k, ReceiveRequest(b, k)
    PROVE  TypeInv'
  <1> DEFINE p == wire[b][k]
             acks == DeliversTo(b, p.header) /\ p.header.destination # EventAddress
  <1>1. k \in Arrivals(b) /\ p \in Packet /\ entries[b] \in Seq(Entry) /\ k \in DOMAIN wire[b]
    BY ArrivalType DEF ReceiveRequest, TypeInv, TypeOK
  <1>2. Deliver(b, p, entries[b], 0) /\ Drop(b, k, acks)
    BY DEF ReceiveRequest
  <1>3. acks \in BOOLEAN /\ (acks => p.header.destination # EventAddress)
    BY DEF DeliversTo
  <1>4. /\ ListsOK(entries', entry', handles', todo', answered') /\ Moves(b, 0)
        /\ ran' \in [Board -> [Call -> Nat]]
    BY <1>1, <1>2, DeliverType DEF TypeInv
  <1>5. NetworkOK(wire', losses')
    BY <1>1, <1>2, <1>3, DropType DEF TypeInv
  <1>6. TypeOK'
    BY <1>4, <1>5, TypeParts, TypePartsNext DEF TypeInv, ReceiveRequest, RestOK
  <1>7. IteratorOK'
    BY <1>4, IteratorStep DEF ReceiveRequest
  <1>. QED
    BY <1>6, <1>7 DEF TypeInv

\* Replies change the list of a board only in the receive loop.
LEMMA ReplyType ==
    ASSUME TypeInv, NEW b \in Board, NEW k, IsReply(b, k), AckReply(b, k), pc' = pc,
           ListsOK(entries', entry', handles', todo', answered'), Moves(b, 0),
           RestOK(pc', timeouts', ran', got', gaveUp')
    PROVE  TypeInv'
  <1>1. NetworkOK(wire', losses')
    BY AckReplyType DEF IsReply, TypeInv
  <1>2. TypeOK'
    BY <1>1, TypePartsNext
  <1>3. IteratorOK'
    BY IteratorStep DEF IsReply
  <1>. QED
    BY <1>2, <1>3 DEF TypeInv

LEMMA IgnoreReplyType ==
    ASSUME TypeInv, NEW b \in Board, NEW k, IgnoreReply(b, k)
    PROVE  TypeInv'
  <1>1. NetworkOK(wire', losses')
    BY AckReplyType DEF IgnoreReply, IsReply, TypeInv
  <1>. QED
    BY <1>1 DEF TypeInv, TypeOK, IteratorOK, NetworkOK, IgnoreReply, loop, history

LEMMA MatchedReplyType ==
    ASSUME TypeInv, NEW b \in Board, NEW k, NEW i \in DOMAIN entries[b],
           \/ ReplyEndsEntry(b, k, i)
           \/ ReplyAcknowledges(b, k, i)
           \/ ReplyCallsBack(b, k, i)
    PROVE  TypeInv'
  <1>1. /\ TypeOK /\ entries[b] \in Seq(Entry) /\ i \in 1 .. Len(entries[b])
        /\ RemoveAt(entries[b], i) \in Seq(Entry)
    <2>1. TypeOK /\ entries[b] \in Seq(Entry) /\ i \in 1 .. Len(entries[b])
      BY DEF TypeInv, TypeOK
    <2>. QED
      BY <2>1, RemoveAtList
  <1>2. RestOK(pc, timeouts, ran, got, gaveUp)
    BY <1>1, TypeParts
  <1>3. CASE ReplyEndsEntry(b, k, i)
    <2>1. /\ NoUserCode(b, RemoveAt(entries[b], i), 0) /\ IsReply(b, k) /\ AckReply(b, k)
          /\ UNCHANGED <<pc, timeouts, ran, got, gaveUp>>
      BY <1>3 DEF ReplyEndsEntry
    <2>2. ListsOK(entries', entry', handles', todo', answered') /\ Moves(b, 0)
      BY <1>1, <2>1, NoUserCodeType
    <2>. QED
      BY <1>2, <2>1, <2>2, ReplyType
  <1>4. CASE ReplyAcknowledges(b, k, i)
    <2>1. /\ NoUserCode(b, [entries[b] EXCEPT ![i].state = "WaitForResponse"], 0)
          /\ IsReply(b, k) /\ AckReply(b, k)
          /\ UNCHANGED <<pc, timeouts, ran, got, gaveUp>>
      BY <1>4 DEF ReplyAcknowledges
    <2>2. [entries[b] EXCEPT ![i].state = "WaitForResponse"] \in Seq(Entry)
      BY <1>1, StateUpdateList
    <2>3. ListsOK(entries', entry', handles', todo', answered') /\ Moves(b, 0)
      BY <1>1, <2>1, <2>2, NoUserCodeType
    <2>. QED
      BY <1>2, <2>1, <2>3, ReplyType
  <1>5. CASE ReplyCallsBack(b, k, i)
    <2>1. /\ CallBack(b, entries[b][i], wire[b][k], RemoveAt(entries[b], i), 0)
          /\ IsReply(b, k) /\ AckReply(b, k)
          /\ UNCHANGED <<pc, timeouts, ran, gaveUp>>
      BY <1>5 DEF ReplyCallsBack
    <2>2. wire[b][k] \in Packet /\ entries[b][i] \in Entry
      BY <1>1, <2>1, ArrivalType DEF IsReply
    <2>3. /\ ListsOK(entries', entry', handles', todo', answered') /\ Moves(b, 0)
          /\ got' \in [Call -> Seq(Call)]
      BY <1>1, <2>1, <2>2, CallBackType
    <2>4. RestOK(pc', timeouts', ran', got', gaveUp')
      BY <1>2, <2>1, <2>3 DEF RestOK
    <2>. QED
      BY <2>1, <2>3, <2>4, ReplyType
  <1>. QED
    BY <1>3, <1>4, <1>5

\* A step of the walk through the list of b.
LEMMA PassStepType ==
    ASSUME TypeInv, NEW b \in Board, pc[b] = "pass", pc' = pc,
           NEW i \in Nat \ {0}, Moves(b, i),
           ListsOK(entries', entry', handles', todo', answered'),
           NetworkOK(wire', losses'),
           RestOK(pc', timeouts', ran', got', gaveUp')
    PROVE  TypeInv'
  <1>1. TypeOK'
    BY TypePartsNext
  <1>2. IteratorOK'
    BY IteratorStep
  <1>. QED
    BY <1>1, <1>2 DEF TypeInv

\* What every step of the walk finds.
LEMMA InPassType ==
    ASSUME TypeInv, NEW b \in Board, InPass(b)
    PROVE  /\ TypeOK /\ pc[b] = "pass" /\ entries[b] \in Seq(Entry)
           /\ entry[b] \in Nat \ {0} /\ entry[b] \in 1 .. Len(entries[b])
           /\ Current(b) \in Entry /\ PacketOf(Current(b)) \in Packet
           /\ Without(b) \in Seq(Entry)
           /\ NetworkOK(wire, losses)
           /\ RestOK(pc, timeouts, ran, got, gaveUp)
  <1>1. TypeOK /\ pc[b] = "pass" /\ entry[b] # 0 /\ entry[b] \in Nat
        /\ entries[b] \in Seq(Entry)
    BY DEF TypeInv, TypeOK, IteratorOK, InPass
  <1>. QED
    BY <1>1, CurrentType, TypeParts

LEMMA SendEventType == ASSUME TypeInv, NEW b \in Board, SendEvent(b) PROVE TypeInv'
  <1>1. InPass(b)
    BY DEF SendEvent, Pending
  <1>2. /\ ListsOK(entries', entry', handles', todo', answered') /\ Moves(b, entry[b])
        /\ ran' \in [Board -> [Call -> Nat]]
    BY <1>1, InPassType, DeliverType DEF SendEvent
  <1>3. NetworkOK(wire', losses')
    BY <1>1, InPassType, SendType DEF SendEvent
  <1>4. RestOK(pc', timeouts', ran', got', gaveUp')
    BY <1>1, <1>2, InPassType DEF SendEvent, RestOK
  <1>. QED
    BY <1>1, <1>2, <1>3, <1>4, InPassType, PassStepType DEF SendEvent

LEMMA SendLocalRequestType ==
    ASSUME TypeInv, NEW b \in Board, SendLocalRequest(b) PROVE TypeInv'
  <1> DEFINE s == IF Current(b).type = "Callback"
                  THEN [entries[b] EXCEPT ![entry[b]].state = "WaitForResponse"]
                  ELSE Without(b)
  <1>1. InPass(b)
    BY DEF SendLocalRequest, Pending
  <1>2. s \in Seq(Entry)
    BY <1>1, InPassType, StateUpdateList
  <1>3. Deliver(b, PacketOf(Current(b)), s, entry[b])
    BY DEF SendLocalRequest
  <1>. HIDE DEF s
  <1>4. /\ ListsOK(entries', entry', handles', todo', answered') /\ Moves(b, entry[b])
        /\ ran' \in [Board -> [Call -> Nat]]
    BY <1>1, <1>2, <1>3, InPassType, DeliverType
  <1>5. NetworkOK(wire', losses')
    BY <1>1, InPassType, SendType DEF SendLocalRequest
  <1>6. RestOK(pc', timeouts', ran', got', gaveUp')
    BY <1>1, <1>4, InPassType DEF SendLocalRequest, RestOK
  <1>. QED
    BY <1>1, <1>4, <1>5, <1>6, InPassType, PassStepType DEF SendLocalRequest

LEMMA SendLocalResponseType ==
    ASSUME TypeInv, NEW b \in Board, NEW i \in DOMAIN entries[b], SendLocalResponse(b, i)
    PROVE  TypeInv'
  <1> DEFINE rest == RemoveAt(RemoveAt(entries[b], i), entry[b])
  <1>1. InPass(b)
    BY DEF SendLocalResponse, LocalResponse, Pending
  <1>2. i \in entry[b] + 1 .. Len(entries[b]) /\ i \in 1 .. Len(entries[b])
    BY <1>1, InPassType DEF SendLocalResponse, AnsweredBy
  <1>3. rest \in Seq(Entry)
    <2>1. /\ RemoveAt(entries[b], i) \in Seq(Entry)
          /\ Len(RemoveAt(entries[b], i)) = Len(entries[b]) - 1
      BY <1>1, <1>2, InPassType, RemoveAtList
    <2>2. entry[b] \in 1 .. Len(RemoveAt(entries[b], i))
      BY <1>1, <1>2, <2>1, InPassType
    <2>. QED
      BY <2>1, <2>2, RemoveAtList
  <1>4. IF entries[b][i].type = "Callback"
        THEN CallBack(b, entries[b][i], PacketOf(Current(b)), rest, entry[b])
        ELSE NoUserCode(b, rest, entry[b]) /\ UNCHANGED got
    BY DEF SendLocalResponse
  <1>5. entries[b][i] \in Entry
    BY <1>1, <1>2, InPassType
  <1>. HIDE DEF rest
  <1>6. /\ ListsOK(entries', entry', handles', todo', answered') /\ Moves(b, entry[b])
        /\ got' \in [Call -> Seq(Call)]
    <2>1. CASE entries[b][i].type = "Callback"
      BY <1>1, <1>3, <1>4, <1>5, <2>1, InPassType, CallBackType
    <2>2. CASE entries[b][i].type # "Callback"
      BY <1>1, <1>3, <1>4, <2>2, InPassType, NoUserCodeType DEF TypeOK
    <2>. QED
      BY <2>1, <2>2
  <1>7. NetworkOK(wire', losses')
    BY <1>1, InPassType, SendType DEF SendLocalResponse
  <1>8. RestOK(pc', timeouts', ran', got', gaveUp')
    BY <1>1, <1>6, InPassType DEF SendLocalResponse, RestOK
  <1>. QED
    BY <1>1, <1>6, <1>7, <1>8, InPassType, PassStepType DEF SendLocalResponse

LEMMA SendLocalResponseInVainType ==
    ASSUME TypeInv, NEW b \in Board, SendLocalResponseInVain(b) PROVE TypeInv'
  <1>1. InPass(b)
    BY DEF SendLocalResponseInVain, LocalResponse, Pending
  <1>2. ListsOK(entries', entry', handles', todo', answered') /\ Moves(b, entry[b])
    BY <1>1, InPassType, NoUserCodeType DEF SendLocalResponseInVain
  <1>3. NetworkOK(wire', losses')
    BY <1>1, InPassType, SendType DEF SendLocalResponseInVain
  <1>4. RestOK(pc', timeouts', ran', got', gaveUp') /\ pc' = pc
    BY <1>1, InPassType DEF SendLocalResponseInVain, RestOK
  <1>. QED
    BY <1>1, <1>2, <1>3, <1>4, InPassType, PassStepType

LEMMA SendRemoteType == ASSUME TypeInv, NEW b \in Board, SendRemote(b) PROVE TypeInv'
  <1>1. InPass(b)
    BY DEF SendRemote, Pending
  <1>2. /\ [entries[b] EXCEPT ![entry[b]].state = "WaitForACK"] \in Seq(Entry)
        /\ entry[b] + 1 \in Nat \ {0}
    <2>1. entry[b] + 1 \in Nat \ {0}
      BY <1>1, InPassType
    <2>2. [entries[b] EXCEPT ![entry[b]].state = "WaitForACK"] \in Seq(Entry)
      BY <1>1, InPassType, StateUpdateList
    <2>. QED
      BY <2>1, <2>2
  <1>3. ListsOK(entries', entry', handles', todo', answered') /\ Moves(b, entry[b] + 1)
    BY <1>1, <1>2, InPassType, NoUserCodeType DEF SendRemote
  <1>4. NetworkOK(wire', losses')
    BY <1>1, InPassType, SendType DEF SendRemote
  <1>5. RestOK(pc', timeouts', ran', got', gaveUp') /\ pc' = pc
    BY <1>1, InPassType DEF SendRemote, RestOK
  <1>. QED
    BY <1>1, <1>2, <1>3, <1>4, <1>5, InPassType, PassStepType

LEMMA ExpiredType ==
    ASSUME TypeInv, NEW b \in Board, Expired(b)
    PROVE  InPass(b) /\ timeouts' \in 0 .. MaxTimeouts
  BY BackendAssumption DEF TypeInv, TypeOK, Expired

LEMMA RetransmitType == ASSUME TypeInv, NEW b \in Board, Retransmit(b) PROVE TypeInv'
  <1>1. InPass(b) /\ timeouts' \in 0 .. MaxTimeouts
    BY ExpiredType DEF Retransmit
  <1>2. entries[b][entry[b]].tries < MaxTries
    BY DEF Retransmit, Current
  <1>3. /\ [entries[b] EXCEPT ![entry[b]].tries = @ + 1] \in Seq(Entry)
        /\ entry[b] + 1 \in Nat \ {0}
    BY <1>1, <1>2, InPassType, TriesUpdateList
  <1>4. ListsOK(entries', entry', handles', todo', answered') /\ Moves(b, entry[b] + 1)
    BY <1>1, <1>3, InPassType, NoUserCodeType DEF Retransmit
  <1>5. NetworkOK(wire', losses')
    BY <1>1, InPassType, SendType DEF Retransmit
  <1>6. RestOK(pc', timeouts', ran', got', gaveUp') /\ pc' = pc
    BY <1>1, InPassType DEF Retransmit, RestOK
  <1>. QED
    BY <1>1, <1>3, <1>4, <1>5, <1>6, InPassType, PassStepType

LEMMA GiveUpType == ASSUME TypeInv, NEW b \in Board, GiveUp(b) PROVE TypeInv'
  <1>1. InPass(b) /\ timeouts' \in 0 .. MaxTimeouts
    BY ExpiredType DEF GiveUp
  <1>2. ListsOK(entries', entry', handles', todo', answered') /\ Moves(b, entry[b])
    BY <1>1, InPassType, NoUserCodeType DEF GiveUp
  <1>3. <<Current(b).call, Current(b).header.type>> \in Call \X PacketType
    BY <1>1, InPassType DEF Entry, Header
  <1>4. RestOK(pc', timeouts', ran', got', gaveUp') /\ pc' = pc
    BY <1>1, <1>3, InPassType DEF GiveUp, RestOK
  <1>5. NetworkOK(wire', losses')
    BY <1>1, InPassType DEF GiveUp, network
  <1>. QED
    BY <1>1, <1>2, <1>4, <1>5, InPassType, PassStepType

LEMMA SkipType == ASSUME TypeInv, NEW b \in Board, Skip(b) PROVE TypeInv'
  <1>1. InPass(b)
    BY DEF Skip
  <1>2. entry[b] + 1 \in Nat \ {0}
    BY <1>1, InPassType
  <1>3. ListsOK(entries', entry', handles', todo', answered') /\ Moves(b, entry[b] + 1)
    BY <1>1, <1>2, InPassType, NoUserCodeType DEF Skip
  <1>4. /\ RestOK(pc', timeouts', ran', got', gaveUp') /\ pc' = pc
        /\ NetworkOK(wire', losses')
    BY <1>1, InPassType DEF Skip, network
  <1>. QED
    BY <1>1, <1>2, <1>3, <1>4, InPassType, PassStepType

\* Every state of every execution is well typed, and an iterator exists exactly
\* during handleWaitingMessages.
LEMMA TypeInvStep == TypeInv /\ [Next]_vars => TypeInv'
  <1>. SUFFICES ASSUME TypeInv, [Next]_vars PROVE TypeInv'
    OBVIOUS
  <1>1. CASE UNCHANGED vars
    BY <1>1 DEF TypeInv, TypeOK, IteratorOK, vars, loop, network, history
  <1>2. ASSUME NEW b \in Board, Work(b) PROVE TypeInv'
    BY <1>2, WorkType
  <1>3. ASSUME NEW b \in Board, StartUpdate(b) \/ EndReceive(b) PROVE TypeInv'
    BY <1>3, LoopType
  <1>4. ASSUME NEW b \in Board, NEW k \in DOMAIN wire[b], Receive(b, k) PROVE TypeInv'
    BY <1>4, ReceiveRequestType, IgnoreReplyType, MatchedReplyType DEF Receive
  <1>5. ASSUME NEW b \in Board, Pass(b) PROVE TypeInv'
    BY <1>5, SendEventType, SendLocalRequestType, SendLocalResponseType,
       SendLocalResponseInVainType, SendRemoteType, RetransmitType, GiveUpType,
       SkipType, LoopType DEF Pass
  <1>6. ASSUME NEW b \in Board, Lose(b) PROVE TypeInv'
    BY <1>6, LoseType
  <1>. QED
    BY <1>1, <1>2, <1>3, <1>4, <1>5, <1>6 DEF Next

LEMMA TypeInvInit == Init => TypeInv
  BY InitType DEF Init, TypeInv, IteratorOK

\* Type correctness with the iterator where the loop of handleWaitingMessages needs it.
THEOREM TypeInvAlways == Spec => []TypeInv
  BY TypeInvInit, TypeInvStep, PTL DEF Spec

\* Type correctness of the dispatcher, for any instance.
THEOREM TypeCorrect == Spec => []TypeOK
  <1>1. TypeInv => TypeOK
    BY DEF TypeInv
  <1>. QED
    BY <1>1, TypeInvAlways, PTL

-----------------------------------------------------------------------------
(* The order of the list                                                   *)

\* A list s, with the iterator at i, as handleWaitingMessages relies on it.
Ordered(s, i) == InFront(s) /\ OnlyResponsesBefore(s, i)

OrderInv == \A b \in Board : Ordered(entries[b], entry[b])

\* Removing an element at or behind the iterator keeps the order.
LEMMA RemoveKeepsOrder ==
    ASSUME NEW s \in Seq(Entry), NEW k \in 1 .. Len(s), NEW i \in 0 .. k, Ordered(s, i)
    PROVE  Ordered(RemoveAt(s, k), i)
  <1> DEFINE r == RemoveAt(s, k)
             at(j) == IF j < k THEN j ELSE j + 1
  <1>1. /\ r \in Seq(Entry) /\ DOMAIN r = 1 .. Len(s) - 1 /\ DOMAIN s = 1 .. Len(s)
        /\ \A j \in 1 .. Len(s) - 1 : at(j) \in 1 .. Len(s) /\ r[j] = s[at(j)]
    BY RemoveAtList
  <1>. HIDE DEF r
  <1>2. InFront(r)
    BY <1>1 DEF Ordered, InFront
  <1>3. OnlyResponsesBefore(r, i)
    BY <1>1 DEF Ordered, OnlyResponsesBefore
  <1>. QED
    BY <1>2, <1>3 DEF Ordered, r

\* User code prepends responses and appends requests, which keeps the order.
LEMMA UserCodeKeepsOrder ==
    ASSUME TypeOK, NEW b \in Board, NEW s \in Seq(Entry), NEW i \in 0 .. Len(s) + 1,
           NEW held \in SUBSET ResponseHandle,
           NEW reply \in Replies(held), NEW call \in Calls(b), Ordered(s, i)
    PROVE  Ordered(AfterUserCode(s, reply, call), IF i = 0 THEN 0 ELSE i + Len(reply))
  <1> DEFINE r == AfterUserCode(s, reply, call)
             m == Len(reply)
             n == Len(call)
  <1>1. /\ r \in Seq(Entry) /\ m \in {0, 1} /\ n \in {0, 1}
        /\ DOMAIN r = 1 .. m + Len(s) + n /\ DOMAIN s = 1 .. Len(s) /\ Len(s) \in Nat
        /\ \A j \in 1 .. m : IsResponse(r[j])
        /\ \A j \in m + 1 .. m + Len(s) : r[j] = s[j - m]
        /\ \A j \in m + Len(s) + 1 .. m + Len(s) + n : IsRequest(r[j])
    BY UserCodeList
  <1>. HIDE DEF r, m, n
  <1>2. InFront(r)
    <2>. SUFFICES ASSUME NEW x \in DOMAIN r, NEW y \in DOMAIN r,
                         IsRequest(r[x]), IsResponse(r[y]), ~(y < x)
                  PROVE  FALSE
      BY DEF InFront
    <2>1. x \notin 1 .. m /\ y \notin m + Len(s) + 1 .. m + Len(s) + n
      BY <1>1 DEF IsRequest, IsResponse
    <2>2. x \in m + 1 .. m + Len(s) /\ y \in m + 1 .. m + Len(s)
      BY <1>1, <2>1
    <2>3. r[x] = s[x - m] /\ r[y] = s[y - m]
      BY <1>1, <2>2
    <2>4. x - m \in DOMAIN s /\ y - m \in DOMAIN s
      BY <1>1, <2>2
    <2>5. y - m < x - m
      BY <2>3, <2>4 DEF Ordered, InFront
    <2>. QED
      BY <1>1, <2>2, <2>5
  <1>3. OnlyResponsesBefore(r, IF i = 0 THEN 0 ELSE i + m)
    <2>. SUFFICES ASSUME NEW j \in DOMAIN r, i # 0, j < i + m,
                         r[j].state = "TransmissionPending", j > m
                  PROVE  IsResponse(r[j])
      BY <1>1 DEF OnlyResponsesBefore
    <2>1. j \in m + 1 .. m + Len(s) /\ j - m \in DOMAIN s /\ j - m < i
      BY <1>1
    <2>2. r[j] = s[j - m]
      BY <1>1, <2>1
    <2>. QED
      BY <2>1, <2>2 DEF Ordered, OnlyResponsesBefore
  <1>. QED
    BY <1>2, <1>3 DEF Ordered, r, m

\* The steps that replace the list of one board.
LEMMA NoUserCodeOrder ==
    ASSUME TypeOK, OrderInv, NEW b \in Board, NEW s \in Seq(Entry), NEW i \in Nat,
           NoUserCode(b, s, i), Ordered(s, i)
    PROVE  OrderInv'
  BY DEF TypeOK, OrderInv, NoUserCode

LEMMA UserCodeOrder ==
    ASSUME TypeOK, OrderInv, NEW b \in Board, NEW s \in Seq(Entry),
           NEW i \in 0 .. Len(s) + 1, NEW held \in SUBSET ResponseHandle,
           NEW reply \in Replies(held), NEW call \in Calls(b),
           UserCode(b, s, i, held, reply, call), Ordered(s, i)
    PROVE  OrderInv'
  <1>1. Ordered(AfterUserCode(s, reply, call), IF i = 0 THEN 0 ELSE i + Len(reply))
    BY UserCodeKeepsOrder
  <1>. QED
    BY <1>1 DEF TypeOK, OrderInv, UserCode

LEMMA DeliverOrder ==
    ASSUME TypeOK, OrderInv, NEW b \in Board, NEW p \in Packet, NEW s \in Seq(Entry),
           NEW i \in 0 .. Len(s) + 1, Deliver(b, p, s, i), Ordered(s, i)
    PROVE  OrderInv'
  <1>1. CASE DeliversTo(b, p.header)
    <2> DEFINE held == IF p.header.destination = EventAddress
                       THEN handles[b] ELSE handles[b] \cup {HandleFor(p)}
    <2>1. held \in SUBSET ResponseHandle
      BY DEF TypeOK, HandleFor, ResponseHandle, Packet, Header
    <2>2. PICK reply \in Replies(held), call \in Calls(b) :
             UserCode(b, s, i, held, reply, call)
      BY <1>1 DEF Deliver
    <2>. HIDE DEF held
    <2>. QED
      BY <2>1, <2>2, UserCodeOrder
  <1>2. CASE ~DeliversTo(b, p.header)
    BY <1>2, NoUserCodeOrder DEF Deliver
  <1>. QED
    BY <1>1, <1>2

LEMMA CallBackOrder ==
    ASSUME TypeOK, OrderInv, NEW b \in Board, NEW e, NEW p, NEW s \in Seq(Entry),
           NEW i \in 0 .. Len(s) + 1, CallBack(b, e, p, s, i), Ordered(s, i)
    PROVE  OrderInv'
  <1>1. handles[b] \in SUBSET ResponseHandle
    BY DEF TypeOK
  <1>. QED
    BY <1>1, UserCodeOrder DEF CallBack

\* Without an iterator only the order of responses and requests counts.
LEMMA NoIterator ==
    ASSUME NEW s \in Seq(Entry), NEW i \in Nat, Ordered(s, i)
    PROVE  Ordered(s, 0)
  BY DEF Ordered, OnlyResponsesBefore

LEMMA StateUpdateOrder ==
    ASSUME NEW s \in Seq(Entry), NEW k \in 1 .. Len(s), NEW i \in Nat,
           NEW st \in {"WaitForACK", "WaitForResponse"}, Ordered(s, i)
    PROVE  /\ Ordered([s EXCEPT ![k].state = st], i)
           /\ i = k => Ordered([s EXCEPT ![k].state = st], i + 1)
  <1> DEFINE r == [s EXCEPT ![k].state = st]
  <1>1. /\ DOMAIN r = 1 .. Len(s) /\ DOMAIN s = 1 .. Len(s)
        /\ \A j \in 1 .. Len(s) : /\ r[j].header = s[j].header
                                  /\ r[j].state = IF j = k THEN st ELSE s[j].state
    BY StateUpdateList
  <1>. HIDE DEF r
  <1>2. InFront(r)
    BY <1>1 DEF Ordered, InFront, IsRequest, IsResponse
  <1>3. OnlyResponsesBefore(r, i)
    BY <1>1 DEF Ordered, OnlyResponsesBefore, IsResponse
  <1>4. i = k => OnlyResponsesBefore(r, i + 1)
    BY <1>1 DEF Ordered, OnlyResponsesBefore, IsResponse
  <1>. QED
    BY <1>2, <1>3, <1>4 DEF Ordered, r

OrderedInv == TypeInv /\ OrderInv

\* The list of a board that is not in a pass, and the one of a board that is.
LEMMA OrderedOutside ==
    ASSUME OrderedInv, NEW b \in Board, pc[b] # "pass"
    PROVE  TypeOK /\ entries[b] \in Seq(Entry) /\ entry[b] = 0 /\ Ordered(entries[b], 0)
  BY DEF OrderedInv, TypeInv, TypeOK, IteratorOK, OrderInv

LEMMA OrderedInPass ==
    ASSUME OrderedInv, NEW b \in Board, InPass(b)
    PROVE  /\ TypeOK /\ entries[b] \in Seq(Entry) /\ Current(b) = entries[b][entry[b]]
           /\ entry[b] \in Nat \ {0} /\ entry[b] \in 1 .. Len(entries[b])
           /\ Ordered(entries[b], entry[b])
           /\ PacketOf(Current(b)) \in Packet
           /\ Without(b) \in Seq(Entry) /\ Len(Without(b)) = Len(entries[b]) - 1
           /\ Ordered(Without(b), entry[b])
  <1>1. /\ TypeOK /\ entries[b] \in Seq(Entry) /\ Current(b) = entries[b][entry[b]]
        /\ entry[b] \in Nat \ {0} /\ entry[b] \in 1 .. Len(entries[b])
        /\ PacketOf(Current(b)) \in Packet
    BY InPassType DEF OrderedInv, Current
  <1>2. Ordered(entries[b], entry[b])
    BY DEF OrderedInv, OrderInv
  <1>3. /\ Without(b) \in Seq(Entry) /\ Len(Without(b)) = Len(entries[b]) - 1
        /\ Ordered(Without(b), entry[b])
    BY <1>1, <1>2, RemoveAtList, RemoveKeepsOrder DEF Without
  <1>. QED
    BY <1>1, <1>2, <1>3

LEMMA WorkOrder == ASSUME OrderedInv, NEW b \in Board, Work(b) PROVE OrderInv'
  <1>1. handles[b] \in SUBSET ResponseHandle
    BY DEF OrderedInv, TypeInv, TypeOK
  <1>2. PICK reply \in Replies(handles[b]), call \in Calls(b) :
           UserCode(b, entries[b], 0, handles[b], reply, call)
    BY DEF Work
  <1>3. pc[b] # "pass"
    BY DEF Work
  <1>. QED
    BY <1>1, <1>2, <1>3, OrderedOutside, UserCodeOrder DEF OrderedInv

LEMMA LoopOrder ==
    ASSUME OrderedInv, NEW b \in Board, StartUpdate(b) \/ EndReceive(b) \/ EndPass(b)
    PROVE  OrderInv'
  <1>1. CASE StartUpdate(b)
    BY <1>1 DEF OrderedInv, OrderInv, StartUpdate
  <1>2. CASE EndReceive(b)
    <2>1. entries[b] \in Seq(Entry) /\ Ordered(entries[b], 0)
      BY <1>2, OrderedOutside DEF EndReceive
    <2>2. Ordered(entries[b], 1)
      BY <2>1 DEF Ordered, OnlyResponsesBefore
    <2>. QED
      BY <1>2, <2>2 DEF OrderedInv, OrderInv, TypeInv, TypeOK, EndReceive
  <1>3. CASE EndPass(b)
    <2>1. entries[b] \in Seq(Entry) /\ entry[b] \in Nat /\ Ordered(entries[b], entry[b])
      BY DEF OrderedInv, OrderInv, TypeInv, TypeOK
    <2>2. Ordered(entries[b], 0)
      BY <2>1, NoIterator
    <2>. QED
      BY <1>3, <2>2 DEF OrderedInv, OrderInv, TypeInv, TypeOK, EndPass
  <1>. QED
    BY <1>1, <1>2, <1>3

LEMMA ReceiveOrder ==
    ASSUME OrderedInv, NEW b \in Board, NEW k \in DOMAIN wire[b], Receive(b, k)
    PROVE  OrderInv'
  <1>1. TypeOK /\ OrderInv
    BY DEF OrderedInv, TypeInv
  <1>2. pc[b] = "rx" /\ k \in Arrivals(b)
    BY DEF Receive, ReceiveRequest, IgnoreReply, ReplyEndsEntry, ReplyAcknowledges,
           ReplyCallsBack, IsReply
  <1>3. entries[b] \in Seq(Entry) /\ Ordered(entries[b], 0) /\ wire[b][k] \in Packet
    BY <1>1, <1>2, OrderedOutside, ArrivalType
  <1>4. CASE ReceiveRequest(b, k)
    <2>1. 0 \in 0 .. Len(entries[b]) + 1
      BY <1>3
    <2>. QED
      BY <1>1, <1>3, <1>4, <2>1, DeliverOrder DEF ReceiveRequest
  <1>5. CASE IgnoreReply(b, k)
    BY <1>1, <1>5 DEF IgnoreReply, OrderInv, loop
  <1>6. ASSUME NEW i \in DOMAIN entries[b],
               \/ ReplyEndsEntry(b, k, i)
               \/ ReplyAcknowledges(b, k, i)
               \/ ReplyCallsBack(b, k, i)
        PROVE  OrderInv'
    <2>1. i \in 1 .. Len(entries[b])
      BY <1>3
    <2>2. /\ RemoveAt(entries[b], i) \in Seq(Entry)
          /\ Ordered(RemoveAt(entries[b], i), 0)
          /\ 0 \in 0 .. Len(RemoveAt(entries[b], i)) + 1
      <3>1. 0 \in 0 .. i
        BY <2>1
      <3>2. RemoveAt(entries[b], i) \in Seq(Entry)
        BY <1>3, <2>1, RemoveAtList
      <3>. QED
        BY <1>3, <2>1, <3>1, <3>2, RemoveKeepsOrder
    <2>3. CASE ReplyEndsEntry(b, k, i)
      BY <1>1, <2>2, <2>3, NoUserCodeOrder DEF ReplyEndsEntry
    <2>4. CASE ReplyAcknowledges(b, k, i)
      <3>1. /\ [entries[b] EXCEPT ![i].state = "WaitForResponse"] \in Seq(Entry)
            /\ Ordered([entries[b] EXCEPT ![i].state = "WaitForResponse"], 0)
        BY <1>3, <2>1, StateUpdateList, StateUpdateOrder
      <3>. QED
        BY <1>1, <2>4, <3>1, NoUserCodeOrder DEF ReplyAcknowledges
    <2>5. CASE ReplyCallsBack(b, k, i)
      BY <1>1, <2>2, <2>5, CallBackOrder DEF ReplyCallsBack
    <2>. QED
      BY <1>6, <2>3, <2>4, <2>5
  <1>. QED
    BY <1>4, <1>5, <1>6 DEF Receive

\* The iterator may pass an entry that is not waiting for transmission.
LEMMA StepOverOrder ==
    ASSUME NEW s \in Seq(Entry), NEW i \in 1 .. Len(s), Ordered(s, i),
           s[i].state # "TransmissionPending"
    PROVE  Ordered(s, i + 1)
  BY DEF Ordered, OnlyResponsesBefore

LEMMA TriesUpdateOrder ==
    ASSUME NEW s \in Seq(Entry), NEW i \in 1 .. Len(s), NEW n \in Nat, Ordered(s, n),
           s[i].tries < MaxTries
    PROVE  Ordered([s EXCEPT ![i].tries = @ + 1], n)
  <1> DEFINE r == [s EXCEPT ![i].tries = @ + 1]
  <1>1. /\ DOMAIN r = 1 .. Len(s) /\ DOMAIN s = 1 .. Len(s)
        /\ \A j \in 1 .. Len(s) : r[j].header = s[j].header /\ r[j].state = s[j].state
    BY TriesUpdateList
  <1>. HIDE DEF r
  <1>2. InFront(r)
    BY <1>1 DEF Ordered, InFront, IsRequest, IsResponse
  <1>3. OnlyResponsesBefore(r, n)
    BY <1>1 DEF Ordered, OnlyResponsesBefore, IsResponse
  <1>. QED
    BY <1>2, <1>3 DEF Ordered, r

LEMMA SendLocalRequestOrder ==
    ASSUME OrderedInv, NEW b \in Board, SendLocalRequest(b) PROVE OrderInv'
  <1> DEFINE s == IF Current(b).type = "Callback"
                  THEN [entries[b] EXCEPT ![entry[b]].state = "WaitForResponse"]
                  ELSE Without(b)
  <1>1. InPass(b) /\ OrderInv
    BY DEF SendLocalRequest, Pending, OrderedInv
  <1>2. s \in Seq(Entry) /\ Ordered(s, entry[b]) /\ entry[b] \in 0 .. Len(s) + 1
    <2>1. CASE Current(b).type = "Callback"
      <3>1. s \in Seq(Entry) /\ Len(s) = Len(entries[b])
        BY <1>1, <2>1, OrderedInPass, StateUpdateList
      <3>2. Ordered(s, entry[b])
        BY <1>1, <2>1, OrderedInPass, StateUpdateOrder
      <3>. QED
        BY <1>1, <3>1, <3>2, OrderedInPass
    <2>2. CASE Current(b).type # "Callback"
      BY <1>1, <2>2, OrderedInPass
    <2>. QED
      BY <2>1, <2>2
  <1>3. Deliver(b, PacketOf(Current(b)), s, entry[b])
    BY DEF SendLocalRequest
  <1>. HIDE DEF s
  <1>. QED
    BY <1>1, <1>2, <1>3, OrderedInPass, DeliverOrder

LEMMA SendLocalResponseOrder ==
    ASSUME OrderedInv, NEW b \in Board, NEW i \in DOMAIN entries[b], SendLocalResponse(b, i)
    PROVE  OrderInv'
  <1> DEFINE r == RemoveAt(entries[b], i)
             rest == RemoveAt(r, entry[b])
  <1>1. InPass(b) /\ OrderInv
    BY DEF SendLocalResponse, LocalResponse, Pending, OrderedInv
  <1>2. i \in 1 .. Len(entries[b]) /\ entry[b] < i
    BY <1>1, OrderedInPass DEF SendLocalResponse, AnsweredBy
  <1>3. r \in Seq(Entry) /\ Len(r) = Len(entries[b]) - 1
    BY <1>1, <1>2, OrderedInPass, RemoveAtList
  <1>4. Ordered(r, entry[b])
    <2>1. entry[b] \in 0 .. i
      BY <1>1, <1>2, OrderedInPass
    <2>. QED
      BY <1>1, <1>2, <2>1, OrderedInPass, RemoveKeepsOrder
  <1>5. entry[b] \in 1 .. Len(r) /\ entry[b] \in 0 .. entry[b]
    BY <1>1, <1>2, <1>3, OrderedInPass
  <1>6. IF entries[b][i].type = "Callback"
        THEN CallBack(b, entries[b][i], PacketOf(Current(b)), rest, entry[b])
        ELSE NoUserCode(b, rest, entry[b])
    BY DEF SendLocalResponse
  <1>. HIDE DEF r
  <1>7. rest \in Seq(Entry) /\ Len(rest) = Len(r) - 1 /\ Ordered(rest, entry[b])
    BY <1>3, <1>4, <1>5, RemoveAtList, RemoveKeepsOrder
  <1>8. entry[b] \in 0 .. Len(rest) + 1 /\ entry[b] \in Nat
    BY <1>3, <1>5, <1>7
  <1>. HIDE DEF rest
  <1>9. TypeOK
    BY DEF OrderedInv, TypeInv
  <1>. QED
    BY <1>1, <1>6, <1>7, <1>8, <1>9, NoUserCodeOrder, CallBackOrder

LEMMA PassOrder == ASSUME OrderedInv, NEW b \in Board, Pass(b) PROVE OrderInv'
  <1>1. OrderInv /\ TypeOK
    BY DEF OrderedInv, TypeInv
  <1>2. CASE SendEvent(b)
    <2>1. InPass(b)
      BY <1>2 DEF SendEvent, Pending
    <2>2. entry[b] \in 0 .. Len(Without(b)) + 1
      BY <2>1, OrderedInPass
    <2>. QED
      BY <1>1, <1>2, <2>1, <2>2, OrderedInPass, DeliverOrder DEF SendEvent
  <1>3. CASE SendLocalRequest(b)
    BY <1>3, SendLocalRequestOrder
  <1>4. CASE \E i \in DOMAIN entries[b] : SendLocalResponse(b, i)
    BY <1>4, SendLocalResponseOrder
  <1>5. CASE SendLocalResponseInVain(b) \/ GiveUp(b)
    <2>1. InPass(b) /\ NoUserCode(b, Without(b), entry[b])
      BY <1>5 DEF SendLocalResponseInVain, LocalResponse, Pending, GiveUp, Expired
    <2>. QED
      BY <1>1, <2>1, OrderedInPass, NoUserCodeOrder
  <1>6. CASE SendRemote(b)
    <2> DEFINE s == [entries[b] EXCEPT ![entry[b]].state = "WaitForACK"]
    <2>1. InPass(b) /\ NoUserCode(b, s, entry[b] + 1)
      BY <1>6 DEF SendRemote, Pending
    <2>2. s \in Seq(Entry)
      BY <2>1, OrderedInPass, StateUpdateList
    <2>3. Ordered(s, entry[b] + 1)
      BY <2>1, OrderedInPass, StateUpdateOrder
    <2>4. entry[b] + 1 \in Nat
      BY <2>1, OrderedInPass
    <2>. HIDE DEF s
    <2>. QED
      BY <1>1, <2>1, <2>2, <2>3, <2>4, NoUserCodeOrder
  <1>7. CASE Retransmit(b)
    <2> DEFINE s == [entries[b] EXCEPT ![entry[b]].tries = @ + 1]
    <2>1. /\ InPass(b) /\ NoUserCode(b, s, entry[b] + 1)
          /\ Current(b).state = "WaitForACK" /\ Current(b).tries < MaxTries
      BY <1>7 DEF Retransmit, Expired
    <2>2. Ordered(entries[b], entry[b] + 1) /\ entry[b] + 1 \in Nat
      BY <2>1, OrderedInPass, StepOverOrder
    <2>3. s \in Seq(Entry)
      BY <2>1, OrderedInPass, TriesUpdateList
    <2>4. Ordered(s, entry[b] + 1)
      BY <2>1, <2>2, OrderedInPass, TriesUpdateOrder
    <2>. HIDE DEF s
    <2>. QED
      BY <1>1, <2>1, <2>2, <2>3, <2>4, NoUserCodeOrder
  <1>8. CASE Skip(b)
    <2>1. /\ InPass(b) /\ NoUserCode(b, entries[b], entry[b] + 1)
          /\ Current(b).state # "TransmissionPending"
      BY <1>8 DEF Skip
    <2>2. Ordered(entries[b], entry[b] + 1) /\ entry[b] + 1 \in Nat
      BY <2>1, OrderedInPass, StepOverOrder
    <2>. QED
      BY <1>1, <2>1, <2>2, OrderedInPass, NoUserCodeOrder
  <1>9. CASE EndPass(b)
    BY <1>9, LoopOrder
  <1>. QED
    BY <1>2, <1>3, <1>4, <1>5, <1>6, <1>7, <1>8, <1>9 DEF Pass

LEMMA OrderedInvStep == OrderedInv /\ [Next]_vars => OrderedInv'
  <1>. SUFFICES ASSUME OrderedInv, [Next]_vars PROVE OrderedInv'
    OBVIOUS
  <1>1. TypeInv'
    BY TypeInvStep DEF OrderedInv
  <1>2. OrderInv'
    <2>1. CASE UNCHANGED vars
      BY <2>1 DEF OrderedInv, OrderInv, vars, loop
    <2>2. ASSUME NEW b \in Board, Lose(b) PROVE OrderInv'
      BY <2>2 DEF OrderedInv, OrderInv, Lose, loop
    <2>. QED
      BY <2>1, <2>2, WorkOrder, LoopOrder, ReceiveOrder, PassOrder DEF Next
  <1>. QED
    BY <1>1, <1>2 DEF OrderedInv

LEMMA OrderedInvInit == Init => OrderedInv
  <1>1. Init => OrderInv
    BY DEF Init, OrderInv, Ordered, InFront, OnlyResponsesBefore
  <1>. QED
    BY <1>1, TypeInvInit DEF OrderedInv

\* No request ever stands before a response in a board's list: what
\* sendMessageToInnerComponent relies on when it searches only behind a response.
THEOREM ResponsesAlwaysFirst == Spec => []ResponsesFirst
  <1>1. OrderedInv => ResponsesFirst
    BY DEF OrderedInv, OrderInv, Ordered, ResponsesFirst
  <1>. QED
    BY <1>1, OrderedInvInit, OrderedInvStep, PTL DEF Spec

\* No pass of handleWaitingMessages skips a waiting request or event, although
\* handlers and callbacks change the list while it is walked.
THEOREM PassNeverSkips == Spec => []PassLeavesOnlyResponses
  <1>1. OrderedInv => PassLeavesOnlyResponses
    BY DEF OrderedInv, OrderInv, Ordered, PassLeavesOnlyResponses
  <1>. QED
    BY <1>1, OrderedInvInit, OrderedInvStep, PTL DEF Spec
=============================================================================
