----------------------- MODULE ZeroMQConnectorProofs -----------------------
(***************************************************************************)
(* Proofs about ZeroMQConnector, for every capacity of the queue, every    *)
(* set of messages and any number of restarts.                             *)
(***************************************************************************)
EXTENDS ZeroMQConnector, SequenceTheorems, FiniteSetTheorems, TLAPS

\* Where the main thread is says what its reference and its copy are worth.  The
\* reference is to the front of the queue until the reader pops that packet, and
\* whenever it does so, one more drop of another packet is excused.
MainInv ==
    /\ reference # "none" <=> main \in {"payload", "handle", "drop"}
    /\ reference = "front" => queue # <<>>
    /\ main \in {"handle", "drop"} => payload \in Message
    /\ main \in {"handle", "drop"} /\ reference = "front" => payload = Head(queue)
    /\ reference = "dangling" => skipped < overruns
    /\ main = "start" => restarts < MaxRestarts

\* A reference that is not valid any more spoils the handling it is used for, which the
\* pop that made it so excuses.
HeaderInv ==
    /\ IsFiniteSet(Mixed)
    /\ HeaderMeetsPayload
    /\ reference = "dangling" /\ main \in {"payload", "handle"} =>
           Cardinality(Mixed) < overruns

IInv ==
    /\ TypeOK
    /\ FrontExists
    /\ MainInv
    /\ HeaderInv
    /\ DropsWhatWasHandled

-----------------------------------------------------------------------------
(* Sequences                                                               *)

LEMMA TailType ==
    ASSUME NEW S, NEW s \in Seq(S), s # <<>>
    PROVE  Head(s) \in S /\ Tail(s) \in Seq(S) /\ Len(Tail(s)) = Len(s) - 1
    OBVIOUS

LEMMA AppendType ==
    ASSUME NEW S, NEW s \in Seq(S), NEW e \in S
    PROVE  /\ Append(s, e) \in Seq(S) /\ Append(s, e) # <<>>
           /\ Len(Append(s, e)) = Len(s) + 1
           /\ s # <<>> => Head(Append(s, e)) = Head(s)
<1>1. /\ Append(s, e) \in Seq(S) /\ Append(s, e) # <<>>
      /\ Len(Append(s, e)) = Len(s) + 1
    BY AppendProperties
<1>2. ASSUME s # <<>> PROVE Head(Append(s, e)) = Head(s)
    <2>1. 1 \in 1 .. Len(s) /\ 1 \in 1 .. Len(s) + 1
        BY <1>2, EmptySeq
    <2>2. Append(s, e)[1] = s[1]
        BY <2>1, AppendProperties
    <2> QED  BY <2>2
<1> QED  BY <1>1, <1>2

LEMMA LenNat ==
    ASSUME NEW S, NEW s \in Seq(S)
    PROVE  Len(s) \in Nat /\ (Len(s) = 0 <=> s = <<>>)
    BY EmptySeq, LenProperties

\* The queue keeps within its capacity, is not empty after readPacket, and its front
\* changes only if it is full.
LEMMA StoreType ==
    ASSUME TypeOK, NEW m \in Message
    PROVE  /\ Store(m) \in Seq(Message) /\ Store(m) # <<>>
           /\ Len(Store(m)) <= maxQueueSize
           /\ QueueIsFull => queue # <<>> /\ Head(queue) \in Message
           /\ ~QueueIsFull /\ queue # <<>> => Head(Store(m)) = Head(queue)
<1>1. queue \in Seq(Message) /\ Len(queue) \in Nat /\ Len(queue) <= maxQueueSize
      /\ maxQueueSize \in Nat \ {0}
    BY LenNat, ReaderAssumption DEF TypeOK
<1>2. CASE QueueIsFull
    <2>1. queue # <<>>
        BY <1>1, <1>2, LenNat DEF QueueIsFull
    <2>2. Head(queue) \in Message /\ Tail(queue) \in Seq(Message)
          /\ Len(Tail(queue)) = Len(queue) - 1
        BY <1>1, <2>1, TailType
    <2>3. Store(m) = Append(Tail(queue), m)
        BY <1>2 DEF Store
    <2>4. Store(m) \in Seq(Message) /\ Store(m) # <<>> /\ Len(Store(m)) = Len(queue)
        BY <1>1, <2>2, <2>3, AppendType
    <2> QED  BY <1>1, <1>2, <2>1, <2>2, <2>4
<1>3. CASE ~QueueIsFull
    <2>1. Store(m) = Append(queue, m)
        BY <1>3 DEF Store
    <2>2. Len(queue) < maxQueueSize
        BY <1>1, <1>3 DEF QueueIsFull
    <2>3. Store(m) \in Seq(Message) /\ Store(m) # <<>> /\ Len(Store(m)) = Len(queue) + 1
          /\ (queue # <<>> => Head(Store(m)) = Head(queue))
        BY <1>1, <2>1, AppendType
    <2> QED  BY <1>1, <1>3, <2>2, <2>3
<1> QED  BY <1>2, <1>3

-----------------------------------------------------------------------------
(* The invariant                                                           *)

\* Nothing is handled, and no reference is lost.
LEMMA HeaderStays ==
    ASSUME HeaderInv, UNCHANGED <<handled, overruns>>,
           reference' = "dangling" /\ main' \in {"payload", "handle"} =>
               reference = "dangling" /\ main \in {"payload", "handle"}
    PROVE  HeaderInv'
<1>1. Mixed' = Mixed
    BY DEF Mixed
<1> QED  BY <1>1 DEF HeaderInv, HeaderMeetsPayload

LEMMA InitInv == Init => IInv
<1> SUFFICES ASSUME Init PROVE IInv  OBVIOUS
<1>1. TypeOK
    <2> DEFINE Pair == [header : Message \cup {Undefined}, payload : Message]
    <2> HIDE DEF Pair
    <2>1. <<>> \in Seq(Message) /\ Len(<<>>) = 0 /\ <<>> \in Seq(Pair)
        BY EmptySeq
    <2>2. MaxRestarts \in Nat /\ maxQueueSize \in Nat
        BY ReaderAssumption
    <2>3. inbox \in Seq(Message) /\ sent \in Seq(Message) /\ queue \in Seq(Message)
          /\ Len(queue) <= maxQueueSize /\ handled \in Seq(Pair)
        BY <2>1, <2>2 DEF Init
    <2>4. restarts \in 0 .. MaxRestarts /\ overruns \in Nat /\ skipped \in Nat
        BY <2>2 DEF Init
    <2> QED  BY <2>3, <2>4 DEF Init, TypeOK, Pair
<1>2. FrontExists /\ MainInv /\ DropsWhatWasHandled
    BY DEF Init, FrontExists, MainInv, DropsWhatWasHandled
<1>3. HeaderInv
    <2>1. Mixed = {}
        BY DEF Init, Mixed
    <2> QED  BY <2>1, FS_EmptySet DEF Init, HeaderInv, HeaderMeetsPayload
<1> QED  BY <1>1, <1>2, <1>3 DEF IInv

LEMMA SendPacketInv ==
    ASSUME IInv, NEW m \in Message, SendPacket(m) PROVE IInv'
<1>1. inbox' \in Seq(Message) /\ sent' \in Seq(Message)
    BY AppendType DEF IInv, TypeOK, SendPacket
<1>2. UNCHANGED <<receiver, stopThread, queue, update, restarts, lost, overruns>>
    BY DEF SendPacket
<1>3. TypeOK'
    BY <1>1, <1>2 DEF IInv, TypeOK, update
<1>4. (FrontExists /\ MainInv /\ DropsWhatWasHandled)'
    BY <1>2 DEF IInv, FrontExists, MainInv, DropsWhatWasHandled, update
<1>5. HeaderInv'
    BY <1>2, HeaderStays DEF IInv, update
<1> QED  BY <1>3, <1>4, <1>5 DEF IInv

LEMMA ReadPacketInv == ASSUME IInv, ReadPacket PROVE IInv'
<1> DEFINE m == Head(inbox)
<1>1. m \in Message /\ inbox' \in Seq(Message)
    BY TailType DEF IInv, TypeOK, ReadPacket
<1>2. UNCHANGED <<receiver, stopThread, main, payload, handled, skipped, restarts, sent>>
    BY DEF ReadPacket
<1>3. CASE ~HasPacketSize(m)
    <2>1. UNCHANGED <<queue, reference, lost, overruns>>
        BY <1>3 DEF ReadPacket
    <2>2. TypeOK'
        BY <1>1, <1>2, <2>1 DEF IInv, TypeOK
    <2>3. (FrontExists /\ MainInv /\ DropsWhatWasHandled)'
        BY <1>2, <2>1 DEF IInv, FrontExists, MainInv, DropsWhatWasHandled
    <2>4. HeaderInv'
        BY <1>2, <2>1, HeaderStays DEF IInv
    <2> QED  BY <2>2, <2>3, <2>4 DEF IInv
<1>4. CASE HasPacketSize(m)
    <2>1. queue' = Store(m)
        BY <1>4 DEF ReadPacket
    <2>2. queue' \in Seq(Message) /\ queue' # <<>> /\ Len(queue') <= maxQueueSize
          /\ (QueueIsFull => queue # <<>> /\ Head(queue) \in Message)
          /\ (~QueueIsFull /\ queue # <<>> => Head(queue') = Head(queue))
        BY <1>1, <2>1, StoreType DEF IInv
    <2>3. lost' \subseteq Message
        BY <1>4, <2>2 DEF IInv, TypeOK, ReadPacket
    <2>4. CASE QueueIsFull /\ reference = "front"
        <3>1. reference' = "dangling" /\ overruns' = overruns + 1
            BY <1>4, <2>4 DEF ReadPacket
        <3>2. TypeOK'
            BY <1>1, <1>2, <2>2, <2>3, <3>1 DEF IInv, TypeOK
        <3>3. (FrontExists)'
            BY <1>2, <2>2 DEF IInv, FrontExists
        <3>4. (MainInv /\ DropsWhatWasHandled)'
            BY <1>2, <2>4, <3>1 DEF IInv, TypeOK, MainInv, DropsWhatWasHandled
        <3>5. HeaderInv'
            <4>1. Mixed' = Mixed
                BY <1>2 DEF Mixed
            <4>2. Cardinality(Mixed) \in Nat /\ IsFiniteSet(Mixed)
                BY FS_CardinalityType DEF IInv, HeaderInv
            <4>3. Cardinality(Mixed) <= overruns /\ overruns \in Nat
                BY DEF IInv, TypeOK, HeaderInv, HeaderMeetsPayload
            <4> QED  BY <3>1, <4>1, <4>2, <4>3 DEF HeaderInv, HeaderMeetsPayload
        <3> QED  BY <3>2, <3>3, <3>4, <3>5 DEF IInv
    <2>5. CASE ~(QueueIsFull /\ reference = "front")
        <3>1. UNCHANGED <<reference, overruns>>
            BY <1>4, <2>5 DEF ReadPacket
        <3>2. TypeOK'
            BY <1>1, <1>2, <2>2, <2>3, <3>1 DEF IInv, TypeOK
        <3>3. (FrontExists)'
            BY <1>2, <2>2 DEF IInv, FrontExists
        <3>4. (MainInv /\ DropsWhatWasHandled)'
            BY <1>2, <2>2, <2>5, <3>1 DEF IInv, MainInv, DropsWhatWasHandled
        <3>5. HeaderInv'
            BY <1>2, <3>1, HeaderStays DEF IInv
        <3> QED  BY <3>2, <3>3, <3>4, <3>5 DEF IInv
    <2> QED  BY <2>4, <2>5
<1> QED  BY <1>3, <1>4

LEMMA ReceiveThreadInv ==
    ASSUME IInv, CheckStop \/ NoMessage \/ Poll PROVE IInv'
<1>1. UNCHANGED <<inbox, queue, stopThread, update, restarts, history>>
      /\ receiver' \in {"check", "receive", "poll", "returned"} /\ receiver # "returned"
    BY DEF CheckStop, NoMessage, Poll
<1>2. TypeOK'
    BY <1>1 DEF IInv, TypeOK, update, history
<1>3. (FrontExists /\ MainInv /\ DropsWhatWasHandled)'
    BY <1>1 DEF IInv, FrontExists, MainInv, DropsWhatWasHandled,
                update, history
<1>4. HeaderInv'
    BY <1>1, HeaderStays DEF IInv, update, history
<1> QED  BY <1>2, <1>3, <1>4 DEF IInv

\* isPacketAvailable, getPacketHeader and getPacketPayload.
LEMMA GetPacketInv ==
    ASSUME IInv, IsPacketAvailable \/ GetPacketHeader \/ GetPacketPayload PROVE IInv'
<1>1. UNCHANGED <<thread, stopThread, handled, skipped, restarts, history>>
    BY DEF IsPacketAvailable, GetPacketHeader, GetPacketPayload
<1>2. main \in {"idle", "header", "payload"} /\ queue # <<>>
    BY DEF IInv, FrontExists, IsPacketAvailable, GetPacketHeader, GetPacketPayload
<1>3. Head(queue) \in Message
    BY <1>2, TailType DEF IInv, TypeOK
<1>4. TypeOK'
    BY <1>1, <1>3 DEF IInv, TypeOK, IsPacketAvailable, GetPacketHeader, GetPacketPayload,
                      thread, history
<1>5. (FrontExists /\ MainInv)'
    BY <1>1, <1>2, <1>3 DEF IInv, FrontExists, MainInv, IsPacketAvailable,
                            GetPacketHeader, GetPacketPayload, thread, history
<1>6. (DropsWhatWasHandled)'
    BY <1>1 DEF IInv, DropsWhatWasHandled, IsPacketAvailable,
                GetPacketHeader, GetPacketPayload, thread, history
<1>7. HeaderInv'
    BY <1>1, HeaderStays DEF IInv, IsPacketAvailable, GetPacketHeader, GetPacketPayload,
                             history
<1> QED  BY <1>4, <1>5, <1>6, <1>7 DEF IInv

LEMMA HandlePacketInv == ASSUME IInv, HandlePacket PROVE IInv'
<1> DEFINE h == [header |-> IF reference = "front" THEN Head(queue) ELSE Undefined,
                 payload |-> payload]
           Pair == [header : Message \cup {Undefined}, payload : Message]
<1>1. UNCHANGED <<thread, stopThread, reference, payload, skipped, restarts, history>>
      /\ main = "handle" /\ main' = "drop" /\ handled' = Append(handled, h)
    BY DEF HandlePacket
<1>2. h \in Pair
    <2>1. payload \in Message /\ (reference = "front" => Head(queue) \in Message)
        BY <1>1 DEF IInv, MainInv
    <2> QED  BY <2>1
<1>3. handled \in Seq(Pair)
    BY DEF IInv, TypeOK
<1>4. handled' \in Seq(Pair)
    BY <1>1, <1>2, <1>3, AppendType
<1>5. TypeOK'
    BY <1>1, <1>4 DEF IInv, TypeOK, thread, history
<1>6. (FrontExists /\ MainInv /\ DropsWhatWasHandled)'
    BY <1>1 DEF IInv, FrontExists, MainInv, DropsWhatWasHandled,
                thread, history
<1>7. /\ DOMAIN handled' = DOMAIN handled \cup {Len(handled) + 1}
      /\ \A i \in DOMAIN handled : handled'[i] = handled[i]
      /\ handled'[Len(handled) + 1] = h
    <2>1. Len(handled) \in Nat /\ DOMAIN handled = 1 .. Len(handled)
        BY <1>3, LenProperties
    <2>2. /\ DOMAIN handled' = 1 .. Len(handled) + 1
          /\ \A i \in 1 .. Len(handled) : handled'[i] = handled[i]
          /\ handled'[Len(handled) + 1] = h
        BY <1>1, <1>2, <1>3, <2>1, AppendProperties
    <2> QED  BY <2>1, <2>2
<1>8. IsFiniteSet(Mixed) /\ Cardinality(Mixed) \in Nat /\ overruns \in Nat
      /\ Cardinality(Mixed) <= overruns
    BY FS_CardinalityType DEF IInv, TypeOK, HeaderInv, HeaderMeetsPayload
<1> HIDE DEF h
<1>9. HeaderInv'
    <2>1. CASE h.header = h.payload
        <3>1. ASSUME NEW i \in DOMAIN handled', handled'[i].header # handled'[i].payload
              PROVE  i \in Mixed
            <4>1. ASSUME i = Len(handled) + 1 PROVE FALSE
                <5>1. handled'[i] = h
                    BY <1>7, <4>1
                <5> QED  BY <2>1, <3>1, <5>1
            <4>2. i \in DOMAIN handled /\ handled'[i] = handled[i]
                BY <1>7, <3>1, <4>1
            <4> QED  BY <3>1, <4>2 DEF Mixed
        <3>2. IsFiniteSet(Mixed') /\ Cardinality(Mixed') <= Cardinality(Mixed)
            <4>1. Mixed' \in SUBSET Mixed
                BY <3>1 DEF Mixed
            <4> QED  BY <1>8, <4>1, FS_Subset
        <3>3. Cardinality(Mixed') \in Nat
            BY <3>2, FS_CardinalityType
        <3> QED  BY <1>1, <1>8, <3>2, <3>3 DEF HeaderInv, HeaderMeetsPayload, history
    <2>2. CASE h.header # h.payload
        <3>1. reference = "dangling"
            BY <1>1, <2>2 DEF IInv, TypeOK, MainInv, h
        <3>2. Cardinality(Mixed) < overruns
            BY <1>1, <3>1 DEF IInv, HeaderInv
        <3>3. Mixed' \in SUBSET (Mixed \cup {Len(handled) + 1})
            BY <1>7 DEF Mixed
        <3>4. IsFiniteSet(Mixed \cup {Len(handled) + 1})
              /\ Cardinality(Mixed \cup {Len(handled) + 1}) <= Cardinality(Mixed) + 1
              /\ Cardinality(Mixed \cup {Len(handled) + 1}) \in Nat
            BY <1>8, FS_AddElement, FS_CardinalityType
        <3>5. IsFiniteSet(Mixed')
              /\ Cardinality(Mixed') <= Cardinality(Mixed \cup {Len(handled) + 1})
            BY <3>3, <3>4, FS_Subset
        <3>6. Cardinality(Mixed') \in Nat
            BY <3>5, FS_CardinalityType
        <3> QED
            BY <1>1, <1>8, <3>2, <3>4, <3>5, <3>6 DEF HeaderInv, HeaderMeetsPayload, history
    <2> QED  BY <2>1, <2>2
<1> QED  BY <1>5, <1>6, <1>9 DEF IInv

LEMMA DropPacketInv == ASSUME IInv, DropPacket PROVE IInv'
<1>1. UNCHANGED <<inbox, receiver, stopThread, payload, handled, restarts, history>>
      /\ main = "drop" /\ main' = "idle" /\ reference' = "none"
    BY DEF DropPacket
<1>2. queue' \in Seq(Message) /\ Len(queue') <= maxQueueSize
    <2>1. CASE queue = <<>>
        BY <2>1 DEF DropPacket, IInv, TypeOK
    <2>2. CASE queue # <<>>
        <3>1. queue' = Tail(queue)
            BY <2>2 DEF DropPacket
        <3>2. Tail(queue) \in Seq(Message) /\ Len(Tail(queue)) = Len(queue) - 1
            BY <2>2, TailType DEF IInv, TypeOK
        <3>3. Len(queue) \in Nat /\ Len(queue) <= maxQueueSize /\ maxQueueSize \in Nat
            BY LenNat, ReaderAssumption DEF IInv, TypeOK
        <3> QED  BY <3>1, <3>2, <3>3
    <2> QED  BY <2>1, <2>2
<1>3. skipped' \in Nat /\ skipped' <= overruns
    <2>1. skipped \in Nat /\ overruns \in Nat /\ skipped <= overruns
        BY DEF IInv, TypeOK, DropsWhatWasHandled
    <2>2. CASE skipped' = skipped
        BY <2>1, <2>2
    <2>3. CASE skipped' # skipped
        <3>1. queue # <<>> /\ Head(queue) # payload /\ skipped' = skipped + 1
            BY <2>3 DEF DropPacket
        <3>2. reference = "dangling"
            BY <1>1, <3>1 DEF IInv, TypeOK, MainInv
        <3>3. skipped < overruns
            BY <3>2 DEF IInv, MainInv
        <3> QED  BY <2>1, <3>1, <3>3
    <2> QED  BY <2>2, <2>3
<1>4. TypeOK'
    BY <1>1, <1>2, <1>3 DEF IInv, TypeOK, history
<1>5. (FrontExists /\ MainInv /\ DropsWhatWasHandled)'
    BY <1>1, <1>3 DEF FrontExists, MainInv, DropsWhatWasHandled, history
<1>6. HeaderInv'
    BY <1>1, HeaderStays DEF IInv, history
<1> QED  BY <1>4, <1>5, <1>6 DEF IInv

LEMMA StartStopInv ==
    ASSUME IInv, StopToStart \/ StopToClose \/ Start \/ Close PROVE IInv'
<1>1. UNCHANGED <<inbox, queue, reference, payload, handled, skipped, history>>
      /\ main \in {"idle", "start", "close"} /\ main' \in {"idle", "start", "close", "closed"}
      /\ stopThread' \in BOOLEAN
    BY DEF IInv, TypeOK, StopToStart, StopToClose, Stop, Start, Close, thread
<1>2. receiver' \in {"check", "receive", "poll", "returned"}
      /\ (main' = "closed" => receiver' = "returned")
      /\ (main' = "start" => restarts' < MaxRestarts)
    BY DEF IInv, TypeOK, StopToStart, StopToClose, Stop, Start, Close, thread
<1>3. restarts' \in 0 .. MaxRestarts
    <2>1. restarts \in Nat /\ MaxRestarts \in Nat /\ restarts <= MaxRestarts
        BY ReaderAssumption DEF IInv, TypeOK
    <2>2. restarts' = restarts \/ (restarts' = restarts + 1 /\ main = "start")
        BY DEF StopToStart, StopToClose, Stop, Start, Close
    <2>3. main = "start" => restarts < MaxRestarts
        BY DEF IInv, MainInv
    <2> QED  BY <2>1, <2>2, <2>3
<1>4. TypeOK'
    BY <1>1, <1>2, <1>3 DEF IInv, TypeOK, history
<1>5. (FrontExists /\ MainInv /\ DropsWhatWasHandled)'
    BY <1>1, <1>2 DEF IInv, FrontExists, MainInv, DropsWhatWasHandled,
                      history
<1>6. HeaderInv'
    BY <1>1, HeaderStays DEF IInv, history
<1> QED  BY <1>4, <1>5, <1>6 DEF IInv
-----------------------------------------------------------------------------
\* Every step of the reader thread, the dispatcher, start and stop preserves the
\* invariant.
THEOREM Inductive == Spec => []IInv
<1>1. IInv /\ [Next]_vars => IInv'
    <2> SUFFICES ASSUME IInv, [Next]_vars PROVE IInv'  OBVIOUS
    <2>1. CASE \E m \in Message : SendPacket(m)
        BY <2>1, SendPacketInv
    <2>2. CASE ReceiveThread
        BY <2>2, ReadPacketInv, ReceiveThreadInv DEF ReceiveThread
    <2>3. CASE Update
        BY <2>3, GetPacketInv, HandlePacketInv, DropPacketInv DEF Update
    <2>4. CASE StopToStart \/ StopToClose \/ Start \/ Close
        BY <2>4, StartStopInv
    <2>5. CASE UNCHANGED vars
        <3>1. UNCHANGED <<inbox, receiver, queue, stopThread, main, reference, payload,
                          handled, skipped, restarts, sent, lost, overruns>>
            BY <2>5 DEF vars, thread, update, history
        <3>2. (TypeOK /\ FrontExists /\ MainInv /\ DropsWhatWasHandled)'
            BY <3>1 DEF IInv, TypeOK, FrontExists, MainInv, DropsWhatWasHandled
        <3>3. HeaderInv'
            BY <3>1, HeaderStays DEF IInv
        <3> QED  BY <3>2, <3>3 DEF IInv
    <2> QED  BY <2>1, <2>2, <2>3, <2>4, <2>5 DEF Next
<1> QED  BY InitInv, <1>1, PTL DEF Spec

\* Whatever the capacity of the queue: all variables keep their types, and the queue
\* its capacity.
THEOREM TypeCorrect == Spec => []TypeOK
<1>1. IInv => TypeOK  BY DEF IInv
<1> QED  BY <1>1, Inductive, PTL

\* getPacket is never called for an empty queue (reader.cpp, getPacket).
THEOREM FrontAlwaysExists == Spec => []FrontExists
<1>1. IInv => FrontExists  BY DEF IInv
<1> QED  BY <1>1, Inductive, PTL

\* The dispatcher puts the header of one packet to the payload of another at most as often
\* as the reader has popped, from a full queue, the packet it was working on.
THEOREM HeaderAlwaysMeetsPayload == Spec => []HeaderMeetsPayload
<1>1. IInv => HeaderMeetsPayload  BY DEF IInv, HeaderInv
<1> QED  BY <1>1, Inductive, PTL

\* dropPacket drops no more packets unhandled than were popped from under the dispatcher.
THEOREM AlwaysDropsWhatWasHandled == Spec => []DropsWhatWasHandled
<1>1. IInv => DropsWhatWasHandled  BY DEF IInv
<1> QED  BY <1>1, Inductive, PTL

-----------------------------------------------------------------------------
(* The order of the packets.  A packet moves from the socket to the queue,  *)
(* from there to the copy of the main thread and to what was handled, and   *)
(* none passes another on its way.                                          *)

Sent(s, m) == \E k \in DOMAIN s : s[k] = m

Before(s, a, b) == \E k, l \in DOMAIN s : k < l /\ s[k] = a /\ s[l] = b

Ordered(s) == \A i, j \in DOMAIN s : i < j => Before(sent, s[i], s[j])

AllSent ==
    /\ \A i \in DOMAIN inbox : Sent(sent, inbox[i])
    /\ \A i \in DOMAIN queue : Sent(sent, queue[i])
    /\ \A i \in DOMAIN handled : Sent(sent, handled[i].payload)

\* What is further on its way was sent earlier.  The front of the queue was handled
\* already when the main thread is about to drop it, unless the reader has popped it.
InLine ==
    /\ Ordered(queue) /\ Ordered(inbox)
    /\ \A i \in DOMAIN queue, j \in DOMAIN inbox : Before(sent, queue[i], inbox[j])
    /\ \A i \in DOMAIN handled, j \in DOMAIN inbox : Before(sent, handled[i].payload, inbox[j])
    /\ \A i \in DOMAIN handled, j \in DOMAIN queue :
           (main = "drop" /\ j = 1) \/ Before(sent, handled[i].payload, queue[j])

\* The same for the copy that is being handled: it is the front or not in the queue.
CopyInLine ==
    main = "handle" =>
        /\ Sent(sent, payload)
        /\ \A i \in DOMAIN handled : Before(sent, handled[i].payload, payload)
        /\ \A j \in DOMAIN inbox : Before(sent, payload, inbox[j])
        /\ \A j \in DOMAIN queue : j = 1 \/ Before(sent, payload, queue[j])

OrderInv == IInv /\ AllSent /\ InLine /\ CopyInLine /\ HandledInOrder

LEMMA TailElements ==
    ASSUME NEW S, NEW s \in Seq(S), s # <<>>, NEW j \in DOMAIN Tail(s)
    PROVE  /\ j \in Nat \ {0} /\ j + 1 \in DOMAIN s /\ 1 \in DOMAIN s
           /\ Tail(s)[j] = s[j + 1] /\ Head(s) = s[1]
<1>1. Len(s) \in Nat /\ Len(s) # 0
    BY EmptySeq, LenProperties
<1>2. Len(Tail(s)) = Len(s) - 1 /\ \A i \in 1 .. Len(Tail(s)) : Tail(s)[i] = s[i + 1]
    BY HeadTailProperties
<1>3. Tail(s) \in Seq(S)
    BY HeadTailProperties
<1>4. DOMAIN s = 1 .. Len(s) /\ DOMAIN Tail(s) = 1 .. Len(Tail(s))
    BY <1>3, LenProperties
<1> QED  BY <1>1, <1>2, <1>4

LEMMA AppendElements ==
    ASSUME NEW S, NEW s \in Seq(S), NEW e \in S, NEW j \in DOMAIN Append(s, e)
    PROVE  \/ j \in DOMAIN s /\ j \in Nat /\ j < Len(s) + 1 /\ Append(s, e)[j] = s[j]
           \/ j = Len(s) + 1 /\ Append(s, e)[j] = e
<1>1. Len(s) \in Nat /\ DOMAIN s = 1 .. Len(s)
    BY LenProperties
<1>2. /\ Append(s, e) \in Seq(S) /\ Len(Append(s, e)) = Len(s) + 1
      /\ \A i \in 1 .. Len(s) : Append(s, e)[i] = s[i]
      /\ Append(s, e)[Len(s) + 1] = e
    BY AppendProperties
<1>3. DOMAIN Append(s, e) = 1 .. Len(s) + 1
    BY <1>2, LenProperties
<1> QED  BY <1>1, <1>2, <1>3

\* What readPacket leaves in the queue was there, at the same place or one further back,
\* but for the newest packet, which is the last.
LEMMA StoreElements ==
    ASSUME TypeOK, NEW m \in Message
    PROVE  \E d \in {0, 1} : \A j \in DOMAIN Store(m) :
               \/ j = Len(Store(m)) /\ Store(m)[j] = m
               \/ /\ j \in Nat \ {0} /\ j < Len(Store(m)) /\ j + d \in DOMAIN queue
                  /\ Store(m)[j] = queue[j + d]
<1>1. queue \in Seq(Message)
    BY DEF TypeOK
<1>2. CASE QueueIsFull
    <2>1. queue # <<>>
        BY <1>2, StoreType
    <2>2. Tail(queue) \in Seq(Message)
        BY <1>1, <2>1, TailType
    <2>3. Store(m) = Append(Tail(queue), m) /\ Len(Store(m)) = Len(Tail(queue)) + 1
        BY <1>2, <2>2, AppendType DEF Store
    <2>4. ASSUME NEW j \in DOMAIN Store(m)
          PROVE  \/ j = Len(Store(m)) /\ Store(m)[j] = m
                 \/ /\ j \in Nat \ {0} /\ j < Len(Store(m)) /\ j + 1 \in DOMAIN queue
                    /\ Store(m)[j] = queue[j + 1]
        <3>1. \/ j \in DOMAIN Tail(queue) /\ j < Len(Store(m)) /\ Store(m)[j] = Tail(queue)[j]
              \/ j = Len(Store(m)) /\ Store(m)[j] = m
            BY <2>2, <2>3, <2>4, AppendElements
        <3>2. j \in DOMAIN Tail(queue) =>
                  j \in Nat \ {0} /\ j + 1 \in DOMAIN queue /\ Tail(queue)[j] = queue[j + 1]
            BY <1>1, <2>1, TailElements
        <3> QED  BY <3>1, <3>2
    <2> QED  BY <2>4
<1>3. CASE ~QueueIsFull
    <2>1. Store(m) = Append(queue, m) /\ Len(Store(m)) = Len(queue) + 1
        BY <1>1, <1>3, AppendType DEF Store
    <2>2. ASSUME NEW j \in DOMAIN Store(m)
          PROVE  \/ j = Len(Store(m)) /\ Store(m)[j] = m
                 \/ /\ j \in Nat \ {0} /\ j < Len(Store(m)) /\ j + 0 \in DOMAIN queue
                    /\ Store(m)[j] = queue[j + 0]
        <3>1. \/ j \in DOMAIN queue /\ j < Len(Store(m)) /\ Store(m)[j] = queue[j]
              \/ j = Len(Store(m)) /\ Store(m)[j] = m
            BY <1>1, <2>1, <2>2, AppendElements
        <3>2. j \in DOMAIN queue => j \in Nat \ {0} /\ j + 0 = j
            BY <1>1, LenProperties
        <3> QED  BY <3>1, <3>2
    <2> QED  BY <2>2
<1> QED  BY <1>2, <1>3

\* A message that is sent comes after all that were sent before.
LEMMA SentGrows ==
    ASSUME TypeOK, NEW m \in Message, SendPacket(m)
    PROVE  /\ \A a : Sent(sent, a) => Sent(sent', a) /\ Before(sent', a, m)
           /\ \A a, b : Before(sent, a, b) => Before(sent', a, b)
           /\ Sent(sent', m)
<1>1. sent \in Seq(Message) /\ sent' = Append(sent, m)
    BY DEF TypeOK, SendPacket
<1>2. Len(sent) \in Nat /\ DOMAIN sent = 1 .. Len(sent)
    BY <1>1, LenProperties
<1>3. /\ DOMAIN sent' = 1 .. Len(sent) + 1 /\ sent'[Len(sent) + 1] = m
      /\ \A k \in DOMAIN sent : sent'[k] = sent[k]
    BY <1>1, <1>2, AppendProperties, LenProperties
<1> QED  BY <1>2, <1>3 DEF Sent, Before

LEMMA SendPacketOrder ==
    ASSUME OrderInv, NEW m \in Message, SendPacket(m)
    PROVE  (AllSent /\ InLine /\ CopyInLine /\ HandledInOrder)'
<1>1. inbox \in Seq(Message) /\ inbox' = Append(inbox, m)
    BY DEF OrderInv, IInv, TypeOK, SendPacket
<1>2. UNCHANGED <<queue, main, payload, handled>>
    BY DEF SendPacket, update
<1>3. Len(inbox) \in Nat /\ DOMAIN inbox = 1 .. Len(inbox)
    BY <1>1, LenProperties
<1>4. /\ \A a : Sent(sent, a) => Sent(sent', a) /\ Before(sent', a, m)
      /\ \A a, b : Before(sent, a, b) => Before(sent', a, b)
      /\ Sent(sent', m)
    BY SentGrows DEF OrderInv, IInv
<1>5. \A j \in DOMAIN inbox' :
          \/ j \in DOMAIN inbox /\ j < Len(inbox) + 1 /\ inbox'[j] = inbox[j]
          \/ j = Len(inbox) + 1 /\ inbox'[j] = m
    BY <1>1, AppendElements
<1>6. AllSent'
    BY <1>2, <1>4, <1>5 DEF OrderInv, AllSent
<1>7. Ordered(inbox)'
    <2> SUFFICES ASSUME NEW i \in DOMAIN inbox', NEW j \in DOMAIN inbox', i < j
                 PROVE  Before(sent', inbox'[i], inbox'[j])
        BY DEF Ordered
    <2>1. i \in DOMAIN inbox /\ inbox'[i] = inbox[i] /\ Sent(sent, inbox[i])
        BY <1>3, <1>5 DEF OrderInv, AllSent
    <2>2. CASE j \in DOMAIN inbox /\ inbox'[j] = inbox[j]
        <3>1. Before(sent, inbox[i], inbox[j])
            BY <2>1, <2>2 DEF OrderInv, InLine, Ordered
        <3> QED  BY <1>4, <2>1, <2>2, <3>1
    <2>3. CASE inbox'[j] = m
        BY <1>4, <2>1, <2>3
    <2> QED  BY <1>5, <2>2, <2>3
<1>8. InLine'
    <2>1. Ordered(queue)'
        BY <1>2, <1>4 DEF OrderInv, InLine, Ordered
    <2>2. ASSUME NEW i \in DOMAIN queue', NEW j \in DOMAIN inbox'
          PROVE  Before(sent', queue'[i], inbox'[j])
        BY <1>2, <1>4, <1>5 DEF OrderInv, AllSent, InLine
    <2>3. ASSUME NEW i \in DOMAIN handled', NEW j \in DOMAIN inbox'
          PROVE  Before(sent', handled'[i].payload, inbox'[j])
        BY <1>2, <1>4, <1>5 DEF OrderInv, AllSent, InLine
    <2>4. ASSUME NEW i \in DOMAIN handled', NEW j \in DOMAIN queue'
          PROVE  (main' = "drop" /\ j = 1) \/ Before(sent', handled'[i].payload, queue'[j])
        BY <1>2, <1>4 DEF OrderInv, InLine
    <2> QED  BY <1>7, <2>1, <2>2, <2>3, <2>4 DEF InLine
<1>9. CopyInLine'
    BY <1>2, <1>4, <1>5 DEF OrderInv, CopyInLine
<1>10. HandledInOrder'
    <2>1. \A i, j \in DOMAIN handled :
              i < j => Before(sent, handled[i].payload, handled[j].payload)
        BY DEF OrderInv, HandledInOrder, Before
    <2>2. \A i, j \in DOMAIN handled' :
              i < j => Before(sent', handled'[i].payload, handled'[j].payload)
        BY <1>2, <1>4, <2>1
    <2> QED  BY <2>2 DEF HandledInOrder, Before
<1> QED  BY <1>6, <1>8, <1>9, <1>10

\* A message that readPacket takes from the socket and does not put into the queue, or
\* puts at its end.
LEMMA ReadPacketOrder ==
    ASSUME OrderInv, ReadPacket
    PROVE  (AllSent /\ InLine /\ CopyInLine /\ HandledInOrder)'
<1> DEFINE m == Head(inbox)
<1>1. inbox \in Seq(Message) /\ inbox # <<>> /\ inbox' = Tail(inbox) /\ m \in Message
    BY TailType DEF OrderInv, IInv, TypeOK, ReadPacket
<1>2. UNCHANGED <<sent, main, payload, handled>>
    BY DEF ReadPacket
<1>3. sent' = sent
    BY <1>2
<1>4. \A j \in DOMAIN inbox' : j \in Nat \ {0} /\ j + 1 \in DOMAIN inbox
                               /\ inbox'[j] = inbox[j + 1]
    BY <1>1, TailElements
<1>5. 1 \in DOMAIN inbox /\ m = inbox[1]
    BY <1>1, EmptySeq, LenProperties
<1>6. /\ Sent(sent, m)
      /\ \A j \in DOMAIN inbox' : Sent(sent, inbox'[j]) /\ Before(sent, m, inbox'[j])
      /\ Ordered(inbox)'
    <2>1. \A j \in DOMAIN inbox' : Sent(sent, inbox'[j])
        BY <1>4 DEF OrderInv, AllSent
    <2>2. ASSUME NEW j \in DOMAIN inbox' PROVE Before(sent, m, inbox'[j])
        <3>1. j + 1 \in DOMAIN inbox /\ 1 < j + 1 /\ inbox'[j] = inbox[j + 1]
            BY <1>4
        <3>2. Before(sent, inbox[1], inbox[j + 1])
            BY <1>5, <3>1 DEF OrderInv, InLine, Ordered
        <3> QED  BY <1>5, <3>1, <3>2
    <2>3. ASSUME NEW i \in DOMAIN inbox', NEW j \in DOMAIN inbox', i < j
          PROVE  Before(sent, inbox'[i], inbox'[j])
        <3>1. i + 1 \in DOMAIN inbox /\ j + 1 \in DOMAIN inbox /\ i + 1 < j + 1
              /\ inbox'[i] = inbox[i + 1] /\ inbox'[j] = inbox[j + 1]
            BY <1>4, <2>3
        <3> QED  BY <3>1 DEF OrderInv, InLine, Ordered
    <2> QED  BY <1>3, <1>5, <2>1, <2>2, <2>3 DEF OrderInv, AllSent, Ordered
<1>7. HandledInOrder'
    BY <1>2 DEF OrderInv, HandledInOrder
<1>8. CASE queue' = queue
    <2>1. AllSent'
        BY <1>2, <1>3, <1>6, <1>8 DEF OrderInv, AllSent
    <2>2. InLine'
        <3>1. Ordered(queue)'
            BY <1>3, <1>8 DEF OrderInv, InLine, Ordered
        <3> QED  BY <1>2, <1>3, <1>4, <1>6, <1>8, <3>1 DEF OrderInv, InLine
    <2>3. CopyInLine'
        BY <1>2, <1>3, <1>4, <1>8 DEF OrderInv, CopyInLine
    <2> QED  BY <1>7, <2>1, <2>2, <2>3
<1>9. CASE queue' = Store(m)
    <2>1. PICK d \in {0, 1} : \A j \in DOMAIN queue' :
               \/ j = Len(queue') /\ queue'[j] = m
               \/ /\ j \in Nat \ {0} /\ j < Len(queue') /\ j + d \in DOMAIN queue
                  /\ queue'[j] = queue[j + d]
        BY <1>1, <1>9, StoreElements DEF OrderInv, IInv
    <2>2. queue' \in Seq(Message) /\ Len(queue') \in Nat
          /\ \A j \in DOMAIN queue' : j \in Nat /\ j <= Len(queue')
        <3>1. queue' \in Seq(Message)
            BY <1>1, <1>9, StoreType DEF OrderInv, IInv
        <3> QED  BY <3>1, LenProperties
    <2>3. \A i \in DOMAIN queue : Sent(sent, queue[i]) /\ Before(sent, queue[i], m)
        BY <1>5 DEF OrderInv, AllSent, InLine
    <2>4. AllSent'
        <3>1. \A j \in DOMAIN queue' : Sent(sent, queue'[j])
            BY <1>6, <2>1, <2>3
        <3> QED  BY <1>2, <1>3, <1>6, <3>1 DEF OrderInv, AllSent
    <2>5. ASSUME NEW i \in DOMAIN queue', NEW j \in DOMAIN queue', i < j
          PROVE  Before(sent, queue'[i], queue'[j])
        <3>1. i \in Nat \ {0} /\ i + d \in DOMAIN queue /\ queue'[i] = queue[i + d]
            BY <2>1, <2>2, <2>5
        <3>2. CASE queue'[j] = m
            BY <2>3, <3>1, <3>2
        <3>3. CASE j \in Nat \ {0} /\ j + d \in DOMAIN queue /\ queue'[j] = queue[j + d]
            <4>1. i + d < j + d
                BY <2>5, <3>1, <3>3
            <4> QED  BY <3>1, <3>3, <4>1 DEF OrderInv, InLine, Ordered
        <3> QED  BY <2>1, <3>2, <3>3
    <2>6. ASSUME NEW i \in DOMAIN queue', NEW j \in DOMAIN inbox'
          PROVE  Before(sent, queue'[i], inbox'[j])
        <3>1. CASE queue'[i] = m
            BY <1>6, <3>1
        <3>2. CASE i + d \in DOMAIN queue /\ queue'[i] = queue[i + d]
            BY <1>4, <3>2 DEF OrderInv, InLine
        <3> QED  BY <2>1, <3>1, <3>2
    <2>7. ASSUME NEW i \in DOMAIN handled, NEW j \in DOMAIN queue'
          PROVE  (main = "drop" /\ j = 1) \/ Before(sent, handled[i].payload, queue'[j])
        <3>1. CASE queue'[j] = m
            BY <1>5, <3>1 DEF OrderInv, InLine
        <3>2. CASE j \in Nat \ {0} /\ j + d \in DOMAIN queue /\ queue'[j] = queue[j + d]
            <4>1. j + d = 1 => j = 1
                BY <3>2
            <4> QED  BY <3>2, <4>1 DEF OrderInv, InLine
        <3> QED  BY <2>1, <3>1, <3>2
    <2>8. InLine'
        <3>1. Ordered(queue)'
            BY <1>3, <2>5 DEF Ordered
        <3> QED  BY <1>2, <1>3, <1>4, <1>6, <2>6, <2>7, <3>1 DEF OrderInv, InLine
    <2>9. CopyInLine'
        <3> SUFFICES ASSUME main = "handle" PROVE CopyInLine'
            BY <1>2 DEF CopyInLine
        <3>1. ASSUME NEW j \in DOMAIN queue' PROVE j = 1 \/ Before(sent, payload, queue'[j])
            <4>1. CASE queue'[j] = m
                BY <1>5, <4>1 DEF OrderInv, CopyInLine
            <4>2. CASE j \in Nat \ {0} /\ j + d \in DOMAIN queue /\ queue'[j] = queue[j + d]
                <5>1. j + d = 1 => j = 1
                    BY <4>2
                <5> QED  BY <4>2, <5>1 DEF OrderInv, CopyInLine
            <4> QED  BY <2>1, <4>1, <4>2
        <3>2. \A j \in DOMAIN inbox' : Before(sent, payload, inbox'[j])
            BY <1>4 DEF OrderInv, CopyInLine
        <3> QED  BY <1>2, <1>3, <3>1, <3>2 DEF OrderInv, CopyInLine
    <2> QED  BY <1>7, <2>4, <2>8, <2>9
<1> QED  BY <1>8, <1>9 DEF ReadPacket

\* getPacketPayload copies the front: all that was handled came before it.
LEMMA GetPacketOrder ==
    ASSUME OrderInv, IsPacketAvailable \/ GetPacketHeader \/ GetPacketPayload
    PROVE  (AllSent /\ InLine /\ CopyInLine /\ HandledInOrder)'
<1>1. UNCHANGED <<inbox, queue, handled, sent>> /\ main # "drop" /\ main' # "drop"
    BY DEF IsPacketAvailable, GetPacketHeader, GetPacketPayload, thread, history
<1>2. sent' = sent
    BY <1>1
<1>3. AllSent' /\ HandledInOrder'
    BY <1>1, <1>2 DEF OrderInv, AllSent, HandledInOrder
<1>4. InLine'
    <2>1. Ordered(queue)' /\ Ordered(inbox)'
        BY <1>1, <1>2 DEF OrderInv, InLine, Ordered
    <2> QED  BY <1>1, <1>2, <2>1 DEF OrderInv, InLine
<1>5. CopyInLine'
    <2> SUFFICES ASSUME main' = "handle" PROVE CopyInLine'
        BY DEF CopyInLine
    <2>1. GetPacketPayload /\ payload' = queue[1] /\ queue # <<>>
        BY DEF OrderInv, IInv, FrontExists, IsPacketAvailable, GetPacketHeader,
               GetPacketPayload
    <2>2. 1 \in DOMAIN queue /\ \A j \in DOMAIN queue : j = 1 \/ 1 < j
        BY <2>1, EmptySeq, LenProperties DEF OrderInv, IInv, TypeOK
    <2>3. \A j \in DOMAIN queue : j = 1 \/ Before(sent, queue[1], queue[j])
        BY <2>2 DEF OrderInv, InLine, Ordered
    <2>4. /\ Sent(sent, queue[1])
          /\ \A i \in DOMAIN handled : Before(sent, handled[i].payload, queue[1])
          /\ \A j \in DOMAIN inbox : Before(sent, queue[1], inbox[j])
        BY <1>1, <2>2 DEF OrderInv, AllSent, InLine
    <2> QED  BY <1>1, <1>2, <2>1, <2>3, <2>4 DEF CopyInLine
<1> QED  BY <1>3, <1>4, <1>5

LEMMA HandlePacketOrder ==
    ASSUME OrderInv, HandlePacket
    PROVE  (AllSent /\ InLine /\ CopyInLine /\ HandledInOrder)'
<1> DEFINE h == [header |-> IF reference = "front" THEN Head(queue) ELSE Undefined,
                 payload |-> payload]
           Pair == [header : Message \cup {Undefined}, payload : Message]
<1>1. UNCHANGED <<inbox, queue, sent>> /\ main = "handle" /\ main' = "drop"
      /\ handled' = Append(handled, h)
    BY DEF HandlePacket, thread, history
<1>2. sent' = sent
    BY <1>1
<1>3. handled \in Seq(Pair) /\ h \in Pair /\ h.payload = payload
    BY <1>1 DEF OrderInv, IInv, TypeOK, MainInv
<1>4. Len(handled) \in Nat /\ DOMAIN handled = 1 .. Len(handled)
    BY <1>3, LenProperties
<1> HIDE DEF h, Pair
<1>5. ASSUME NEW i \in DOMAIN handled'
      PROVE  \/ i \in DOMAIN handled /\ i < Len(handled) + 1
                /\ handled'[i].payload = handled[i].payload
             \/ i = Len(handled) + 1 /\ handled'[i].payload = payload
    <2>1. \/ i \in DOMAIN handled /\ i < Len(handled) + 1 /\ handled'[i] = handled[i]
          \/ i = Len(handled) + 1 /\ handled'[i] = h
        BY <1>1, <1>3, AppendElements
    <2> QED  BY <1>3, <2>1
<1>6. /\ Sent(sent, payload)
      /\ \A i \in DOMAIN handled : Before(sent, handled[i].payload, payload)
      /\ \A j \in DOMAIN inbox : Before(sent, payload, inbox[j])
      /\ \A j \in DOMAIN queue : j = 1 \/ Before(sent, payload, queue[j])
    BY <1>1 DEF OrderInv, CopyInLine
<1>7. AllSent'
    BY <1>1, <1>2, <1>5, <1>6 DEF OrderInv, AllSent
<1>8. InLine'
    <2>1. Ordered(queue)' /\ Ordered(inbox)'
        BY <1>1, <1>2 DEF OrderInv, InLine, Ordered
    <2>2. \A i \in DOMAIN handled', j \in DOMAIN inbox' :
              Before(sent', handled'[i].payload, inbox'[j])
        BY <1>1, <1>2, <1>5, <1>6 DEF OrderInv, InLine
    <2>3. \A i \in DOMAIN handled', j \in DOMAIN queue' :
              j = 1 \/ Before(sent', handled'[i].payload, queue'[j])
        BY <1>1, <1>2, <1>5, <1>6 DEF OrderInv, InLine
    <2> QED  BY <1>1, <1>2, <2>1, <2>2, <2>3 DEF OrderInv, InLine
<1>9. CopyInLine'
    BY <1>1 DEF CopyInLine
<1>10. HandledInOrder'
    <2>1. ASSUME NEW i \in DOMAIN handled', NEW j \in DOMAIN handled', i < j
          PROVE  Before(sent, handled'[i].payload, handled'[j].payload)
        <3>1. i \in DOMAIN handled /\ handled'[i].payload = handled[i].payload
            BY <1>4, <1>5, <2>1
        <3>2. CASE j \in DOMAIN handled /\ handled'[j].payload = handled[j].payload
            BY <2>1, <3>1, <3>2 DEF OrderInv, HandledInOrder, Before
        <3>3. CASE handled'[j].payload = payload
            BY <1>6, <3>1, <3>3
        <3> QED  BY <1>5, <3>2, <3>3
    <2>2. \A i, j \in DOMAIN handled' :
              i < j => Before(sent', handled'[i].payload, handled'[j].payload)
        BY <1>2, <2>1
    <2> QED  BY <2>2 DEF HandledInOrder, Before
<1> QED  BY <1>7, <1>8, <1>9, <1>10

\* dropPacket drops the one packet of the queue that may have been handled.
LEMMA DropPacketOrder ==
    ASSUME OrderInv, DropPacket
    PROVE  (AllSent /\ InLine /\ CopyInLine /\ HandledInOrder)'
<1>1. UNCHANGED <<inbox, handled, sent>> /\ main' = "idle"
    BY DEF DropPacket, history
<1>2. sent' = sent
    BY <1>1
<1>3. \A j \in DOMAIN queue' : j \in Nat \ {0} /\ j + 1 \in DOMAIN queue
                               /\ queue'[j] = queue[j + 1]
    <2>1. CASE queue = <<>>
        BY <2>1 DEF DropPacket
    <2>2. CASE queue # <<>>
        BY <2>2, TailElements DEF DropPacket, OrderInv, IInv, TypeOK
    <2> QED  BY <2>1, <2>2
<1>4. AllSent' /\ HandledInOrder'
    BY <1>1, <1>2, <1>3 DEF OrderInv, AllSent, HandledInOrder
<1>5. InLine'
    <2>1. ASSUME NEW i \in DOMAIN queue', NEW j \in DOMAIN queue', i < j
          PROVE  Before(sent, queue'[i], queue'[j])
        <3>1. i + 1 \in DOMAIN queue /\ j + 1 \in DOMAIN queue /\ i + 1 < j + 1
              /\ queue'[i] = queue[i + 1] /\ queue'[j] = queue[j + 1]
            BY <1>3, <2>1
        <3> QED  BY <3>1 DEF OrderInv, InLine, Ordered
    <2>2. Ordered(queue)' /\ Ordered(inbox)'
        BY <1>1, <1>2, <2>1 DEF OrderInv, InLine, Ordered
    <2>3. \A i \in DOMAIN queue', j \in DOMAIN inbox' : Before(sent, queue'[i], inbox'[j])
        BY <1>1, <1>3 DEF OrderInv, InLine
    <2>4. ASSUME NEW i \in DOMAIN handled, NEW j \in DOMAIN queue'
          PROVE  Before(sent, handled[i].payload, queue'[j])
        <3>1. j + 1 # 1 /\ j + 1 \in DOMAIN queue /\ queue'[j] = queue[j + 1]
            BY <1>3
        <3> QED  BY <3>1 DEF OrderInv, InLine
    <2> QED  BY <1>1, <1>2, <2>2, <2>3, <2>4 DEF OrderInv, InLine
<1>6. CopyInLine'
    BY <1>1 DEF CopyInLine
<1> QED  BY <1>4, <1>5, <1>6

\* The steps that move no packet.
LEMMA IdleOrder ==
    ASSUME OrderInv, UNCHANGED <<inbox, queue, payload, handled, sent>>,
           main' = main \/ (main \notin {"handle", "drop"} /\ main' # "handle")
    PROVE  (AllSent /\ InLine /\ CopyInLine /\ HandledInOrder)'
<1>1. sent' = sent
    OBVIOUS
<1>2. AllSent' /\ HandledInOrder'
    BY <1>1 DEF OrderInv, AllSent, HandledInOrder
<1>3. InLine'
    <2>1. Ordered(queue)' /\ Ordered(inbox)'
        BY <1>1 DEF OrderInv, InLine, Ordered
    <2> QED  BY <1>1, <2>1 DEF OrderInv, InLine
<1>4. CopyInLine'
    BY <1>1 DEF OrderInv, CopyInLine
<1> QED  BY <1>2, <1>3, <1>4

\* The queue passes the packets on in the order in which they were sent, and the main
\* thread handles none twice, whatever the reader pops from under it.
THEOREM OrderAlways == Spec => []OrderInv
<1>1. Init => OrderInv
    <2> SUFFICES ASSUME Init PROVE OrderInv  OBVIOUS
    <2>1. inbox = <<>> /\ queue = <<>> /\ handled = <<>> /\ main = "idle"
        BY DEF Init
    <2> QED  BY <2>1, InitInv DEF OrderInv, AllSent, InLine, Ordered, CopyInLine,
                                  HandledInOrder
<1>2. IInv' /\ OrderInv /\ [Next]_vars => OrderInv'
    <2> SUFFICES ASSUME OrderInv, [Next]_vars
                 PROVE  (AllSent /\ InLine /\ CopyInLine /\ HandledInOrder)'
        BY DEF OrderInv
    <2>1. CASE \E m \in Message : SendPacket(m)
        BY <2>1, SendPacketOrder
    <2>2. CASE ReceiveThread
        <3>1. CASE CheckStop \/ NoMessage \/ Poll
            <4>1. UNCHANGED <<inbox, queue, payload, handled, sent, main>>
                BY <3>1 DEF CheckStop, NoMessage, Poll, update, history
            <4> QED  BY <4>1, IdleOrder
        <3> QED  BY <2>2, <3>1, ReadPacketOrder DEF ReceiveThread
    <2>3. CASE Update
        BY <2>3, GetPacketOrder, HandlePacketOrder, DropPacketOrder DEF Update
    <2>4. CASE StopToStart \/ StopToClose \/ Start \/ Close
        <3>1. UNCHANGED <<inbox, queue, payload, handled, sent>>
              /\ main \notin {"handle", "drop"} /\ main' # "handle"
            BY <2>4 DEF StopToStart, StopToClose, Stop, Start, Close, thread, history
        <3> QED  BY <3>1, IdleOrder
    <2>5. CASE UNCHANGED vars
        <3>1. UNCHANGED <<inbox, queue, payload, handled, sent, main>>
            BY <2>5 DEF vars, thread, update, history
        <3> QED  BY <3>1, IdleOrder
    <2> QED  BY <2>1, <2>2, <2>3, <2>4, <2>5 DEF Next
<1> QED  BY <1>1, <1>2, Inductive, PTL DEF Spec

\* No packet is handled twice and none overtakes another, whatever the capacity of the
\* queue and whatever is lost (reader.cpp, readPacket and dropPacket).
THEOREM AlwaysHandledInOrder == Spec => []HandledInOrder
<1>1. OrderInv => HandledInOrder  BY DEF OrderInv
<1> QED  BY <1>1, OrderAlways, PTL
=============================================================================
