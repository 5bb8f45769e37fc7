------------------------- MODULE AtomicQueueProofs -------------------------
(***************************************************************************)
(* The atomic queue is a bounded FIFO for every capacity its 16 bit        *)
(* indices allow, and every interleaving of one producer and one consumer. *)
(***************************************************************************)
EXTENDS AtomicQueue, TLAPS

\* What push has found out stays true until it publishes, and what get has found out
\* until pop gives up the place.
PushInv ==
    /\ producer # "idle" => ~IsFull
    /\ producer = "publish" => buffer[head] = value

PopInv ==
    /\ consumer # "idle" => ~IsEmpty
    /\ consumer = "pop" => element = buffer[tail]

IInv == TypeOK /\ PushInv /\ PopInv

-----------------------------------------------------------------------------
(* The indices                                                             *)

\* The index does not overflow: the ring has N + 1 places.
LEMMA NextIndexValue ==
    ASSUME N \in Nat, 0 < N, N < 65536, NEW i \in 0 .. N
    PROVE  NextIndex(i) = IF i = N THEN 0 ELSE i + 1
<1>1. i \in Int /\ 0 <= i /\ i <= N  OBVIOUS
<1>2. CASE N >= 254
    <2>1. IndexSize = 65536  BY <1>2 DEF IndexSize
    <2>2. (i + 1) % 65536 = IF i = 65535 THEN 0 ELSE i + 1  BY <1>1
    <2> QED  BY <1>1, <2>1, <2>2 DEF NextIndex
<1>3. CASE ~(N >= 254)
    <2>1. IndexSize = 256  BY <1>3 DEF IndexSize
    <2>2. (i + 1) % 256 = i + 1  BY <1>1, <1>3
    <2> QED  BY <1>1, <2>1, <2>2 DEF NextIndex
<1> QED  BY <1>2, <1>3

\* A number that fits is not changed by the width of its type.
LEMMA Reduced ==
    /\ \A x \in Int : 0 <= x /\ x < 256 => x % 256 = x
    /\ \A x \in Int : 0 <= x /\ x < 65536 => x % 65536 = x
OBVIOUS

LEMMA NextIndexType ==
    ASSUME N \in Nat, 0 < N, N < 65536, NEW i \in 0 .. N
    PROVE  NextIndex(i) \in 0 .. N
<1>1. N \in Nat  OBVIOUS
<1>2. NextIndex(i) = IF i = N THEN 0 ELSE i + 1  BY NextIndexValue
<1> QED  BY <1>1, <1>2

\* Two indices that differ still differ one further.
LEMMA NextIndexInjective ==
    ASSUME N \in Nat, 0 < N, N < 65536, NEW i \in 0 .. N, NEW j \in 0 .. N,
           NextIndex(i) = NextIndex(j)
    PROVE  i = j
BY NextIndexValue

LEMMA CountBounds ==
    ASSUME N \in Nat, 0 < N, N < 65536, TypeOK
    PROVE  /\ Count \in 0 .. N
           /\ IsFull <=> Count = N
           /\ IsEmpty <=> Count = 0
BY NextIndexValue DEF TypeOK, Count, IsFull, IsEmpty

\* The places of the stored elements are places of the ring, and that of head is not
\* among them.
LEMMA PlaceType ==
    ASSUME N \in Nat, 0 < N, N < 65536, TypeOK, NEW k \in 1 .. Count
    PROVE  Place(k) \in 0 .. N /\ Place(k) # head
BY DEF TypeOK, Count, Place

LEMMA StoredType ==
    ASSUME N \in Nat, 0 < N, N < 65536, TypeOK
    PROVE  Stored \in Seq(Element) /\ Len(Stored) = Count
<1>1. \A k \in 1 .. Count : buffer[Place(k)] \in Element
    BY PlaceType DEF TypeOK
<1>2. Count \in Nat  BY CountBounds
<1> QED  BY <1>1, <1>2 DEF Stored

-----------------------------------------------------------------------------
(* The invariant                                                           *)

LEMMA InitInv == ASSUME N \in Nat, 0 < N, N < 65536, Init PROVE IInv
BY DEF Init, IInv, TypeOK, PushInv, PopInv

LEMMA PushKeepsInv == ASSUME N \in Nat, 0 < N, N < 65536, IInv, Push PROVE IInv'
<1> USE DEF IInv, TypeOK, PushInv, PopInv, IsFull, IsEmpty, popping
<1>1. CASE \E e \in Element : PushFails(e)
    <2>1. UNCHANGED <<buffer, head, producer, value, tail, consumer, element, taken>>
        BY <1>1 DEF PushFails
    <2>2. answer' \in BOOLEAN /\ producer = "idle"  BY <1>1, SMTT(30) DEF PushFails
    <2>3. NextIndex(head)' = NextIndex(head) /\ NextIndex(tail)' = NextIndex(tail)
        BY <2>1 DEF NextIndex
    <2> QED  BY <2>1, <2>2, <2>3
<1>2. CASE \E e \in Element : PushStarts(e)  BY <1>2 DEF PushStarts
<1>3. CASE PushWrites  BY <1>3 DEF PushWrites
<1>4. CASE PushPublishes
    <2>1. NextIndex(head) \in 0 .. N  BY NextIndexType
    <2> QED  BY <1>4, <2>1 DEF PushPublishes
<1> QED  BY <1>1, <1>2, <1>3, <1>4 DEF Push

LEMMA ConsumerKeepsInv ==
    ASSUME N \in Nat, 0 < N, N < 65536, IInv, FindsElement \/ Get \/ Pop PROVE IInv'
<1> USE DEF IInv, TypeOK, PushInv, PopInv, IsFull, IsEmpty, pushing
<1>1. CASE FindsElement  BY <1>1 DEF FindsElement
<1>2. CASE Get  BY <1>2 DEF Get
<1>3. CASE Pop
    <2>1. NextIndex(tail) \in 0 .. N  BY NextIndexType
    <2>2. NextIndex(head) # NextIndex(tail)  BY <1>3, NextIndexInjective DEF Pop
    <2>3. Append(taken, element) \in Seq(Element)  OBVIOUS
    <2> QED  BY <1>3, <2>1, <2>2, <2>3 DEF Pop
<1> QED  BY <1>1, <1>2, <1>3

\* Every step of producer and consumer keeps what the other side relies on.
THEOREM Inductive == ASSUME N \in Nat, 0 < N, N < 65536 PROVE Spec => []IInv
<1>1. IInv /\ [Next]_vars => IInv'
    <2>1. ASSUME IInv, UNCHANGED vars PROVE IInv'
        BY <2>1 DEF vars, pushing, popping, IInv, TypeOK, PushInv, PopInv, IsFull, IsEmpty
    <2> QED  BY <2>1, PushKeepsInv, ConsumerKeepsInv DEF Next
<1> QED  BY InitInv, <1>1, PTL DEF Spec

-----------------------------------------------------------------------------
(* Refinement: an element is stored when push publishes it, and taken when *)
(* pop gives up its place.                                                 *)

LEMMA InitRefines == ASSUME N \in Nat, 0 < N, N < 65536, Init PROVE Fifo!Init
<1>1. Count = 0  BY DEF Init, Count
<1>2. TypeOK  BY InitInv DEF IInv
<1>3. Stored \in Seq(Element) /\ Len(Stored) = 0  BY <1>1, <1>2, StoredType
<1>4. Stored = <<>>  BY <1>3
<1> QED  BY <1>4 DEF Init, Fifo!Init

LEMMA WriteRefines ==
    ASSUME N \in Nat, 0 < N, N < 65536, IInv, PushWrites
    PROVE  UNCHANGED <<Stored, taken, answer>>
<1>1. \A k \in 1 .. Count : buffer'[Place(k)] = buffer[Place(k)]
    BY PlaceType DEF IInv, TypeOK, PushWrites
<1>2. Count' = Count  BY DEF PushWrites, popping, Count
<1>3. \A k : Place(k)' = Place(k)  BY DEF PushWrites, popping, Place
<1>4. Stored' = Stored  BY <1>1, <1>2, <1>3 DEF Stored
<1> QED  BY <1>4 DEF PushWrites, popping

LEMMA PublishRefines ==
    ASSUME N \in Nat, 0 < N, N < 65536, IInv, PushPublishes PROVE Fifo!Push(value)
<1>1. Count < N /\ Count \in Nat  BY CountBounds DEF IInv, PushInv, PushPublishes
<1>2. Count' = Count + 1
    BY <1>1, NextIndexValue DEF IInv, TypeOK, Count, PushPublishes, popping
<1>3. Place(Count + 1) = head
    BY <1>1 DEF IInv, TypeOK, Count, Place
<1>4. Stored' = [k \in 1 .. Count + 1 |-> buffer[Place(k)]]
    BY <1>2 DEF Stored, Place, PushPublishes, popping
<1>5. Stored \in Seq(Element) /\ Len(Stored) = Count  BY StoredType DEF IInv
<1>6. buffer[Place(Count + 1)] = value  BY <1>3 DEF IInv, PushInv, PushPublishes
<1>7. Append(Stored, value) = [k \in 1 .. Count + 1 |-> buffer[Place(k)]]
    BY <1>1, <1>5, <1>6 DEF Stored
<1> QED  BY <1>1, <1>4, <1>5, <1>7 DEF Fifo!Push, PushPublishes, popping

LEMMA PopRefines == ASSUME N \in Nat, 0 < N, N < 65536, IInv, Pop PROVE Fifo!Pop
<1>1. Count > 0 /\ Count \in Nat  BY CountBounds DEF IInv, PopInv, Pop
<1>2. Count' = Count - 1
    BY <1>1, NextIndexValue DEF IInv, TypeOK, Count, Pop, pushing
<1>3. \A k \in 1 .. Count - 1 : Place(k)' = Place(k + 1)
    BY <1>1, NextIndexValue DEF IInv, TypeOK, Count, Place, Pop, pushing
<1>4. Stored' = [k \in 1 .. Count - 1 |-> buffer[Place(k + 1)]]
    BY <1>2, <1>3 DEF Stored, Pop
<1>5. Stored \in Seq(Element) /\ Len(Stored) = Count  BY StoredType DEF IInv
<1>6. Stored # <<>>  BY <1>1, <1>5
<1>7. Head(Stored) = element
    <2>1. Place(1) = tail  BY DEF Place, IInv, TypeOK
    <2>2. Stored[1] = buffer[tail]  BY <1>1, <2>1 DEF Stored
    <2> QED  BY <1>5, <1>6, <2>2 DEF IInv, PopInv, Pop
<1>8. Tail(Stored) = [k \in 1 .. Count - 1 |-> buffer[Place(k + 1)]]
    BY <1>1, <1>5, <1>6 DEF Stored
<1> QED  BY <1>4, <1>6, <1>7, <1>8 DEF Fifo!Pop, Pop, pushing

\* All other steps change nothing the FIFO is made of.
LEMMA OthersRefine ==
    ASSUME UNCHANGED <<buffer, head, tail, taken, answer>>
    PROVE  UNCHANGED <<Stored, taken, answer>>
BY DEF Stored, Count, Place

LEMMA StepRefines ==
    ASSUME N \in Nat, 0 < N, N < 65536, IInv, [Next]_vars PROVE [Fifo!Next]_(Fifo!vars)
<1> USE DEF Fifo!vars
<1>1. CASE \E e \in Element : PushFails(e)
    <2>1. Stored' = Stored
        BY <1>1 DEF PushFails, popping, Stored, Count, Place
    <2>2. Len(Stored) = N  BY <1>1, StoredType, CountBounds DEF IInv, PushFails
    <2>3. Fifo!Refuse  BY <1>1, <2>1, <2>2 DEF PushFails, popping, Fifo!Refuse
    <2> QED  BY <2>3 DEF Fifo!Next
<1>2. CASE \E e \in Element : PushStarts(e)
    BY <1>2, OthersRefine DEF PushStarts, popping
<1>3. CASE PushWrites  BY <1>3, WriteRefines
<1>4. CASE PushPublishes
    BY <1>4, PublishRefines DEF IInv, TypeOK, Fifo!Next
<1>5. CASE FindsElement \/ Get
    BY <1>5, OthersRefine DEF FindsElement, Get, pushing
<1>6. CASE Pop  BY <1>6, PopRefines DEF Fifo!Next
<1>7. CASE UNCHANGED vars  BY <1>7, OthersRefine DEF vars, pushing, popping
<1> QED  BY <1>1, <1>2, <1>3, <1>4, <1>5, <1>6, <1>7 DEF Next, Push

\* No interleaving of push and pop loses, repeats, overtakes or overwrites an element,
\* and push fails only if N elements are stored.
THEOREM QueueImplementsFifo == ASSUME N \in Nat, 0 < N, N < 65536 PROVE Spec => ImplementsFifo
<1>1. Init => Fifo!Init  BY InitRefines
<1>2. IInv /\ [Next]_vars => [Fifo!Next]_(Fifo!vars)  BY StepRefines
<1> QED  BY <1>1, <1>2, Inductive, PTL DEF Spec, ImplementsFifo, Fifo!Spec

\* isNearlyFull is true exactly if less than two elements fit, unless N + 1 does not fit
\* into Index: the interrupt that pushes sees this although main pops meanwhile.
THEOREM NearlyFullAlwaysCounts ==
    ASSUME N \in Nat, 0 < N, N < 65535 PROVE Spec => []NearlyFullCounts
<1>1. IInv => NearlyFullCounts
    <2> HAVE IInv
    <2> DEFINE free == IF head >= tail THEN N + 1 - head + tail ELSE tail - head
    <2>1. head \in 0 .. N /\ tail \in 0 .. N  BY DEF IInv, TypeOK
    <2>2. free \in 0 .. N + 1  BY <2>1
    <2>3. free % IndexSize = free
        <3>1. CASE N >= 254
            <4>1. IndexSize = 65536  BY <3>1 DEF IndexSize
            <4>2. free \in Int /\ 0 <= free /\ free < 65536  BY <2>2
            <4> QED  BY <4>1, <4>2, Reduced
        <3>2. CASE ~(N >= 254)
            <4>1. IndexSize = 256  BY <3>2 DEF IndexSize
            <4>2. free \in Int /\ 0 <= free /\ free < 256  BY <2>2, <3>2
            <4> QED  BY <4>1, <4>2, Reduced
        <3> QED  BY <3>1, <3>2
    <2>4. IsNearlyFull <=> free < 3  BY <2>3 DEF IsNearlyFull
    <2>5. Count = N + 1 - free  BY <2>1 DEF Count
    <2> QED  BY <2>2, <2>4, <2>5 DEF NearlyFullCounts
<1>2. Spec => []IInv  BY Inductive
<1> QED  BY <1>1, <1>2, PTL

\* isNearlyEmpty is true exactly if less than three elements are stored, as long as
\* eight bits are enough for the indices.
THEOREM NearlyEmptyAlwaysCounts ==
    ASSUME N \in Nat, 0 < N, N < 256 PROVE Spec => []NearlyEmptyCounts
<1>1. IInv => NearlyEmptyCounts
    <2> HAVE IInv
    <2>1. head \in 0 .. N /\ tail \in 0 .. N  BY DEF IInv, TypeOK
    <2>2. head % 256 = head
        <3>1. head \in Int /\ 0 <= head /\ head < 256  BY <2>1
        <3> QED  BY <3>1, Reduced
    <2>3. tail % 256 = tail
        <3>1. tail \in Int /\ 0 <= tail /\ tail < 256  BY <2>1
        <3> QED  BY <3>1, Reduced
    <2>4. Count \in 0 .. N  BY <2>1 DEF Count
    <2>5. Count % IndexSize = Count
        <3>1. CASE N >= 254
            <4>1. IndexSize = 65536  BY <3>1 DEF IndexSize
            <4>2. Count \in Int /\ 0 <= Count /\ Count < 65536  BY <2>4
            <4> QED  BY <4>1, <4>2, Reduced
        <3>2. CASE ~(N >= 254)
            <4>1. IndexSize = 256  BY <3>2 DEF IndexSize
            <4>2. Count \in Int /\ 0 <= Count /\ Count < 256  BY <2>4, <3>2
            <4> QED  BY <4>1, <4>2, Reduced
        <3> QED  BY <3>1, <3>2
    <2>6. Count = IF head >= tail THEN head - tail ELSE N + 1 - tail + head
        BY <2>1 DEF Count
    <2>7. IsNearlyEmpty <=> Count < 3  BY <2>2, <2>3, <2>5, <2>6 DEF IsNearlyEmpty
    <2> QED  BY <2>7 DEF NearlyEmptyCounts
<1>2. Spec => []IInv  BY Inductive
<1> QED  BY <1>1, <1>2, PTL
=============================================================================
