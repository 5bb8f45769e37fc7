---------------------------- MODULE AtomicQueue ----------------------------
(***************************************************************************)
(* The ring between an interrupt and the main loop of the buffered UART    *)
(* and CAN drivers (architecture/driver/atomic): one of them pushes, the   *)
(* other one pops, and neither locks.                                      *)
(*                                                                         *)
(* Each access to a variable the other side uses is a step of its own, so  *)
(* either side may be the interrupt.  buffer and the stores to head are    *)
(* not volatile; this is a build that keeps their order.                   *)
(***************************************************************************)
EXTENDS Integers, Sequences

CONSTANTS
    Element,    \* T
    N           \* capacity

VARIABLES
    head, tail, buffer,
    producer, value,    \* where push is, and its argument
    consumer, element,  \* where isEmpty, get and pop are, and what get returned
    answer,             \* what the last push returned
    taken               \* history: the elements that were popped

pushing == <<head, producer, value, answer>>
popping == <<tail, consumer, element, taken>>
vars == <<buffer, pushing, popping>>

\* The type of the indices: 16 bits, or 8 for queues of less than 254 elements.
IndexSize == IF N >= 254 THEN 65536 ELSE 256

\* The index one further.
NextIndex(i) ==
    LET next == (i + 1) % IndexSize IN IF next >= N + 1 THEN 0 ELSE next

IsFull == NextIndex(head) = tail
IsEmpty == head = tail

\* The place is given up before it is used, isFull cannot be told from isEmpty otherwise.
IsNearlyFull ==
    LET free == (IF head >= tail THEN N + 1 - head + tail ELSE tail - head) % IndexSize
    IN  free < 3

\* The indices are read into eight bits.
IsNearlyEmpty ==
    LET tmphead == head % 256
        tmptail == tail % 256
        stored == (IF tmphead >= tmptail THEN tmphead - tmptail
                                         ELSE N + 1 - tmptail + tmphead) % IndexSize
    IN  stored < 3

-----------------------------------------------------------------------------
(* push                                                                    *)

PushFails(e) ==
    /\ producer = "idle" /\ IsFull
    /\ answer' = FALSE
    /\ UNCHANGED <<buffer, head, producer, value, popping>>

\* The element fits: the consumer can only make more room.
PushStarts(e) ==
    /\ producer = "idle" /\ ~IsFull
    /\ producer' = "write" /\ value' = e
    /\ UNCHANGED <<buffer, head, answer, popping>>

PushWrites ==
    /\ producer = "write"
    /\ producer' = "publish" /\ buffer' = [buffer EXCEPT ![head] = value]
    /\ UNCHANGED <<head, value, answer, popping>>

PushPublishes ==
    /\ producer = "publish"
    /\ producer' = "idle" /\ head' = NextIndex(head) /\ answer' = TRUE
    /\ UNCHANGED <<buffer, value, popping>>

Push == (\E e \in Element : PushFails(e) \/ PushStarts(e)) \/ PushWrites \/ PushPublishes

-----------------------------------------------------------------------------
(* The consumer asks isEmpty, then calls get and pop, as the drivers do.   *)

FindsElement ==
    /\ consumer = "idle" /\ ~IsEmpty
    /\ consumer' = "get"
    /\ UNCHANGED <<buffer, pushing, tail, element, taken>>

Get ==
    /\ consumer = "get"
    /\ consumer' = "pop" /\ element' = buffer[tail]
    /\ UNCHANGED <<buffer, pushing, tail, taken>>

Pop ==
    /\ consumer = "pop"
    /\ consumer' = "idle" /\ tail' = NextIndex(tail)
    /\ taken' = Append(taken, element)
    /\ UNCHANGED <<buffer, pushing, element>>

-----------------------------------------------------------------------------
Init ==
    /\ head = 0 /\ tail = 0 /\ buffer \in [0 .. N -> Element]
    /\ producer = "idle" /\ value \in Element /\ answer = TRUE
    /\ consumer = "idle" /\ element \in Element /\ taken = <<>>

Next == Push \/ FindsElement \/ Get \/ Pop

Spec == Init /\ [][Next]_vars

-----------------------------------------------------------------------------
(* Properties                                                              *)

TypeOK ==
    /\ head \in 0 .. N /\ tail \in 0 .. N
    /\ buffer \in [0 .. N -> Element]
    /\ producer \in {"idle", "write", "publish"} /\ value \in Element
    /\ consumer \in {"idle", "get", "pop"} /\ element \in Element
    /\ answer \in BOOLEAN /\ taken \in Seq(Element)

Count == IF head >= tail THEN head - tail ELSE head + N + 1 - tail

\* The place of the k-th element that is stored.
Place(k) == IF tail + k - 1 > N THEN tail + k - 1 - (N + 1) ELSE tail + k - 1

Stored == [k \in 1 .. Count |-> buffer[Place(k)]]

Fifo == INSTANCE BoundedFifo WITH fifo <- Stored

\* "Interrupt save queue" (queue.hpp:46): wherever the one side interrupts the other,
\* the queue is a bounded FIFO.
ImplementsFifo == Fifo!Spec

\* The RTS line of a UART is set when less than two more elements fit (isNearlyFull).
NearlyFullCounts == IsNearlyFull <=> N - Count < 2

\* It is reset when less than three elements are stored (isNearlyEmpty).
NearlyEmptyCounts == IsNearlyEmpty <=> Count < 3
=============================================================================
