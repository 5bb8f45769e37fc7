---------------------------- MODULE BoundedFifo ----------------------------
(***************************************************************************)
(* What a queue between one producer and one consumer promises: elements   *)
(* come out in the order they went in, none is lost or repeated, and push  *)
(* fails only when N elements are stored.                                  *)
(***************************************************************************)
EXTENDS Naturals, Sequences

CONSTANTS Element, N

VARIABLES
    fifo,       \* the elements that are stored
    taken,      \* the elements the consumer has taken
    answer      \* what the last push returned

vars == <<fifo, taken, answer>>

Init == fifo = <<>> /\ taken = <<>> /\ answer = TRUE

Push(e) ==
    /\ Len(fifo) < N
    /\ fifo' = Append(fifo, e) /\ answer' = TRUE
    /\ UNCHANGED taken

Refuse ==
    /\ Len(fifo) = N
    /\ answer' = FALSE
    /\ UNCHANGED <<fifo, taken>>

Pop ==
    /\ fifo # <<>>
    /\ taken' = Append(taken, Head(fifo)) /\ fifo' = Tail(fifo)
    /\ UNCHANGED answer

Next == (\E e \in Element : Push(e)) \/ Refuse \/ Pop

Spec == Init /\ [][Next]_vars
=============================================================================
