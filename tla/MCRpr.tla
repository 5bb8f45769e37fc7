------------------------------- MODULE MCRpr -------------------------------
(***************************************************************************)
(* Instances of Rpr: three stations and their messages.                    *)
(***************************************************************************)
EXTENDS Rpr

CONSTANTS A, B, C,      \* stations
          a1, a2, b1  \* messages

Ring == A :> B @@ B :> C @@ C :> A

\* 0x0101, 0x0202 and 0x0303: with a payload byte of 1 the addresses that are read when
\* a byte is missing are those of no station, of A or those that were meant.
Addresses == A :> 257 @@ B :> 514 @@ C :> 771

\* Only C is in group 5.
Groups == A :> 7 @@ B :> 6 @@ C :> 5

\* B sends to all, A to C alone and to its group.
Scripts == A :> <<a1, a2>> @@ B :> <<b1>> @@ C :> <<>>
Types == a1 :> "UNICAST" @@ a2 :> "MULTICAST" @@ b1 :> "BROADCAST"
Sources == a1 :> A @@ a2 :> A @@ b1 :> B
Destinations == a1 :> 771 @@ a2 :> 5 @@ b1 :> 0

\* A listens for messages of B to all only, B and C listen for everything.
Listeners ==
    LET all == {[type |-> "ANY", source |-> ADDRESS_ANY]} IN
    A :> {[type |-> "BROADCAST", source |-> 514]} @@ B :> all @@ C :> all

\* What the theorems about HandledOnce and OrderKept ask of the messages.
ASSUME DistinctMessages /\ GroupsAreNotAll
=============================================================================
