--------------------------- MODULE MCCanConnector ---------------------------
(***************************************************************************)
(* Instances of CanConnector: the boards and the packets of the runs.      *)
(***************************************************************************)
EXTENDS CanConnector

CONSTANTS A, B, C  \* boards

H(type, ack, destination, source, id) ==
    [type |-> type, isAcknowledge |-> ack, destination |-> destination,
     source |-> source, packetIdentifier |-> id]

Call == H("REQUEST", FALSE, 2, 1, 17)
Answer == H("RESPONSE", FALSE, 1, 2, 17)
Ack == H("REQUEST", TRUE, 1, 2, 17)

P(header, size) == [header |-> header, size |-> size]

\* A calls the same action twice, B answers with a packet that is too large.
TwoTalk == A :> <<P(Call, 12), P(Call, 18)>>
        @@ B :> <<P(Answer, 50)>>

\* A and C send packets of the smallest sizes to a board that only listens; the last
\* fragment of A's holds one byte.
TwoToOne == A :> <<P(Call, 13), P(Call, 8), P(Call, 13)>>
         @@ B :> <<>>
         @@ C :> <<P(Answer, 9)>>

\* A sends a short packet of fragments and a longer one with the same header.
Grows == A :> <<P(Call, 12), P(Call, 18)>> @@ B :> <<>>

\* The runs satisfy the hypothesis of the theorems about what is put together.
ASSUME RunsHaveDistinctKeys == DistinctKeys /\ SizesFit
=============================================================================
