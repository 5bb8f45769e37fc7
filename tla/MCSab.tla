------------------------------- MODULE MCSab -------------------------------
(***************************************************************************)
(* Instances of Sab: two slaves and the queries of the master.             *)
(***************************************************************************)
EXTENDS Sab

CONSTANTS A, B, M  \* slaves and master

Q(address, command, length, responseLength) ==
    [address |-> address, command |-> command, length |-> length,
     responseLength |-> responseLength]

\* "read" needs no payload, "write" two bytes.
Actions == [read |-> 0, write |-> 2]
Answers == [read |-> 2, write |-> 0]

\* A query that fits and one with a payload the action does not expect.
Dialogue == <<Q(A, "read", 0, 2), Q(B, "read", 2, 0)>>

\* A single query.
Single == <<Q(A, "read", 0, 2)>>
=============================================================================
