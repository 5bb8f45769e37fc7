------------------------- MODULE MCZeroMQConnector -------------------------
(***************************************************************************)
(* Instances of ZeroMQConnector: the messages on the socket.               *)
(***************************************************************************)
EXTENDS ZeroMQConnector

CONSTANTS p1, p2, p3,   \* packets
          small, large  \* messages of other programs

\* The smallest and the largest packet, one in between, and one byte less or more.
Sizes == p1 :> 5 @@ p2 :> 20 @@ p3 :> 65534 @@ small :> 4 @@ large :> 65535
============================================================================
