--------------------------- MODULE PacketChannel ---------------------------
(***************************************************************************)
(* What a backend promises to the dispatchers it connects                  *)
(* (communication/xpcc/backend/backend_interface.hpp): a packet given to   *)
(* sendPacket on one board is available on each other board as it was      *)
(* sent, at most once.  It may be lost, and packets may overtake each      *)
(* other.                                                                  *)
(***************************************************************************)
EXTENDS Sequences, SequencesExt

CONSTANTS
    Node,       \* the boards
    Packet,     \* the packets of an execution
    Origin      \* Origin[p]: the board that sends p

VARIABLES
    submitted,  \* the packets given to sendPacket
    delivered   \* delivered[n]: the packets made available on n, in order

channel == <<submitted, delivered>>

Init ==
    /\ submitted = {}
    /\ delivered = [n \in Node |-> <<>>]

Submit(p) ==
    /\ p \notin submitted
    /\ submitted' = submitted \cup {p}
    /\ UNCHANGED delivered

Deliver(n, p) ==
    /\ p \in submitted /\ Origin[p] # n
    /\ p \notin ToSet(delivered[n])
    /\ delivered' = [delivered EXCEPT ![n] = Append(@, p)]
    /\ UNCHANGED submitted

Next == \E p \in Packet : Submit(p) \/ \E n \in Node : Deliver(n, p)

Spec == Init /\ [][Next]_channel
=============================================================================
