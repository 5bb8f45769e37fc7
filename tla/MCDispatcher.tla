---------------------------- MODULE MCDispatcher ----------------------------
(***************************************************************************)
(* Instances of Dispatcher: the boards, components and calls of the runs.  *)
(***************************************************************************)
EXTENDS Dispatcher

CONSTANTS A, B,             \* boards
          ping, pong,       \* calls
          stray,            \* a call that nobody handles
          news              \* an event

\* Component 1 lives on A and component 2 on B.
TwoHomes == 1 :> A @@ 2 :> B
TwoRegistered == {<<1, 16>>, <<2, 17>>}
NoListens == {}

\* All three components live on A; B only logs what A broadcasts.
OneHome == 1 :> A @@ 2 :> A @@ 3 :> A
ThreeRegistered == {<<1, 16>>, <<2, 17>>, <<3, 18>>}
SomeListens == {<<A, 32>>, <<B, 32>>}

\* 1 calls action 17 of 2.
SingleSource == ping :> 1
SingleDestination == ping :> 2
SingleIdentifier == ping :> 17

\* 2 calls action 16 of 1 as well, and 1 an action that 2 does not have.
OppositeSource == ping :> 1 @@ pong :> 2 @@ stray :> 1
OppositeDestination == ping :> 2 @@ pong :> 1 @@ stray :> 2
OppositeIdentifier == ping :> 17 @@ pong :> 16 @@ stray :> 19

\* 1 calls action 17 of 2 and one that 2 does not have.
PartlySource == ping :> 1 @@ stray :> 1
PartlyDestination == ping :> 2 @@ stray :> 2
PartlyIdentifier == ping :> 17 @@ stray :> 19

\* 1 calls 2, 2 calls 3 and 3 publishes an event, all on A.
LocalSource == ping :> 1 @@ pong :> 2 @@ news :> 3
LocalDestination == ping :> 2 @@ pong :> 3 @@ news :> 0
LocalIdentifier == ping :> 17 @@ pong :> 18 @@ news :> 32

\* Every run satisfies the hypothesis of the theorems about matching.
ASSUME RunsHaveDistinctCalls == DistinctCalls
=============================================================================
