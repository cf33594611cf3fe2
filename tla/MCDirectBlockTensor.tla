------------------------ MODULE MCDirectBlockTensor ------------------------
(* Threads that share a few blocks; the computations of c1 and c3 need c2, *)
(* a block of another direct tensor, and c3 is requested by p3 only.       *)
EXTENDS DirectBlockTensor, TLC
CONSTANTS p1, p2, p3, c1, c2, c3

NestedDep == [b \in Blocks |-> IF b = c2 THEN NoBlock ELSE c2]
ShareList == p1 :> <<c1>> @@ p2 :> <<c2, c1>> @@ p3 :> <<c1, c3>>
FlatDep == [b \in Blocks |-> NoBlock]
TwiceList == [t \in Threads |-> <<c1, c2>>]
=============================================================================
