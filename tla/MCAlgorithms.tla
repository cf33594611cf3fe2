----------------------------- MODULE MCAlgorithms -----------------------------
(***************************************************************************)
(* The sequential algorithms, one at a time (which): states are those of   *)
(* the module that calls it.                                               *)
(***************************************************************************)
EXTENDS Integers, Sequences, OrbitCalls

CONSTANTS
    Machines,           \* those that are run
    K, Dim, Symmetries, \* for the lists of products
    Tensors, AnyDiagonal,   \* for the operations on block tensors
    AnyPermutation          \* for those on dense tensors

VARIABLES which, s

Signed(p, x) == [tr |-> [perm |-> [i \in 0 .. Len(p) - 1 |-> p[i + 1]], coef |-> x], forbidden |-> {}]
Swapping(x) == <<Signed(<<0, 2, 1>>, x)>>
Outer(x)    == <<Signed(<<1, 0, 2>>, x)>>
Cycle       == <<Signed(<<1, 2, 0>>, 1)>>
Full(x)     == Outer(x) \o Cycle
OrderThree  == {<<>>, Swapping(1), Swapping(-1), Outer(-1), Cycle, Full(1), Full(-1)}
EvenOnFour  == {<<Signed(<<1, 2, 0, 3>>, 1), Signed(<<0, 2, 3, 1>>, 1)>>}

Swap(i, j) == [k \in Idx |-> IF k = i THEN j ELSE IF k = j THEN i ELSE k]
Swaps == {Swap(i, j) : i, j \in Idx}
SwapTriples == {<<{a, c}, {b, c}, {c}>> : a, c \in Swaps, b \in Bijection(Idx, Idx)}
NoCall == [sym |-> <<{}, {}, {}>>, i |-> Min(Idx)]

Sizes == {<<2, 1, 2>>, <<1, 1, 1>>, <<0, 2, 2>>, <<2, 0, 2>>, <<0, 1, 1>>, <<1, 2, 0>>}
Partitioned == {<<[i \in 0 .. 1 |-> 2], {0, 1}>>, <<[i \in 0 .. 1 |-> 2 + i], {0}>>}

Given(n, sym, zero) == [n |-> n, sym |-> sym, zero |-> zero]
Corner == {[i \in 0 .. 1 |-> i]}
SomeTensors == {Given(1, <<>>, {}), Given(1, <<>>, {[i \in {0} |-> 0]}), Given(2, <<>>, Corner),
                Given(2, <<Signed(<<1, 0>>, -1)>>, {}), Given(2, <<Signed(<<1, 0>>, 1)>>, Corner),
                Given(3, Cycle, {}), Given(3, Full(-1), {})}
Symmetric == {Given(3, Full(1), {})}
OneTwo    == [b \in 0 .. 1 |-> b + 1]

C == INSTANCE ContractionCalls WITH Orders <- Sizes
G == INSTANCE SymmetryCalls WITH Cases <- Partitioned
X == INSTANCE OperationCalls WITH Starts <- Tensors, Split <- OneTwo
D == INSTANCE DenseCalls

Init ==
    /\ which \in Machines
    /\ IF which = "orbits" THEN OrbitInit ELSE call = NoCall
    /\ \/ which = "orbits" /\ s = <<>>
       \/ which = "contraction" /\ C!Init
       \/ which = "lists" /\ C!ListInit
       \/ which = "group" /\ G!GroupInit
       \/ which = "partitions" /\ G!PartInit
       \/ which = "operations" /\ X!Init
       \/ which = "dense" /\ D!Init

Orbits(A) == which = "orbits" /\ A /\ UNCHANGED <<which, s>>
Others(A) == A /\ UNCHANGED <<which, call>>
Next ==
    \/ Orbits(OtherIndex)
    \/ which = "contraction" /\ Others(C!Next)
    \/ which = "lists" /\ Others(C!ListNext)
    \/ which = "group" /\ Others(G!GroupNext)
    \/ which = "partitions" /\ Others(G!PartNext)
    \/ which = "operations" /\ Others(X!Next)
    \/ which = "dense" /\ Others(D!Next)

Spec == Init /\ [][Next]_<<which, call, s>>
-----------------------------------------------------------------------------
ContractionExact == which = "contraction" => C!ContractionExact
ListComplete     == which = "lists" => C!ListComplete
GroupExact       == which = "group" => G!GroupExact
PartitionsExact  == which = "partitions" => G!PartitionsExact
OperationsExact  == which = "operations" => X!OperationsExact
DenseExact       == which = "dense" => D!DenseExact
=============================================================================
