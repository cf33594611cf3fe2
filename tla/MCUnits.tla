-------------------------------- MODULE MCUnits --------------------------------
(***************************************************************************)
(* Units that know nothing of each other, one at a time (which): a         *)
(* condition variable with a few threads around it, the page file, the     *)
(* sessions of a dense tensor, a contraction of block tensors, a           *)
(* calculation on tensors with labelled blocks, and a program that builds  *)
(* an expression and assigns it.                                           *)
(***************************************************************************)
EXTENDS PosixCond, XmPages, DenseTensor, LabelCalls

CONSTANTS Machines,             \* those that are run
          Problems, batch_size, \* those of Contract2
          AnyUse                \* that of ExpressionCalls
ASSUME BatchAssumption == batch_size \in Nat

VARIABLES which,
          job, aligned, pc, todo, half, visited, nonzero, batches, at,
          bta2, btb2, blax, blbx, lists, btc, blkstat,  \* those of Contract2
          s                                             \* that of ExpressionCalls

contracting == <<job, aligned, pc, todo, half, visited, nonzero, batches, at,
                 bta2, btb2, blax, blbx, lists, btc, blkstat>>
B == INSTANCE BlockTensor
C == INSTANCE Contract2
-----------------------------------------------------------------------------
(* Problems of contraction. *)
E(p, x) == B!Element(From0(p), x, {})
Cube(n, d) == [i \in 0 .. n - 1 |-> d]

(* pairs: the indexes contracted, in this order. *)
Contracted(n, m, p, pairs) ==
    FoldLeft(LAMBDA c, x : contract(c, x[1], x[2]),
             NewContraction(n, m, Len(pairs), From0(p)), pairs)

Problem(c, syma, symb, symc, d, Vanishes(_)) ==
    LET dimsa == Cube(NA(c), d)  dimsb == Cube(NB(c), d)
        Can(sym, dims) == {i \in B!Index(dims) : B!orbit(sym, dims, i).can = i}
    IN  [c |-> c, dimsa |-> dimsa, dimsb |-> dimsb, dimsc |-> Cube(NC(c), d),
         syma |-> syma, symb |-> symb, symc |-> symc,
         blsta |-> {i \in Can(syma, dimsa) : ~Vanishes(i)}, blstb |-> Can(symb, dimsb)]

Never(i) == FALSE
Corner(i) == \A j \in DOMAIN i : i[j] = 0
Always(i) == TRUE

Matrices == Contracted(1, 1, <<1, 0>>, <<<<0, 1>>>>)
Chain == Contracted(2, 1, <<0, 2, 1>>, <<<<2, 0>>>>)
Twice == Contracted(1, 1, <<0, 1>>, <<<<1, 2>>, <<2, 0>>>>)

ProblemSet == {
    Problem(Matrices, <<E(<<1, 0>>, -1)>>, <<>>, <<>>, 2, Never),
    Problem(Matrices, <<E(<<1, 0>>, 1)>>, <<E(<<1, 0>>, -1)>>, <<>>, 2, Corner),
    Problem(Chain, <<E(<<1, 0, 2>>, -1)>>, <<>>, <<E(<<2, 1, 0>>, -1)>>, 2, Corner),
    Problem(Twice, <<E(<<0, 2, 1>>, -1)>>, <<E(<<2, 1, 0>>, -1)>>, <<>>, 2, Corner),
    Problem(Matrices, <<E(<<1, 0>>, -1)>>, <<E(<<1, 0>>, 1)>>, <<E(<<1, 0>>, 1)>>, 3, Corner),
    Problem(Matrices, <<>>, <<>>, <<>>, 1, Always)}
-----------------------------------------------------------------------------
(* The point group C3v (A1, A2, E) and a group of order two; tensors whose *)
(* indexes have two or three blocks, labelled for some of the tables.      *)
PointGroups ==
    [c3v |-> [n |-> 3, table |-> (0 :> {0} @@ 1 :> {1} @@ 2 :> {0} @@ 3 :> {2} @@ 4 :> {2} @@ 5 :> {0, 1, 2})],
     z2  |-> [n |-> 2, table |-> (0 :> {0} @@ 1 :> {1} @@ 2 :> {0})]]
LabelsOf(id, d) == IF d = 2 THEN (IF id = "c3v" THEN <<0, 2>> ELSE <<0, 1>>)
                   ELSE IF id = "c3v" THEN <<0, 1, 2>> ELSE <<0, 1, 0>>
Intrinsic(n, d, intrs) ==
    [labels |-> [id \in DOMAIN PointGroups |-> [i \in 0 .. n - 1 |-> [k \in 0 .. d - 1 |->
                    IF id \in DOMAIN intrs THEN LabelsOf(id, d)[k + 1] ELSE -1]]],
     intrs |-> intrs]
LabelledTensors ==
    {Intrinsic(2, 2, [c3v |-> <<{2}>>]), Intrinsic(1, 3, [c3v |-> <<{0}>>]), Intrinsic(3, 2, [c3v |-> <<{2}>>]),
     Intrinsic(2, 3, [c3v |-> <<{1}>>, z2 |-> <<{1}>>]), Intrinsic(2, 2, [c3v |-> <<{0, 2}, {1, 2}>>]),
     Intrinsic(3, 2, [z2 |-> <<{1}>>]), Intrinsic(2, 2, [c3v |-> <<{0}>>])}
-----------------------------------------------------------------------------
(* The labelled tensors are set up as the theorem on labels assumes. *)
ASSUME LabelledTensorsAssumption == StartsOK

(* With numbers modulo 101 the inverse of 2 counts as exact, that of 49,   *)
(* as a double, does not (see is_symm).                                    *)
Operators == <<1, 2, 2, 1>>
X == INSTANCE ExpressionCalls WITH P <- 101, Inexact <- {49, 98}, MaxOps <- Operators, Scalars <- {2}

UnitsInit ==
    /\ which \in Machines
    /\ CondInit /\ AllocatorInit /\ Init /\ C!ContractInit
    /\ which # "contraction" => job = CHOOSE j \in Problems : TRUE
    /\ LabelInit
    /\ which # "labels" => t = Start(Intrinsic(1, 3, [c3v |-> <<{0}>>]))
    /\ IF which = "expressions" THEN X!Init ELSE s = <<>>
Conds(A) == which = "cond" /\ A /\ UNCHANGED <<which, allocator, vars, contracting, t, s>>
Pages(A) == which = "pages" /\ A /\ UNCHANGED <<which, cond, vars, contracting, t, s>>
Sessions(A) == which = "sessions" /\ A /\ UNCHANGED <<which, cond, allocator, contracting, t, s>>
Contraction(A) == which = "contraction" /\ A /\ UNCHANGED <<which, cond, allocator, vars, t, s>>
Labels(A) == which = "labels" /\ A /\ UNCHANGED <<which, cond, allocator, vars, contracting, s>>
Expressions(A) == which = "expressions" /\ A /\ UNCHANGED <<which, cond, allocator, vars, contracting, t>>
UnitsNext ==
    \/ Conds(CondNext) \/ Pages(AllocatorNext) \/ Sessions(Next)
    \/ Contraction(C!ContractNext) \/ Labels(LabelNext) \/ Expressions(X!Next)
all == <<which, cond, allocator, vars, contracting, t, s>>

(* The fairness of the modules. *)
UnitsSpec ==
    /\ UnitsInit /\ [][UnitsNext]_all
    /\ \A w \in Waiters : WF_all(Conds(WaitLeave(w)))
    /\ WF_all(Pages(Found \/ Crash \/ Extend \/ ExtendFails))
-----------------------------------------------------------------------------
(* A contraction is complete, and schedules each block once (the tasks of  *)
(* gen_bto_contract2), see Contract2.                                      *)
ResultComplete == C!ResultComplete
ScheduleExact == C!ScheduleExact

(* Rewriting keeps the graph of an expression sound (graph, expr_tree and  *)
(* the passes of optimization), see ExpressionCalls.                       *)
GraphSound == which = "expressions" => X!GraphSound

(* An assignment gives what the formula says (the operators of             *)
(* expressions, their rewriting and their evaluation).                     *)
ExpressionsExact == which = "expressions" => X!ExpressionsExact
=============================================================================
