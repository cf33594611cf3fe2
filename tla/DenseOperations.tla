--------------------------- MODULE DenseOperations ---------------------------
(***************************************************************************)
(* The operations on dense tensors (tod): each turns the dimensions and    *)
(* permutations of its arguments into a list of loops, fusing neighbouring *)
(* indexes where it can, and runs a kernel under them.  An array is a      *)
(* function from 0; scaling coefficients are left out.                     *)
(***************************************************************************)
EXTENDS Contractions, Kernels

Size(dims) == FoldFunction(LAMBDA x, y : x * y, 1, dims)
Extent(dims, i, j) == FoldFunctionOnSet(LAMBDA x, y : x * y, 1, dims, i .. j)
Inc(dims, i) == IF i = -1 THEN 0 ELSE get_increment(dims, i)
Zeros(dims) == [k \in 0 .. Size(dims) - 1 |-> 0]

(* The maximal runs of indexes of the result that are consecutive indexes  *)
(* of each source: the last index of each, and its length.  The sequences  *)
(* give the index of the source for each index of the result.              *)
Fused(n, sequences) ==
    LET Starts == {i \in 0 .. n - 1 : i = 0 \/ \E q \in sequences : q[i] # q[i - 1] + 1}
    IN  [last \in {i \in 0 .. n - 1 : i = n - 1 \/ i + 1 \in Starts} |->
            [first |-> Max({i \in Starts : i <= last}), last |-> last]]
InOrder(f) == LET at == Sorted(DOMAIN f) IN [j \in 1 .. Cardinality(DOMAIN f) |-> f[at[j - 1]]]

(* One source, one result; seqa[i] is the index of A that is index i of B. *)
FusedLoops(dimsa, dimsb, seqa) ==
    LET runs == InOrder(Fused(Cardinality(DOMAIN seqa), {seqa}))
    IN  [j \in DOMAIN runs |->
            Row(Extent(dimsb, runs[j].first, runs[j].last),
                Inc(dimsa, seqa[runs[j].last]), 0, Inc(dimsb, runs[j].last))]
-----------------------------------------------------------------------------
Origin == <<0, 0, 0>>

tod_copy(a, perm, zero, b) ==
    loop_list_runner(IF zero THEN "dcopy" ELSE "dadd1", FusedLoops(a.dims, b.dims, perm),
                     Origin, a.data, a.data, b.data)

tod_mult1(b, permb, recip, zero, a) ==
    loop_list_runner(CASE recip /\ zero  -> "ddiv1"
                       [] recip /\ ~zero -> "ddivadd1"
                       [] ~recip /\ zero -> "dmul1"
                       [] OTHER          -> "dmuladd1",
                     FusedLoops(b.dims, a.dims, permb), Origin, b.data, b.data, a.data)

Cleared(zero, c) == IF zero THEN Zeros(c.dims) ELSE c.data

tod_mult(a, perma, b, permb, recip, zero, c) ==
    LET runs == InOrder(Fused(Cardinality(DOMAIN perma), {perma, permb}))
        loops == [j \in DOMAIN runs |->
                    Row(Extent(c.dims, runs[j].first, runs[j].last), Inc(a.dims, perma[runs[j].last]),
                        Inc(b.dims, permb[runs[j].last]), Inc(c.dims, runs[j].last))]
    IN  loop_list_runner(IF recip THEN "ddiv2" ELSE "dmul2", loops, Origin,
                         a.data, b.data, Cleared(zero, c))

(* One loop for each index i of C; ia and ib are the indexes of A and B it *)
(* runs over, -1 for none.                                                 *)
PlainLoops(a, b, c, ia, ib) ==
    [j \in 1 .. Cardinality(DOMAIN c.dims) |->
        Row(c.dims[j - 1], Inc(a.dims, ia[j - 1]), Inc(b.dims, ib[j - 1]), Inc(c.dims, j - 1))]

tod_dirsum(a, b, permc, zero, c) ==
    LET n == Cardinality(DOMAIN a.dims)
        ia == [i \in DOMAIN permc |-> IF permc[i] < n THEN permc[i] ELSE -1]
        ib == [i \in DOMAIN permc |-> IF permc[i] < n THEN -1 ELSE permc[i] - n]
    IN  loop_list_runner("dadd2", PlainLoops(a, b, c, ia, ib), Origin, a.data, b.data, Cleared(zero, c))

(* N outer indexes of A, M of B and K common ones. *)
tod_ewmult2(n, m, a, ma, b, mb, mc, zero, c) ==
    LET ia == [i \in DOMAIN mc |-> IF mc[i] < n THEN ma[mc[i]]
                                   ELSE IF mc[i] < n + m THEN -1 ELSE ma[mc[i] - m]]
        ib == [i \in DOMAIN mc |-> IF mc[i] < n THEN -1 ELSE mb[mc[i] - n]]
    IN  loop_list_runner("dmul2", PlainLoops(a, b, c, ia, ib), Origin, a.data, b.data, Cleared(zero, c))

(* seqa: A permuted by perma, then by the inverse of permb. *)
tod_dotprod(a, perma, b, permb) ==
    LET seqa == Apply(Invert(permb), perma)
        runs == InOrder(Fused(Cardinality(DOMAIN seqa), {seqa}))
        loops == [j \in DOMAIN runs |->
                    Row(Extent(b.dims, runs[j].first, runs[j].last),
                        Inc(a.dims, seqa[runs[j].last]), Inc(b.dims, runs[j].last), 0)]
    IN  loop_list_runner("dmul2", loops, Origin, a.data, b.data, [k \in {0} |-> 0])

tod_trace(a, perm) ==
    LET n == Cardinality(DOMAIN perm) \div 2
        map == Invert(perm)
        loops == [j \in 1 .. n |->
                    Row(a.dims[map[j - 1]], Inc(a.dims, map[j - 1]) + Inc(a.dims, map[n + j - 1]), 0, 0)]
    IN  loop_list_runner("dadd1", loops, Origin, a.data, a.data, [k \in {0} |-> 0])
check_dims(a, perm) ==
    LET n == Cardinality(DOMAIN perm) \div 2
    IN  \A i \in 0 .. n - 1 : a.dims[Invert(perm)[i]] = a.dims[Invert(perm)[n + i]]
-----------------------------------------------------------------------------
(* The loops over the indexes of A; ib is the index of B that the next     *)
(* index of A goes to, in the order in which A has them.  Runs of plain    *)
(* indexes are fused, the indexes of a diagonal share one loop.            *)
IncSum(dims, S) == FoldSet(LAMBDA i, x : x + get_increment(dims, i), 0, S)
Kept(msk) == {i \in DOMAIN msk : msk[i] = 0 \/ \A j \in 0 .. i - 1 : msk[j] # msk[i]}
Place(msk, i) == Cardinality({j \in Kept(msk) : j < i})
DiagLoops(dimsa, dimsb, msk, ib) ==
    LET Joined(i) == /\ i > 0 /\ msk[i] = 0 /\ msk[i - 1] = 0
                     /\ ib[Place(msk, i)] = ib[Place(msk, i - 1)] + 1
        ends == Sorted({i \in Kept(msk) : i + 1 \notin DOMAIN msk \/ ~Joined(i + 1)})
        Begin(i) == Max({j \in 0 .. i : j \in Kept(msk) /\ ~Joined(j)})
    IN  [j \in 1 .. Cardinality(DOMAIN ends) |->
            LET i == ends[j - 1]
            IN  IF msk[i] = 0
                THEN Row(Extent(dimsa, Begin(i), i), Inc(dimsa, i), 0, Inc(dimsb, ib[Place(msk, i)]))
                ELSE Row(dimsa[i], IncSum(dimsa, {l \in DOMAIN msk : msk[l] = msk[i]}), 0,
                         Inc(dimsb, ib[Place(msk, i)]))]

tod_diag(a, msk, perm, zero, b) ==
    loop_list_runner(IF zero THEN "dcopy" ELSE "dadd1", DiagLoops(a.dims, b.dims, msk, Invert(perm)),
                     Origin, a.data, a.data, b.data)

(* The indexes that msk does not hold stay at those of idx. *)
tod_extract(a, msk, idx, perm, zero, b) ==
    LET Seqb(i) == perm[Cardinality({j \in msk : j < i})]
        Joined(i) == i \in msk /\ i - 1 \in msk /\ Seqb(i) = Seqb(i - 1) + 1
        ends == Sorted({i \in msk : ~Joined(i + 1)})
        loops == [j \in 1 .. Cardinality(DOMAIN ends) |->
                    LET i == ends[j - 1]
                    IN  Row(Extent(a.dims, Max({l \in 0 .. i : l \in msk /\ ~Joined(l)}), i),
                            Inc(a.dims, i), 0, Inc(b.dims, Seqb(i)))]
        offset == FoldSet(LAMBDA i, x : x + idx[i] * get_increment(a.dims, i), 0, DOMAIN idx)
    IN  loop_list_runner(IF zero THEN "dcopy" ELSE "dadd1", loops, <<offset, offset, 0>>,
                         a.data, a.data, b.data)

(* Every element of the diagonals of T takes, or has added to it, v. *)
tod_set_diag(v, msk, zero, t) ==
    LET ends == Sorted({i \in Kept(msk) : ~(msk[i] = 0 /\ i + 1 \in DOMAIN msk /\ msk[i + 1] = 0)})
        Begin(i) == Min({j \in 0 .. i : \A l \in j .. i : msk[l] = 0})
        loops == [j \in 1 .. Cardinality(DOMAIN ends) |->
                    LET i == ends[j - 1]
                    IN  IF msk[i] = 0 THEN Row(Extent(t.dims, Begin(i), i), 0, 0, Inc(t.dims, i))
                        ELSE Row(t.dims[i], 0, 0,
                                 IncSum(t.dims, {l \in DOMAIN msk : msk[l] = msk[i]}))]
        val == [k \in {0} |-> v]
    IN  loop_list_runner(IF zero THEN "dcopy" ELSE "dadd1", loops, Origin, val, val, t.data)

(* A is the last indexes of C before the permutation. *)
tod_scatter(a, permc, zero, c) ==
    LET more == Cardinality(DOMAIN c.dims) - Cardinality(DOMAIN a.dims)
        loops == PlainLoops(a, a, c, [i \in DOMAIN permc |-> IF permc[i] < more THEN -1 ELSE permc[i] - more],
                            [i \in DOMAIN permc |-> -1])
        first == Min({j \in DOMAIN loops : loops[j].a = 1})
        nested == Append(RemoveAt(loops, first), loops[first])
    IN  run("dadd1", Scalar(nested), Origin, a.data, a.data, Cleared(zero, c))

(* Windows of equal dimensions that begin at ira and irb. *)
abs_index(idx, dims) == FoldSet(LAMBDA i, x : x + idx[i] * get_increment(dims, i), 0, DOMAIN idx)
tod_copy_wnd(a, ira, wnd, b, irb) ==
    loop_list_runner("dcopy",
        [j \in 1 .. Cardinality(DOMAIN wnd) |-> Row(wnd[j - 1], Inc(a.dims, j - 1), 0, Inc(b.dims, j - 1))],
        <<abs_index(ira, a.dims), 0, abs_index(irb, b.dims)>>, a.data, [k \in {0} |-> 0], b.data)
-----------------------------------------------------------------------------
(* tod_contract2 *)

Permuted(dims, perm) == Apply(perm, dims)
(* The arguments are copied into the order that contraction2_align asks    *)
(* for; data of the result come in that order too.                         *)
Copied(a, perm) ==
    IF perm = Identity(Cardinality(DOMAIN perm)) THEN a
    ELSE [dims |-> Permuted(a.dims, perm),
          data |-> tod_copy(a, perm, TRUE, [dims |-> Permuted(a.dims, perm),
                                            data |-> Zeros(a.dims)])]
Loops(nodes) == [j \in DOMAIN nodes |->
                    Row(nodes[j].weight, nodes[j].inca, nodes[j].incb, nodes[j].incc)]
Multiply(c, a, b, dimc, data) ==
    loop_list_runner("dmul2", Loops(populate(c, a.dims, b.dims, dimc)), Origin, a.data, b.data, data)
perform_internal(arg, p, dimc, data) ==
    Multiply(permute_abc(arg.contr, p), Copied(arg.a, p.a), Copied(arg.b, p.b), dimc, data)

(* perform: products that need the same permutation of C are summed in C   *)
(* itself or in a scratch array, which is then copied or added to C.  An   *)
(* argument has contr, a, b and d, which may be zero.                      *)
BugAlwaysCopy(c, zero, permc, dimc1, pc1) ==
    tod_copy([dims |-> dimc1, data |-> pc1], Invert(permc), TRUE, c)
AddScratch(c, zero, permc, dimc1, pc1) ==
    tod_copy([dims |-> dimc1, data |-> pc1], Invert(permc), zero, c)
Products(args, permc, dimc1, data) ==
    FoldLeft(LAMBDA acc, x : IF x.p.c = permc THEN perform_internal(x.arg, x.p, dimc1, acc) ELSE acc,
             data, args)
AddProducts(args, c, zero, permc) ==
    IF permc = Identity(Cardinality(DOMAIN permc))
    THEN Products(args, permc, c.dims, Cleared(zero, c))
    ELSE AddScratch(c, zero, permc, Permuted(c.dims, permc),
                    Products(args, permc, Permuted(c.dims, permc), Zeros(c.dims)))
AlignedArgs(arguments) ==
    [j \in DOMAIN arguments |-> [arg |-> arguments[j], p |-> contraction2_align(arguments[j].contr)]]
FirstOfEach(args) ==    \* the permutations of C, as they come
    [j \in {j \in DOMAIN args : \A l \in 1 .. j - 1 : args[l].p.c # args[j].p.c} |-> args[j].p.c]
AddAll(args, zero, c) ==
    FoldLeft(LAMBDA st, permc : [zero |-> FALSE,
                                 c |-> [st.c EXCEPT !.data = AddProducts(args, st.c, st.zero, permc)]],
             [zero |-> zero, c |-> c], InOrder(FirstOfEach(args)))
Finished(out) == Cleared(out.zero, out.c)
tod_contract2(arguments, zero, c) ==
    Finished(AddAll(AlignedArgs(SelectSeq(arguments, LAMBDA x : x.d # 0)), zero, c))
=============================================================================
