---------------------------- MODULE OperationCalls -----------------------------
(***************************************************************************)
(* Programs of one or two operations on a block tensor, as expressions are *)
(* evaluated: the result of the first, stored by perform, is the argument  *)
(* of the second.  ref is the same calculation on plain arrays, element by *)
(* element.                                                                *)
(***************************************************************************)
EXTENDS BlockOperations

CONSTANTS Starts,       \* the tensors to begin with: [n, sym, zero]
          AnyDiagonal   \* diagonals of tensors with elements of order three too

VARIABLE s          \* init, t: tensors; op: the last operation; ref: its result; depth

(* The numbers of a tensor: all different before they are made symmetric,  *)
(* and without a symmetry of their own.                                    *)
Number(idx, o) ==
    FoldFunctionOnSet(LAMBDA x, y : x * y, 1, [i \in DOMAIN idx |-> (1 + idx[i] + o[i]) ^ (i + 1)], DOMAIN idx)
GroupElements(n, sym) == {Unit(n)} \cup Range(ProductsOf(Generators(sym), Generators(sym), 1))
Plain(n, sym, zero, idx, o) ==
    IF \E g \in GroupElements(n, sym) : Apply(g.perm, idx) \in zero THEN 0
    ELSE FoldSet(LAMBDA g, x : x + g.coef * Number(Apply(g.perm, idx), Apply(g.perm, o)), 0, GroupElements(n, sym))
Tensor(x) ==
    LET dims == Dims(x.n)
        can == {orbit(x.sym, dims, i).can : i \in Index(dims)} 
        nonzero == {i \in can : \A g \in GroupElements(x.n, x.sym) : Apply(g.perm, i) \notin x.zero}
    IN  [dims |-> dims, sym |-> x.sym,
         map |-> [i \in nonzero |-> [o \in Offsets(i) |-> Plain(x.n, x.sym, x.zero, i, o)]]]
-----------------------------------------------------------------------------
(* The operations on plain arrays.                                         *)
Array(n, Value(_, _)) == [i \in Index(Dims(n)) |-> [o \in Offsets(i) |-> Value(i, o)]]
Order1(a) == Cardinality(DOMAIN CHOOSE i \in DOMAIN a : TRUE)
Moved(a, p, i, o) == a[Apply(Invert(p), i)][Apply(Invert(p), o)]
RefCopy(a, t) == Array(Order1(a), LAMBDA i, o : t.coef * Moved(a, t.perm, i, o))
Pulled(msk, x) == [i \in DOMAIN msk |-> x[DiagonalMap(msk)[i]]]
RefDiag(a, msk, t) ==
    Array(Cardinality(FirstOfMerged(msk)),
          LAMBDA i, o : t.coef * a[Pulled(msk, Apply(Invert(t.perm), i))][Pulled(msk, Apply(Invert(t.perm), o))])
RefMult(a, ta, b, tb, x) ==
    Array(Order1(a), LAMBDA i, o :
        x * ta.coef * Moved(a, ta.perm, i, o) * tb.coef * Moved(b, tb.perm, i, o))
RefDirsum(a, ka, b, kb, p) ==
    LET na == Order1(a)
        In(x) == Apply(Invert(p), x)
    IN  Array(na + Order1(b), LAMBDA i, o : ka * a[First(na, In(i))][First(na, In(o))]
                                            + kb * b[After(na, In(i))][After(na, In(o))])
RefSum(a, x, b, y) == Array(Order1(a), LAMBDA i, o : x * a[i][o] + y * b[i][o])
RefSymmetrize(a, trs) ==
    Array(Order1(a), LAMBDA i, o :
        FoldSet(LAMBDA t, x : x + t.coef * Moved(a, t.perm, i, o), 0, trs))
-----------------------------------------------------------------------------
Perms(n) == Bijection(0 .. n - 1, 0 .. n - 1)
CyclicOf(n) == [i \in 0 .. n - 1 |-> (i + 1) % n]
Pair(n, i, j) == SwapAt(Identity(n), i, j)
Transforms(n) ==
    IF s.depth = 0 THEN {With(p, x) : p \in Perms(n), x \in {1, -2}} ELSE {With(CyclicOf(n), -2)}
Masks(n) == IF n = 2 THEN {[i \in 0 .. 1 |-> 1]}
            ELSE IF n = 3 THEN {0 :> a @@ 1 :> b @@ 2 :> c : <<a, b, c>> \in {<<1, 1, 0>>, <<0, 1, 1>>, <<1, 0, 1>>, <<1, 1, 1>>}}
            ELSE {}

None == <<>>

Ready(first, t, plain, depth) == [first |-> first, t |-> t, plain |-> plain, op |-> None, ref |-> plain, depth |-> depth]
Init == \E x \in Starts : LET t == Tensor(x) IN s = Ready(t, t, Unfold(t), 0)

n0 == Cardinality(DOMAIN s.first.dims)
n1 == Cardinality(DOMAIN s.t.dims)
firstPlain == Unfold(s.first)
Do(op, ref) == s' = [s EXCEPT !.op = op, !.ref = ref]

Copy == \E t \in Transforms(n1) : Do(gen_bto_copy(s.t, t), RefCopy(s.plain, t))
Diag ==
    /\ AnyDiagonal \/ \A g \in GroupElements(n1, s.t.sym) : Permute(g.perm, g.perm) = Identity(n1)
    /\ \E msk \in Masks(n1) : \E t \in Transforms(Cardinality(FirstOfMerged(msk))) :
          Do(gen_bto_diag(s.t, msk, t), RefDiag(s.plain, msk, t))
Mult ==
    /\ s.depth = 0 /\ n1 > 1
    /\ \E t \in Transforms(n1), u \in {Unit(n1), With(Pair(n1, 0, 1), 1)} :
          Do(gen_bto_mult(s.t, t, s.first, u, 3), RefMult(s.plain, t, firstPlain, u, 3))
Dirsum ==
    /\ n0 + n1 <= 4 /\ (s.depth = 0 \/ n0 # n1)
    /\ \E p \in {Identity(n0 + n1), CyclicOf(n0 + n1)}, k \in {1, 2, -1} :
          Do(gen_bto_dirsum(s.t, 1, s.first, k, p, s.t = s.first), RefDirsum(s.plain, 1, firstPlain, k, p))
Sum ==
    /\ n0 = n1
    /\ \E t \in Transforms(n1), x \in {1, 2, -1} :
          Do(gen_bto_sum(<<[op |-> gen_bto_copy(s.t, Unit(n1)), c |-> x], [op |-> gen_bto_copy(s.first, t), c |-> 1]>>),
             RefSum(s.plain, x, RefCopy(firstPlain, t), 1))
DoSymmetrized(op, q, exchanges) ==
    Do(op, RefSymmetrize(RefCopy(s.plain, With(q, 1)), GroupElements(n1, AsSymmetry(exchanges))))
Symmetrize2 ==
    /\ n1 > 1
    /\ \E p \in {Pair(n1, 0, 1), Pair(n1, n1 - 2, n1 - 1)}, q \in {Identity(n1), CyclicOf(n1)}, x \in {1, -1} :
          DoSymmetrized(gen_bto_symmetrize2(gen_bto_copy(s.t, With(q, 1)), p, x), q, <<With(p, x)>>)
Symmetrize3 ==
    /\ n1 = 3
    /\ \E q \in Perms(3), x \in {1, -1} :
          DoSymmetrized(gen_bto_symmetrize3(gen_bto_copy(s.t, With(q, 1)), Pair(3, 0, 1), Pair(3, 0, 2), x), q,
                        <<With(Pair(3, 0, 1), x), With(Pair(3, 0, 2), x)>>)
Store ==
    /\ s.depth = 0 /\ ~IsRefused(s.op.sym) /\ s.op.kind \in {"diag", "mult", "dirsum"}
    /\ s' = Ready(s.first, perform(s.op).bt, s.ref, 1)
(* The operation goes out of scope; another one may follow. *)
Drop == s' = [s EXCEPT !.op = None, !.ref = s.plain]
Next == \/ s.op = None /\ (Copy \/ Diag \/ Mult \/ Dirsum \/ Sum \/ Symmetrize2 \/ Symmetrize3)
        \/ s.op # None /\ (Store \/ Drop)
-----------------------------------------------------------------------------
StoredAs(out, ref) == out # Thrown /\ Unfold(out.bt) = ref
Around(op) == LET n == Cardinality(DOMAIN op.dims)
              IN  {Unit(n), With(IF n = 1 THEN Identity(1) ELSE Pair(n, 0, n - 1), -2)}
                  \cup IF op.kind \in {"diag", "mult"} THEN {} ELSE {With(CyclicOf(n), 3)}
BlocksExact(op, ref) ==
    /\ \A i \in Index(op.dims) \ op.sch :
          orbit(op.sym, op.dims, i).can = i => ref[i] = Zero(i)
    /\ \A i \in op.sch, t \in Around(op), zero \in BOOLEAN :
          LET want == Transformed(ref[i], t)
              blk == [o \in DOMAIN want |-> Garbage]
          IN  ComputeBlock(op, zero, i, t, blk) = Accumulate(zero, blk, want)
OperationsExact ==
    s.op # None =>
        IF IsRefused(s.op.sym) THEN \A i \in DOMAIN s.ref : s.ref[i] = Zero(i)
        ELSE StoredAs(perform(s.op), s.ref) /\ BlocksExact(s.op, s.ref)
=============================================================================
