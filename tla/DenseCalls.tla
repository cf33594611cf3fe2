----------------------------- MODULE DenseCalls -----------------------------
(***************************************************************************)
(* Calls of the operations on dense tensors.  The indexes of the tensors   *)
(* carry labels, as in a formula c(i,j,..) = a(..) b(..), where a label    *)
(* that stands twice in a tensor takes a diagonal and one that is missing  *)
(* from c is summed over.  Each call is compared with its formula.         *)
(***************************************************************************)
EXTENDS DenseOperations

CONSTANT AnyPermutation \* operations that get any permutation; extract and trace
                        \* get else only those that are their own inverses

VARIABLE s  \* the call, and what it returns: out

Size0(f) == Cardinality(DOMAIN f)
Perms(n) == Bijection(0 .. n - 1, 0 .. n - 1)
Limited(op, n) == {p \in Perms(n) : op \in AnyPermutation \/ Invert(p) = p}
Then(f, g) == From0(From1(f) \o From1(g))
Names(from, n) == [i \in 0 .. n - 1 |-> from + i]
Ext(l) == IF l = 1 THEN 3 ELSE IF l = 3 THEN 1 ELSE 2
Dims(f) == [i \in DOMAIN f |-> Ext(f[i])]

\* Numbers that divide where the operations divide, and that no sum of others hides.
Big(f)   == [dims |-> Dims(f), data |-> [k \in 0 .. Size(Dims(f)) - 1 |-> 60 * (k * k + 1)]]
Small(f) == [dims |-> Dims(f), data |-> [k \in 0 .. Size(Dims(f)) - 1 |-> (k % 6) + 1]]

(* A formula: what is combined how, and the labels of each tensor; the     *)
(* labels in fixed have one value.                                         *)
Formula(name, a, la, b, lb, c, lc, fixed) ==
    LET L == Range(la) \cup Range(lb) \cup Range(lc)
        Assignments == {v \in [L -> 0 .. 2] : \A l \in L : v[l] < Ext(l) /\ (l \in DOMAIN fixed => v[l] = fixed[l])}
        Off(f, v) == abs_index([i \in DOMAIN f |-> v[f[i]]], Dims(f))
    IN  FoldSet(LAMBDA v, arr : [arr EXCEPT ![Off(lc, v)] =
                                    Combine(name, a[Off(la, v)], b[Off(lb, v)], @)],
                c, Assignments)

None == Names(0, 0)
One == [k \in {0} |-> 7]
Free == [l \in {} |-> 0]
AddTo(zero) == IF zero THEN "dcopy" ELSE "dadd1"
Call(op, args, out, expected) == s' = [op |-> op, args |-> args, out |-> out, expected |-> expected]
-----------------------------------------------------------------------------
Copy == \E p \in Perms(3), zero \in BOOLEAN :
    LET la == Names(0, 3)  lc == Apply(p, la)
    IN  Call("copy", <<p, zero>>,
             tod_copy(Big(la), p, zero, Big(lc)),
             Formula(AddTo(zero), Big(la).data, la, One, None, Big(lc).data, lc, Free))

Mult1 == \E p \in Perms(3), recip, zero \in BOOLEAN :
    LET lb == Names(1, 3)  lc == Apply(p, lb)
    IN  Call("mult1", <<p, recip, zero>>,
             tod_mult1(Small(lb), p, recip, zero, Big(lc)),
             Formula(IF recip THEN IF zero THEN "ddiv1" ELSE "ddivadd1"
                     ELSE IF zero THEN "dmul1" ELSE "dmuladd1",
                     Small(lb).data, lb, One, None, Big(lc).data, lc, Free))

Cleared0(zero, f) == Cleared(zero, Big(f))
Mult == \E pa, pb \in Perms(3), recip, zero \in BOOLEAN :
    LET lc == Names(1, 3)  la == Apply(Invert(pa), lc)  lb == Apply(Invert(pb), lc)
    IN  Call("mult", <<pa, pb, recip, zero>>,
             tod_mult(Big(la), pa, Small(lb), pb, recip, zero, Big(lc)),
             Formula(IF recip THEN "ddiv2" ELSE "dmul2", Big(la).data, la, Small(lb).data, lb,
                     Cleared0(zero, lc), lc, Free))

Ewmult2 == \E n, m, k \in 0 .. 2 : n + m + k = 3 /\ n + k > 0 /\ m + k > 0 /\
           \E pa \in Perms(n + k), pb \in Perms(m + k), pc \in Perms(3), zero \in BOOLEAN :
    LET la == Apply(Invert(pa), Then(Names(0, n), Names(n + m, k)))
        lb == Apply(Invert(pb), Names(n, m + k))
        lc == Apply(pc, Names(0, 3))
    IN  Call("ewmult2", <<n, m, pa, pb, pc, zero>>,
             tod_ewmult2(n, m, Big(la), pa, Small(lb), pb, pc, zero, Big(lc)),
             Formula("dmul2", Big(la).data, la, Small(lb).data, lb, Cleared0(zero, lc), lc, Free))

Dirsum == \E n \in 1 .. 2, p \in Perms(3), zero \in BOOLEAN :
    LET la == Names(0, n)  lb == Names(n, 3 - n)  lc == Apply(p, Names(0, 3))
    IN  Call("dirsum", <<n, p, zero>>,
             tod_dirsum(Big(la), Small(lb), p, zero, Big(lc)),
             Formula("dadd2", Big(la).data, la, Small(lb).data, lb, Cleared0(zero, lc), lc, Free))

Dotprod == \E pa, pb \in Perms(3) :
    LET la == Apply(Invert(pa), Names(0, 3))  lb == Apply(Invert(pb), Names(0, 3))
    IN  Call("dotprod", <<pa, pb>>,
             tod_dotprod(Big(la), pa, Small(lb), pb),
             Formula("dmul2", Big(la).data, la, Small(lb).data, lb, [k \in {0} |-> 0], None, Free))

Trace == \E n \in 1 .. 2 : \E p \in Limited("trace", 2 * n) :
    LET la == Apply(Invert(p), Then(Names(4, n), Names(4, n)))
    IN  /\ check_dims(Big(la), p)
        /\ Call("trace", <<p>>,
             tod_trace(Big(la), p),
                Formula("dadd1", Big(la).data, la, One, None, [k \in {0} |-> 0], None, Free))

Masks == {<<1, 0, 1>>, <<0, 0, 1, 1>>, <<1, 0, 0, 1>>, <<1, 2, 2, 1>>, <<1, 1, 1, 0>>, <<0, 1, 0, 1>>}
Label(msk) == [i \in DOMAIN msk |-> IF msk[i] = 0 THEN i ELSE 3 + msk[i]]
KeptLabels(msk) == LET at == Sorted(Kept(msk)) IN [j \in DOMAIN at |-> Label(msk)[at[j]]]
Diag == \E m \in Masks : \E p \in Perms(Size0(KeptLabels(From0(m)))), zero \in BOOLEAN :
    LET msk == From0(m)  la == Label(msk)  lc == Apply(p, KeptLabels(msk))
    IN  Call("diag", <<m, p, zero>>,
             tod_diag(Big(la), msk, p, zero, Big(lc)),
             Formula(AddTo(zero), Big(la).data, la, One, None, Big(lc).data, lc, Free))
SetDiag == \E m \in Masks, zero \in BOOLEAN :
    LET msk == From0(m)  lc == Label(msk)
    IN  Call("set_diag", <<m, zero>>,
             tod_set_diag(7, msk, zero, Big(lc)),
             Formula(AddTo(zero), One, None, One, None, Big(lc).data, lc, Free))

Extract == \E msk \in SUBSET (0 .. 3), x \in 0 .. 1 : msk # {} /\ Cardinality(msk) <= 3 /\
           \E p \in Limited("extract", Cardinality(msk)), zero \in BOOLEAN :
    LET la == Names(0, 4)  lc == Apply(p, Sorted(msk))
        idx == [i \in 0 .. 3 |-> IF i \in msk \/ i = 3 THEN 0 ELSE x]
    IN  Call("extract", <<msk, idx, p, zero>>,
             tod_extract(Big(la), msk, idx, p, zero, Big(lc)),
             Formula(AddTo(zero), Big(la).data, la, One, None, Big(lc).data, lc,
                     [l \in (0 .. 3) \ msk |-> idx[l]]))

Scatter == \E n \in 1 .. 2, p \in Perms(3), zero \in BOOLEAN :
    LET la == Names(n, 3 - n)  lc == Apply(p, Names(0, 3))
    IN  Call("scatter", <<n, p, zero>>,
             tod_scatter(Big(la), p, zero, Big(lc)),
             Formula("dadd1", Big(la).data, la, One, None, Cleared0(zero, lc), lc, Free))

(* A window of B takes the elements of one of A. *)
Corners == [0 .. 1 -> 0 .. 1]
CopyWnd == \E ira, irb \in Corners, wnd \in [0 .. 1 -> 1 .. 2] :
    LET f == Names(0, 2)
        Inside(i) == \A j \in 0 .. 1 : i[j] + wnd[j] <= Dims(f)[j]
        Moved(k) == {i \in Corners : /\ \A j \in 0 .. 1 : i[j] < wnd[j]
                                     /\ abs_index([j \in 0 .. 1 |-> irb[j] + i[j]], Dims(f)) = k}
    IN  /\ Inside(ira) /\ Inside(irb)
        /\ Call("copy_wnd", <<ira, irb, wnd>>, tod_copy_wnd(Big(f), ira, wnd, Small(f), irb),
                [k \in DOMAIN Big(f).data |->
                    IF Moved(k) = {} THEN Small(f).data[k]
                    ELSE Big(f).data[abs_index([j \in 0 .. 1 |-> ira[j] + (CHOOSE i \in Moved(k) : TRUE)[j]], Dims(f))]])

(* Products of one or two contractions with N, M, K indexes. *)
Contractions(n, m, k, p) ==
    IF k = 0 THEN {NewContraction(n, m, k, p)}
    ELSE IF k = 1
    THEN {contract(NewContraction(n, m, k, p), ia, ib) : ia \in 0 .. n + k - 1, ib \in 0 .. m + k - 1}
    ELSE {contract(contract(NewContraction(n, m, k, p), i[1], i[2]), i[3], i[4]) :
            i \in {j \in (0 .. n + k - 1) \X (0 .. m + k - 1) \X (0 .. n + k - 1) \X (0 .. m + k - 1) :
                    j[1] < j[3] /\ j[2] # j[4]}}
Labels(c, lc) ==    \* of A and B, if C has lc and the contracted have 4, 5
    LET inner == Sorted({i \in ASlots(c) : c.conn[i] \in BSlots(c)})
        Of(i) == IF c.conn[i] < NC(c) THEN lc[c.conn[i]]
                 ELSE 4 + CHOOSE j \in DOMAIN inner : inner[j] \in {i, c.conn[i]}
    IN  <<[j \in 0 .. NA(c) - 1 |-> Of(NC(c) + j)], [j \in 0 .. NB(c) - 1 |-> Of(NC(c) + NA(c) + j)]>>
Argument(c, l, d) == [contr |-> c, d |-> d, a |-> Big(l[1]), b |-> Small(l[2])]
Added(l, lc, data) == Formula("dmul2", Big(l[1]).data, l[1], Small(l[2]).data, l[2], data, lc, Free)
Total(cs, lc, data) == FoldLeft(LAMBDA acc, x : IF x[2] = 0 THEN acc ELSE Added(Labels(x[1], lc), lc, acc), data, cs)
CallContract(cs, lc, zero) ==
    Call("contract", <<cs, zero>>,
             tod_contract2([j \in DOMAIN cs |-> Argument(cs[j][1], Labels(cs[j][1], lc), cs[j][2])],
                                   zero, Big(lc)),
         Total(cs, lc, Cleared0(zero, lc)))
Orders == {<<1, 1, 1>>, <<2, 1, 1>>, <<1, 1, 2>>, <<0, 1, 2>>, <<1, 0, 1>>, <<1, 2, 0>>}
OneContraction == UNION {{<<<<c, 1>>>> : c \in UNION {Contractions(o[1], o[2], o[3], p) : p \in Perms(o[1] + o[2])}} : o \in Orders}
Matrices == UNION {Contractions(1, 1, 1, p) : p \in Perms(2)}
TwoContractions == {<<<<c[1], d>>, <<c[2], 1>>>> : c \in Matrices \X Matrices, d \in 0 .. 1}
Contract == \E cs \in OneContraction \cup TwoContractions, zero \in BOOLEAN :
    CallContract(cs, Names(0, NC(cs[1][1])), zero)

NoCall == [op |-> "none", args |-> <<>>, out |-> One, expected |-> One]
Init == s = NoCall
Next ==
    \/ s.op = "none" /\ (\/ Copy \/ Mult1 \/ Mult \/ Ewmult2 \/ Dirsum \/ Dotprod \/ Trace
                         \/ Diag \/ SetDiag \/ Extract \/ Scatter \/ CopyWnd \/ Contract)
    \/ s.op # "none" /\ s' = NoCall
-----------------------------------------------------------------------------
(* Every operation gives what its formula says, whatever loops were fused  *)
(* and whatever kernel took them.                                          *)
DenseExact == s.out = s.expected
=============================================================================
