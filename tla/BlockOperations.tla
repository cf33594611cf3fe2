--------------------------- MODULE BlockOperations ----------------------------
(***************************************************************************)
(* Operations on block tensors: gen_bto_copy, gen_bto_diag, gen_bto_mult   *)
(* and gen_bto_dirsum.  An operation is made with the symmetry sym of its  *)
(* result and the set sch of the blocks that it will compute;              *)
(* compute_block makes one block.                                          *)
(*                                                                         *)
(* All indexes are split alike: block number b has Split[b] values.  The   *)
(* content of a block is a function from offsets to numbers; <<>> stands   *)
(* for an exception (blocks that do not fit, or sequences that are no      *)
(* permutations of each other).                                            *)
(***************************************************************************)
EXTENDS SymmetryOperations, BlockTensor

CONSTANT Split      \* a function from block numbers to sizes

Offsets(idx) == {o \in [DOMAIN idx -> 0 .. Max(Range(Split)) - 1] :
                    \A i \in DOMAIN idx : o[i] < Split[idx[i]]}
Zero(idx) == [o \in Offsets(idx) |-> 0]
Dims(n) == [i \in 0 .. n - 1 |-> Cardinality(DOMAIN Split)]
Thrown == <<>>

(* tod_copy and its like: x under t, alone or on top of blk. *)
Transformed(x, t) ==
    [o \in {Apply(t.perm, q) : q \in DOMAIN x} |-> t.coef * x[Apply(Invert(t.perm), o)]]
Accumulate(zero, blk, x) ==
    IF DOMAIN x # DOMAIN blk THEN Thrown
    ELSE [o \in DOMAIN x |-> x[o] + IF zero THEN 0 ELSE blk[o]]

BlockOf(o, bt, idx) ==
    IF o.can \in DOMAIN bt.map THEN Transformed(bt.map[o.can], o.tr[idx]) ELSE Zero(idx)
(* What a stored tensor stands for: all its blocks. *)
Unfold(bt) == [idx \in Index(bt.dims) |-> BlockOf(orbit(bt.sym, bt.dims, idx), bt, idx)]

Of(perm) == [perm |-> perm, coef |-> 1]
Scaled(n, x) == [perm |-> Identity(n), coef |-> x]
-----------------------------------------------------------------------------
(* gen_bto_copy of a under tr; gen_bto_copy_nzorb finds its blocks.        *)

copy_nzorb(a, p, sym) ==
    IF p = Identity(Cardinality(DOMAIN p)) THEN DOMAIN a.map
    ELSE {orbit(sym, Apply(p, a.dims), Apply(p, i)).can : i \in DOMAIN a.map}
MadeCopy(a, tr, sym) ==
    [kind |-> "copy", a |-> a, tr |-> tr, dims |-> Apply(tr.perm, a.dims), sym |-> sym,
     sch |-> copy_nzorb(a, tr.perm, sym)]
gen_bto_copy(a, tr) == MadeCopy(a, tr, so_permute(a.sym, tr.perm))

CopyOf(op, o, ia, zero, ib, t, blk) ==
    IF o.can \in DOMAIN op.a.map
    THEN Accumulate(zero, blk, Transformed(op.a.map[o.can], Then(Then(o.tr[ia], op.tr), t)))
    ELSE IF zero THEN [x \in DOMAIN blk |-> 0] ELSE blk
copy_block(op, zero, ib, t, blk) ==
    LET ia == Apply(Invert(op.tr.perm), ib)
    IN  CopyOf(op, orbit(op.a.sym, op.a.dims, ia), ia, zero, ib, t, blk)

(* perform: a block that is put, with the index and the transformation. *)
Parcel(at, blk, tr) == [at |-> at, blk |-> blk, tr |-> tr]
PutUnder(o, ib, x, tr) == Parcel(o.can, x, Then(tr, Inverted(o.tr[ib])))
full_copy_task(op, ia) ==
    IF IsIdentity(op.tr) THEN Parcel(ia, op.a.map[ia], op.tr)
    ELSE PutUnder(orbit(op.sym, op.dims, Apply(op.tr.perm, ia)), Apply(op.tr.perm, ia), op.a.map[ia], op.tr)
-----------------------------------------------------------------------------
(* gen_bto_diag: the indexes i of a with the same msk[i] > 0 become one.   *)

(* The place in the result of each index of a. *)
DiagonalMap(msk) ==
    LET Leader(i) == IF msk[i] = 0 THEN i ELSE Min({j \in DOMAIN msk : msk[j] = msk[i]})
    IN  [i \in DOMAIN msk |-> Cardinality({Leader(j) : j \in DOMAIN msk} \cap 0 .. Leader(i) - 1)]

(* tod_diag: x with its indexes put at the places map, then under tr. *)
Gathered(x, map) ==
    LET Fits(o) == [i \in DOMAIN map |-> o[map[i]]] \in DOMAIN x
        all == [0 .. Max(Range(map)) -> 0 .. Max(Range(Split)) - 1]
        Extent(i) == {o[i] : o \in DOMAIN x}
    IN  IF \E i, j \in DOMAIN map : map[i] = map[j] /\ Extent(i) # Extent(j) THEN Thrown
        ELSE [o \in {o \in all : Fits(o)} |-> x[[i \in DOMAIN map |-> o[map[i]]]]]
to_diag(x, msk, tr) == IF Gathered(x, DiagonalMap(msk)) = Thrown THEN Thrown
                       ELSE Transformed(Gathered(x, DiagonalMap(msk)), tr)

MadeDiag(a, msk, tr, order, sym) ==
    LET IndexOfA(ib) == LET ib2 == Apply(Invert(tr.perm), ib) IN [i \in DOMAIN msk |-> ib2[DiagonalMap(msk)[i]]]
    IN  [kind |-> "diag", a |-> a, msk |-> msk, tr |-> tr, dims |-> Dims(order), sym |-> sym,
         sch |-> {ib \in Index(Dims(order)) :
                    /\ LET o == short_orbit(sym, Dims(order), ib) IN o.allowed /\ o.can = ib
                    /\ orbit(a.sym, a.dims, IndexOfA(ib)).can \in DOMAIN a.map}]
gen_bto_diag(a, msk, tr) ==
    MadeDiag(a, msk, tr, Cardinality(FirstOfMerged(msk)), so_permute(so_merge(a.sym, msk), tr.perm))

(* The labels of the indexes of the result before tr: its number, or one   *)
(* for the diagonal.                                                       *)
RECURSIVE Labels(_, _, _, _, _)
Labels(msk, free, nb, i, seen) ==
    IF i = nb THEN <<>>
    ELSE IF msk[i] # 0 /\ msk[i] \notin seen
         THEN <<nb + msk[i]>> \o Labels(msk, free, nb, i + 1, seen \cup {msk[i]})
         ELSE <<IF free = <<>> THEN 0 ELSE Head(free)>>
                 \o Labels(msk, IF free = <<>> THEN free ELSE Tail(free), nb, i + 1, seen)
Free(msk, map) == SelectSeq([i \in 1 .. Cardinality(DOMAIN msk) |->
                                IF msk[i - 1] = 0 THEN map[i - 1] ELSE -1], LAMBDA x : x # -1)
LabelsOf(msk, map, nb) == From0(Labels(msk, Free(msk, map), nb, 0, {}))

Rearranged(seq1, seq2) == Range(seq1) = Range(seq2) /\ Cardinality(Range(seq1)) = Cardinality(DOMAIN seq1)

DiagOf(op, nb, o, ia, zero, ib, t, blk) ==
    LET p == o.tr[ia].perm
        map == DiagonalMap(op.msk)
        m2 == Apply(p, op.msk)
        seqb1 == LabelsOf(op.msk, map, nb)
        seqb2 == LabelsOf(m2, Apply(p, map), nb)
        permb == Permute(Permute(permutation_builder(seqb1, seqb2), op.tr.perm), Invert(t.perm))
    IN  IF ~Rearranged(seqb1, seqb2) THEN Thrown
        ELSE Accumulate(zero, blk, to_diag(op.a.map[o.can], m2,
                 [perm |-> permb, coef |-> o.tr[ia].coef * op.tr.coef * t.coef]))
diag_block(op, zero, ib, t, blk) ==
    LET ib2 == Apply(Invert(op.tr.perm), ib)
        ia == [i \in DOMAIN op.msk |-> ib2[DiagonalMap(op.msk)[i]]]
    IN  DiagOf(op, Cardinality(DOMAIN ib), orbit(op.a.sym, op.a.dims, ia), ia, zero, ib, t, blk)
-----------------------------------------------------------------------------
(* gen_bto_mult: the product of a under tra and b under trb, element by    *)
(* element, times x.                                                       *)

mult_merge(sym, n) == so_merge(sym, [i \in 0 .. 2 * n - 1 |-> 1 + (i % n)])
mult_symmetry(a, pa, b, pb, n) ==
    mult_merge(so_dirprod(a.sym, n, b.sym, n, permutation_builder(Beside(pa, pb), Identity(2 * n))), n)
MadeMult(a, tra, b, trb, x, sym) ==
    LET dims == Apply(tra.perm, a.dims)
        NonZero(bt, tr, ic) == orbit(bt.sym, bt.dims, Apply(Invert(tr.perm), ic)).can \in DOMAIN bt.map
    IN  [kind |-> "mult", a |-> a, tra |-> tra, b |-> b, trb |-> trb, x |-> x, dims |-> dims, sym |-> sym,
         sch |-> {ic \in Index(dims) :
                    /\ LET o == short_orbit(sym, dims, ic) IN o.allowed /\ o.can = ic
                    /\ NonZero(a, tra, ic) /\ NonZero(b, trb, ic)}]
gen_bto_mult(a, tra, b, trb, x) ==
    MadeMult(a, tra, b, trb, x, mult_symmetry(a, tra.perm, b, trb.perm, Cardinality(DOMAIN a.dims)))

to_mult(x, y, c) == IF DOMAIN x # DOMAIN y THEN Thrown ELSE [o \in DOMAIN x |-> c * x[o] * y[o]]
MultOf(op, oa, ia, ob, ib, zero, t, blk) ==
    LET back == Of(Invert(t.perm))
    IN  Accumulate(zero, blk,
            to_mult(Transformed(op.a.map[oa.can], Then(Then(oa.tr[ia], op.tra), back)),
                    Transformed(op.b.map[ob.can], Then(Then(ob.tr[ib], op.trb), back)), t.coef * op.x))
MultAt(op, ia, ib, zero, t, blk) ==
    MultOf(op, orbit(op.a.sym, op.a.dims, ia), ia, orbit(op.b.sym, op.b.dims, ib), ib, zero, t, blk)
mult_block(op, zero, ic, t, blk) ==
    MultAt(op, Apply(Invert(op.tra.perm), ic), Apply(Invert(op.trb.perm), ic), zero, t, blk)
-----------------------------------------------------------------------------
(* gen_bto_dirsum: ka a(i..) + kb b(j..), its indexes permuted by perm;    *)
(* self: a and b are one tensor.                                           *)

(* gen_bto_dirsum_sym adds the exchange of the two if it is a symmetry. *)
SwapHalves(n, perm) ==
    LET ij == Identity(2 * n)
        ji == [i \in 0 .. 2 * n - 1 |-> (i + n) % (2 * n)]
    IN  permutation_builder(Apply(perm, ji), Apply(perm, ij))
dirsum_symmetry(a, ka, b, kb, perm, self) ==
    LET na == Cardinality(DOMAIN a.dims)
    IN  so_dirsum(a.sym, na, b.sym, Cardinality(DOMAIN b.dims), perm)
        \o IF self /\ ka * ka = kb * kb
           THEN <<Element(SwapHalves(na, perm), IF ka = kb THEN 1 ELSE -1, {})>> ELSE <<>>

(* A record of make_schedule for the C-orbit oc of block ic, made from the *)
(* blocks of A and B that ic consists of.                                  *)
DirsumRecord(op, oa, ia, ob, ib, oc, ic) ==
    [can |-> oc.can, ia |-> oa.can, ib |-> ob.can,
     zeroa |-> oa.can \notin DOMAIN op.a.map, zerob |-> ob.can \notin DOMAIN op.b.map,
     ka |-> oa.tr[ia].coef * op.ka, kb |-> ob.tr[ib].coef * op.kb,
     tr |-> Then(Of(Permute(permutation_builder(Beside(oa.tr[ia].perm, ob.tr[ib].perm),
                                                Identity(Cardinality(DOMAIN ic))), op.perm)),
                 Inverted(oc.tr[ic]))]
Insert(recs, r) == IF r.can \in DOMAIN recs \/ (r.zeroa /\ r.zerob) THEN recs ELSE recs @@ (r.can :> r)

(* The pairs of blocks in the order of the loops: the blocks of A that are *)
(* not zero with all of B, then those of B with all of A.                  *)
Columns(s, t) == FoldLeft(LAMBDA l, y : l \o [j \in DOMAIN s |-> <<s[j], y>>], <<>>, t)
NonZeroFirst(a, b) ==
    FoldLeft(LAMBDA l, i : l \o Columns(InOrder(DOMAIN orbit(a.sym, a.dims, i).tr), InOrder(Index(b.dims))),
             <<>>, req_nonzero_blocks(a))
DirsumPairs(a, b) ==
    LET second == NonZeroFirst(b, a)
    IN  NonZeroFirst(a, b) \o [j \in DOMAIN second |-> <<second[j][2], second[j][1]>>]
DirsumInsert(op, recs, ia, ib, ic) ==
    Insert(recs, DirsumRecord(op, orbit(op.a.sym, op.a.dims, ia), ia, orbit(op.b.sym, op.b.dims, ib), ib,
                              orbit(op.sym, op.dims, ic), ic))
DirsumScheduled(op, recs) == [sch |-> DOMAIN recs, recs |-> recs] @@ op
MadeDirsum(op) ==
    DirsumScheduled(op, FoldLeft(
        LAMBDA recs, p : DirsumInsert(op, recs, p[1], p[2], Apply(op.perm, Joint(p[1], p[2]))),
        <<>>, DirsumPairs(op.a, op.b)))
gen_bto_dirsum(a, ka, b, kb, perm, self) ==
    MadeDirsum([kind |-> "dirsum", a |-> a, ka |-> ka, b |-> b, kb |-> kb, perm |-> perm,
                dims |-> Dims(Cardinality(DOMAIN perm)), sym |-> dirsum_symmetry(a, ka, b, kb, perm, self)])

(* tod_dirsum for na indexes of x, and tod_scatter to the shape of blk:    *)
(* the indexes of x come last.                                             *)
First(n, o) == [i \in 0 .. n - 1 |-> o[i]]
After(n, o) == [i \in 0 .. Cardinality(DOMAIN o) - n - 1 |-> o[n + i]]
to_dirsum(na, x, ka, y, kb) ==
    [o \in {Joint(p, q) : p \in DOMAIN x, q \in DOMAIN y} |-> ka * x[First(na, o)] + kb * y[After(na, o)]]
to_scatter(n, x, tr, blk) ==
    LET Inner(o) == After(Cardinality(DOMAIN o) - n, Apply(Invert(tr.perm), o))
    IN  IF {Inner(o) : o \in DOMAIN blk} # DOMAIN x THEN Thrown
        ELSE [o \in DOMAIN blk |-> tr.coef * x[Inner(o)]]

(* permc2 brings the indexes of A to the front. *)
CycledBack(na, nc) ==
    Invert(FoldLeft(LAMBDA p, i : Permute(p, FoldLeft(LAMBDA q, j : SwapAt(q, j - 1, j), Identity(nc), [j \in 1 .. nc - 1 |-> j])),
                    Identity(nc), [i \in 1 .. na |-> i]))
DirsumBlock(op, r, zero, t, blk) ==
    LET na == Cardinality(DOMAIN op.a.dims)
        nc == Cardinality(DOMAIN op.dims)
        Out(tr) == Then(Then(tr, r.tr), t)
    IN  Accumulate(zero, blk,
            IF r.zerob THEN to_scatter(na, op.a.map[r.ia], Out([perm |-> CycledBack(na, nc), coef |-> r.ka]), blk)
            ELSE IF r.zeroa THEN to_scatter(nc - na, op.b.map[r.ib], Out(Scaled(nc, r.kb)), blk)
            ELSE Transformed(to_dirsum(na, op.a.map[r.ia], r.ka, op.b.map[r.ib], r.kb), Out(Unit(nc))))
dirsum_block(op, zero, ic, t, blk) ==
    IF ic \notin DOMAIN op.recs THEN IF zero THEN [o \in DOMAIN blk |-> 0] ELSE blk
    ELSE DirsumBlock(op, op.recs[ic], zero, t, blk)
-----------------------------------------------------------------------------
(* The operations that are made of others, gen_bto_sum and                 *)
(* gen_bto_symmetrize2 and 3, with the streams gen_bto_aux_transform,   *)
(* gen_bto_aux_chsym and gen_bto_aux_symmetrize that they put between      *)
(* their operands and the output; compute_block and perform of all         *)
(* operations.                                                             *)

(* gen_bto_sum, from operations with their factors, added one by one. *)
sum_symmetry(sym, sym1, n) ==
    so_merge(so_dirsum(sym, n, sym1, n, Identity(2 * n)), [i \in 0 .. 2 * n - 1 |-> 1 + (i % n)])
sum_schedule(ops, sym) ==
    UNION {{orbit(sym, op.dims, j).can : j \in UNION {DOMAIN orbit(op.sym, op.dims, i).tr : i \in op.sch}} :
              op \in {ops[k].op : k \in DOMAIN ops}}
MadeSum(ops, sym) ==
    [kind |-> "sum", ops |-> ops, dims |-> ops[1].op.dims, sym |-> sym, sch |-> sum_schedule(ops, sym)]
gen_bto_sum(ops) ==
    MadeSum(ops, FoldLeft(LAMBDA sym, x : sum_symmetry(sym, x.op.sym, Cardinality(DOMAIN x.op.dims)),
                          Head(ops).op.sym, Tail(ops)))
-----------------------------------------------------------------------------
(* gen_bto_symmetrize2 and 3: the sum of op under all transformations trs,  *)
(* those of the group of 2 or 3 sets of indexes.                            *)

(* make_symmetry of symmetrize2 numbers the indexes that p exchanges in    *)
(* pairs, that of symmetrize3 the indexes of each group for itself.        *)
PairGroups(p) ==
    LET low == Sorted({i \in DOMAIN p : p[i] > i})
        Number(i) == 1 + CHOOSE k \in DOMAIN low : low[k] = Min({i, p[i]})
    IN  [grp |-> [i \in DOMAIN p |-> IF p[i] = i THEN 0 ELSE IF p[i] > i THEN 1 ELSE 2],
         idx |-> [i \in DOMAIN p |-> IF p[i] = i THEN 0 ELSE Number(i)]]
Numbered(grp) ==
    [grp |-> grp, idx |-> [i \in DOMAIN grp |-> IF grp[i] = 0 THEN 0
                                              ELSE Cardinality({j \in 0 .. i : grp[j] = grp[i]})]]
TripleGroups(p1, p2) ==
    Numbered([i \in DOMAIN p1 |-> IF p1[i] = i THEN IF p2[i] = i THEN 0 ELSE 2
                                  ELSE IF p2[i] = i THEN 1 ELSE 3])

MadeSymmetrized(kind, op, trs, sym) ==
    [kind |-> kind, op |-> op, trs |-> trs, dims |-> op.dims, sym |-> sym,
     sch |-> {orbit(sym, op.dims, Apply(trs[k].perm, j)).can :
                 k \in DOMAIN trs, j \in UNION {DOMAIN orbit(op.sym, op.dims, i).tr : i \in op.sch}}]
GroupSymmetry(op, g, trp, trc) == so_symmetrize(op.sym, g.grp, g.idx, trp, trc)

With(p, x) == [perm |-> p, coef |-> x]
gen_bto_symmetrize2(op, p, x) ==
    MadeSymmetrized("symmetrize2", op, <<Unit(Cardinality(DOMAIN p)), With(p, x)>>,
                    GroupSymmetry(op, PairGroups(p), x, x))
Exchanges(a, b, t) == <<Unit(Cardinality(DOMAIN a.perm)), a, b, t, Then(b, a), Then(t, a)>>
gen_bto_symmetrize3(op, p1, p2, x) ==
    MadeSymmetrized("symmetrize3", op, Exchanges(With(p1, x), With(p2, x), Then(With(p1, x), With(p2, x))),
                    GroupSymmetry(op, TripleGroups(p1, p2), x, 1))

(* The records for block ib: [ai, tr], a block of op and what is to be     *)
(* done with it.  Those of symmetrize2 are made in advance, for the        *)
(* canonical blocks of the result.                                         *)
OrbitRecords(op, o, ib) ==
    LET To(x) == [ai |-> o.can, tr |-> Then(o.tr[x[2]], op.trs[x[1]])]
        all == SelectSeq(Columns(<<1, 2>>, InOrder(DOMAIN o.tr)), LAMBDA x : Apply(op.trs[x[1]].perm, x[2]) = ib)
    IN  [k \in DOMAIN all |-> To(all[k])]
PairRecords(op, ib) ==
    IF ib \notin op.sch THEN <<>>
    ELSE FoldLeft(LAMBDA l, i : l \o OrbitRecords(op, orbit(op.op.sym, op.dims, i), ib), <<>>, InOrder(op.op.sch))

(* Records with the same block and the same permutation are added up.      *)
RECURSIVE Consolidated(_)
Consolidated(recs) ==
    LET Like(r) == r.ai = Head(recs).ai /\ r.tr.perm = Head(recs).tr.perm
        c == FoldLeft(LAMBDA x, r : x + r.tr.coef, 0, SelectSeq(recs, Like))
    IN  IF recs = <<>> THEN <<>>
        ELSE (IF c = 0 THEN <<>> ELSE <<[Head(recs) EXCEPT !.tr.coef = c]>>)
                 \o Consolidated(SelectSeq(recs, LAMBDA r : ~Like(r)))
BugForward(o, i, t) == [ai |-> o.can, tr |-> Then(o.tr[i], t)]
RecordOf(o, i, t) == [ai |-> o.can, tr |-> Then(o.tr[i], Inverted(t))]
TripleRecords(op, ib) ==
    LET at == [k \in DOMAIN op.trs |-> Apply(op.trs[k].perm, ib)]
        all == [k \in DOMAIN op.trs |-> RecordOf(orbit(op.op.sym, op.dims, at[k]), at[k], op.trs[k])]
    IN  Consolidated(SelectSeq(all, LAMBDA r : r.ai \in op.op.sch))
Records(op, ib) == IF op.kind = "symmetrize2" THEN PairRecords(op, ib) ELSE TripleRecords(op, ib)
-----------------------------------------------------------------------------
(* compute_block: acc is the block so far and whether it is still to be    *)
(* zeroed.                                                                 *)
Accumulator(zero, blk) == [zero |-> zero, blk |-> blk]
Finished(acc) == IF acc.zero THEN [o \in DOMAIN acc.blk |-> 0] ELSE acc.blk

Garbage == 7
(* A new block that t brings to the shape of blk. *)
Fresh(blk, t) == [o \in {Apply(Invert(t.perm), q) : q \in DOMAIN blk} |-> Garbage]

RECURSIVE ComputeBlock(_, _, _, _, _)

SumTerm(acc, op, o, c, ib, t) ==
    IF ib \in op.sch
    THEN Accumulator(FALSE, ComputeBlock(op, acc.zero, ib, Then(c, t), acc.blk))
    ELSE IF o.can \in op.sch
    THEN Accumulator(FALSE, ComputeBlock(op, acc.zero, o.can, Then(Then(o.tr[ib], c), t), acc.blk))
    ELSE acc
sum_block(op, zero, ib, t, blk) ==
    Finished(FoldLeft(LAMBDA acc, x : SumTerm(acc, x.op, orbit(x.op.sym, op.dims, ib),
                                              Scaled(Cardinality(DOMAIN ib), x.c), ib, t),
                      Accumulator(zero, blk), op.ops))

(* The records of one block of op.  If there are several, the block is     *)
(* made once: as the first needs it in symmetrize2, as it is in            *)
(* symmetrize3; the factor of t cancels in the former.                     *)
Copies(acc, recs, tmp, back, t) ==
    FoldLeft(LAMBDA a, r : Accumulator(FALSE, Accumulate(a.zero, a.blk, Transformed(tmp, Then(Then(back, r.tr), t)))),
             acc, recs)
AddBlock(op, acc, recs, t) ==
    LET tri == Then(recs[1].tr, t)
        made == IF op.kind = "symmetrize2" THEN tri ELSE Unit(Cardinality(DOMAIN recs[1].ai))
        back == IF op.kind = "symmetrize2" THEN Inverted(Then(recs[1].tr, Of(t.perm))) ELSE made
    IN  IF Len(recs) = 1
        THEN Accumulator(FALSE, ComputeBlock(op.op, acc.zero, recs[1].ai, tri, acc.blk))
        ELSE Copies(acc, recs,
                    ComputeBlock(op.op, TRUE, recs[1].ai, made, Fresh(acc.blk, Then(Inverted(made), tri))),
                    back, IF op.kind = "symmetrize2" THEN Of(t.perm) ELSE t)
RECURSIVE AddRecords(_, _, _, _)
AddRecords(op, acc, recs, t) ==
    IF recs = <<>> THEN acc
    ELSE AddRecords(op, AddBlock(op, acc, SelectSeq(recs, LAMBDA r : r.ai = Head(recs).ai), t),
                    SelectSeq(recs, LAMBDA r : r.ai # Head(recs).ai), t)

ComputeBlock(op, zero, ib, t, blk) ==
    CASE op.kind = "copy"   -> copy_block(op, zero, ib, t, blk)
      [] op.kind = "diag"   -> diag_block(op, zero, ib, t, blk)
      [] op.kind = "mult"   -> mult_block(op, zero, ib, t, blk)
      [] op.kind = "dirsum" -> dirsum_block(op, zero, ib, t, blk)
      [] op.kind = "sum"    -> sum_block(op, zero, ib, t, blk)
      [] op.kind = "symmetrize2" -> AddRecords(op, Accumulator(zero, blk), Records(op, ib), t).blk
      [] op.kind = "symmetrize3" -> Finished(AddRecords(op, Accumulator(zero, blk), Records(op, ib), t))
-----------------------------------------------------------------------------
(* The streams between an operand and the output: what a block that is put *)
(* to one puts on.                                                         *)
aux_transform(p, tr, sym, dims) ==
    IF IsIdentity(tr) THEN [p EXCEPT !.tr = Then(@, tr)]
    ELSE PutUnder(orbit(sym, dims, Apply(tr.perm, p.at)), Apply(tr.perm, p.at), p.blk, Then(p.tr, tr))

Spread(p, o, cans) == [k \in DOMAIN cans |-> Parcel(cans[k], p.blk, Then(p.tr, o.tr[cans[k]]))]
Canonicals(sym, dims, S) == InOrder({orbit(sym, dims, i).can : i \in S})
ChangedSymmetry(p, o, symb, dims) == Spread(p, o, Canonicals(symb, dims, DOMAIN o.tr))
aux_chsym(p, syma, symb, dims) == ChangedSymmetry(p, orbit(syma, dims, p.at), symb, dims)

(* The copies of the block at the least index left; the others in its      *)
(* orbit follow from them.                                                 *)
RECURSIVE LeastFirst(_, _, _, _)
LeastFirst(p, sym, dims, recs) ==
    LET least == Smallest({recs[k].ai : k \in DOMAIN recs})
        kept == Consolidated(SelectSeq(recs, LAMBDA r : r.ai = least))
        reached == DOMAIN orbit(sym, dims, least).tr
    IN  IF recs = <<>> THEN <<>>
        ELSE [k \in DOMAIN kept |-> Parcel(least, p.blk, kept[k].tr)]
                 \o LeastFirst(p, sym, dims, SelectSeq(recs, LAMBDA r : r.ai \notin reached))
SymmetricImages(p, o, trs) ==
    LET all == Columns(trs, InOrder(DOMAIN o.tr))
    IN  [k \in DOMAIN all |-> [ai |-> Apply(all[k][1].perm, all[k][2]),
                               tr |-> Then(Then(p.tr, o.tr[all[k][2]]), all[k][1])]]
aux_symmetrize(p, trs, syma, symb, dims) ==
    LeastFirst(p, symb, dims, SymmetricImages(p, orbit(syma, dims, p.at), trs))

(* perform: the blocks an operation puts to its stream. *)
RECURSIVE Puts(_)
PutOn(parcels, Image(_)) == FoldLeft(LAMBDA l, p : l \o Image(p), <<>>, parcels)
SumPuts(op, x) ==
    PutOn(Puts(x.op), LAMBDA p :
        LET q == aux_transform(p, Scaled(Cardinality(DOMAIN op.dims), x.c), op.sym, op.dims)
        IN  IF Len(op.ops) = 1 THEN <<q>> ELSE aux_chsym(q, x.op.sym, op.sym, op.dims))
Computed(op, i) ==
    Parcel(i, ComputeBlock(op, TRUE, i, Unit(Cardinality(DOMAIN i)), [o \in Offsets(i) |-> Garbage]),
           Unit(Cardinality(DOMAIN i)))
Puts(op) ==
    CASE op.kind = "copy" -> PutOn(req_nonzero_blocks(op.a), LAMBDA i : <<full_copy_task(op, i)>>)
      [] op.kind \in {"diag", "mult", "dirsum"} -> PutOn(InOrder(op.sch), LAMBDA i : <<Computed(op, i)>>)
      [] op.kind = "sum" -> PutOn(op.ops, LAMBDA x : SumPuts(op, x))
      [] op.kind \in {"symmetrize2", "symmetrize3"} ->
            PutOn(Puts(op.op), LAMBDA p : aux_symmetrize(p, op.trs, op.op.sym, op.sym, op.dims))

(* perform into a tensor, by gen_bto_aux_copy. *)
PutInto(out, p) ==
    LET x == Transformed(p.blk, p.tr)
        stat == put_find(out.blkstat, p.at)
        old == IF stat[p.at] THEN out.bt.map[p.at] ELSE Zero(p.at)
    IN  IF out = Thrown THEN Thrown
        ELSE IF p.blk = Thrown THEN Thrown
        ELSE IF ~check_canonical_block(out.bt, p.at) \/ DOMAIN x # Offsets(p.at) THEN Thrown
        ELSE put_write(out.bt, stat, p.at, x, Accumulate(FALSE, old, x))
perform(op) == FoldLeft(PutInto, [bt |-> open(NewTensor(op.dims), op.sym), blkstat |-> <<>>], Puts(op))
===============================================================================
