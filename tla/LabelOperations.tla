--------------------------- MODULE LabelOperations ----------------------------
(***************************************************************************)
(* Labels of blocks and the rules that tell from them which blocks of a    *)
(* tensor may differ from zero (se_label): block_labeling,                 *)
(* evaluation_rule, and er_optimize, er_merge, er_reduce, which bring a    *)
(* rule to other indexes.                                                  *)
(*                                                                         *)
(* A product table pt is [n, table], table[pair_index(k, l)] being the set *)
(* of labels in the product of k and l.  A rule is a set of products, any  *)
(* of which may allow a block; a product is a set of terms <<seq, intr>>,  *)
(* each of which must allow it: seq[i] is how often the label of index i   *)
(* counts, and intr must be in the product of these labels.                *)
(***************************************************************************)
EXTENDS Contractions

identity == 0       \* k_identity of product_table_i
invalid == -1       \* k_invalid of product_table_i: the largest size_t

(* point_group_table.  With the invalid label for l2, l2 + 1 wraps to zero *)
(* and the entry is that of number l1.                                     *)
pair_index(l1, l2) == ((l2 * (l2 + 1)) \div 2) + l1
times(pt, i, l) == pt.table[IF l = invalid \/ l > i THEN pair_index(i, l) ELSE pair_index(l, i)]
labels(pt) == 0 .. pt.n - 1
product(pt, lg) ==
    IF lg = <<>> THEN {}
    ELSE FoldLeft(LAMBDA S, l : UNION {times(pt, k, l) : k \in S}, {Head(lg)} \ {invalid}, Tail(lg))
is_in_product(pt, lg, l) == l \in product(pt, lg)

SumOver(S, f(_)) == FoldSet(LAMBDA i, x : x + f(i), 0, S)
Weight(seq) == SumOver(DOMAIN seq, LAMBDA i : seq[i])
Zero(seq) == Weight(seq) = 0
Ones(n) == [i \in 0 .. n - 1 |-> 1]
AllAllowed(n) == {{<<Ones(n), invalid>>}}
-----------------------------------------------------------------------------
(* block_labeling: indexes of one type share the labels of their blocks;   *)
(* labels[t][k] is the label of block k.                                   *)

NewLabeling(bidims) ==
    LET sizes == {bidims[i] : i \in DOMAIN bidims}
        First(d) == Min({i \in DOMAIN bidims : bidims[i] = d})
        type == [i \in DOMAIN bidims |->
                    Cardinality({d \in sizes : First(d) < First(bidims[i])})]
    IN  [type |-> type,
         labels |-> [t \in Range(type) |->
                        [k \in 0 .. bidims[CHOOSE i \in DOMAIN type : type[i] = t] - 1 |-> invalid]]]

get_label(bl, i, k) == bl.labels[bl.type[i]][k]
get_dim(bl, i) == Cardinality(DOMAIN bl.labels[bl.type[i]])

(* The indexes of msk get a type of their own if others share theirs. *)
BugSharedType(bl, msk, blk, l) == [bl EXCEPT !.labels[bl.type[Min(msk)]][blk] = l]
assign(bl, msk, blk, l) ==
    LET type == bl.type[Min(msk)]
        fresh == Cardinality(DOMAIN bl.labels)
        shared == \E i \in DOMAIN bl.type \ msk : bl.type[i] = type
    IN  IF ~shared THEN [bl EXCEPT !.labels[type][blk] = l]
        ELSE [type   |-> [i \in DOMAIN bl.type |-> IF i \in msk THEN fresh ELSE bl.type[i]],
              labels |-> [t \in DOMAIN bl.labels \cup {fresh} |->
                            IF t # fresh THEN bl.labels[t] ELSE [bl.labels[type] EXCEPT ![blk] = l]]]

(* match: one type for all indexes with the same labels, in the order of   *)
(* the indexes.                                                            *)
match(bl) ==
    LET Of(i) == bl.labels[bl.type[i]]
        First(i) == Min({j \in DOMAIN bl.type : Of(j) = Of(i)})
        firsts == Sorted({First(i) : i \in DOMAIN bl.type})
    IN  [type   |-> [i \in DOMAIN bl.type |-> CHOOSE t \in DOMAIN firsts : firsts[t] = First(i)],
         labels |-> [t \in DOMAIN firsts |-> Of(firsts[t])]]

(* Index i of bl goes to index map[i] of bl2, if i is in the domain. *)
transfer_labeling(bl, map, bl2) ==
    LET Mates(i) == {map[j] : j \in {j \in DOMAIN map : bl.type[j] = bl.type[i]}}
        leaders == Sorted({i \in DOMAIN map : \A j \in DOMAIN map : bl.type[j] = bl.type[i] => i <= j})
    IN  FoldLeft(LAMBDA to, i : FoldLeft(LAMBDA to1, k : assign(to1, Mates(i), k - 1, get_label(bl, i, k - 1)),
                                         to, [k \in 1 .. get_dim(bl, i) |-> k]),
                 bl2, From1(leaders))
-----------------------------------------------------------------------------
(* product_rule: a term that allows everything is left out of a product    *)
(* that has others, and is replaced by one with the same sequence.         *)
Add(p, term) ==
    IF term[2] = invalid /\ p # {} THEN p
    ELSE (p \ {<<term[1], invalid>>}) \cup {term}
Joined(p, q) == FoldSet(LAMBDA term, r : Add(r, term), p, q)

LabelsAt(bl, seq, idx) ==
    FoldLeft(LAMBDA lg, i : lg \o [j \in 1 .. seq[i] |-> get_label(bl, i, idx[i])],
             <<>>, From1(Sorted(DOMAIN seq)))
(* is_allowed of se_label *)
TermAllows(pt, bl, term, idx) ==
    \/ term[2] = invalid
    \/ \E i \in DOMAIN idx : term[1][i] # 0 /\ get_label(bl, i, idx[i]) = invalid
    \/ is_in_product(pt, LabelsAt(bl, term[1], idx), term[2])
is_allowed(pt, bl, rule, idx) == \E p \in rule : p # {} /\ \A term \in p : TermAllows(pt, bl, term, idx)

set_rule(n, intr) == {{<<Ones(n), l>>} : l \in intr}
-----------------------------------------------------------------------------
(* er_optimize *)

Mergable(pt) == \A l \in labels(pt) : product(pt, <<l, l>>) = {identity}
Single(pt) == \A k, l \in labels(pt) : Cardinality(product(pt, <<k, l>>)) = 1
Reduced(pt, seq) == IF Mergable(pt) THEN [i \in DOMAIN seq |-> seq[i] % 2] ELSE seq

(* A product without what a sequence of zeros or an invalid label allows;  *)
(* it can be left out if a term or two of its terms forbid everything.     *)
Needless(pt, term) == term[2] = invalid \/ (Zero(Reduced(pt, term[1])) /\ term[2] = identity)
Forbids(pt, p, term) ==
    \/ term[2] \notin {invalid, identity} /\ Zero(Reduced(pt, term[1]))
    \/ Single(pt) /\ \E u \in p : u[1] = term[1] /\ u[2] # term[2]
Optimized(pt, p) == {<<Reduced(pt, term[1]), term[2]>> : term \in {t \in p : ~Needless(pt, t)}}
er_optimize(pt, n, rule) ==
    LET some == {p \in rule \ {{}} : ~\E term \in p : Forbids(pt, p, term)}
    IN  IF \E p \in some : \A term \in p : Needless(pt, term) THEN AllAllowed(n)
        ELSE {Optimized(pt, p) : p \in some}
-----------------------------------------------------------------------------
(* combine_label, the elements of one table as one.                        *)
add(pt, n, el, other) ==
    [el EXCEPT !.rule = IF other.rule = {} THEN {}
                        ELSE er_optimize(pt, n, {Joined(p, q) : p \in el.rule, q \in other.rule})]

(* er_merge: index i goes to mmap[i]; where smsk says that equal labels    *)
(* cancel, only the parity counts.  A term without indexes allows all if   *)
(* it has the identity, and forbids all otherwise.                         *)
Gathered(seq, map, S) == [x \in S |-> SumOver({i \in DOMAIN seq : map[i] = x}, LAMBDA i : seq[i])]
er_merge(rule, m, mmap, smsk) ==
    LET MergedSeq(seq) == [x \in 0 .. m - 1 |-> Gathered(seq, mmap, 0 .. m - 1)[x] % (IF smsk[x] THEN 2 ELSE Weight(seq) + 1)]
        some == {p \in rule : \A term \in p : Zero(MergedSeq(term[1])) => term[2] = identity}
        Merged(p) == Joined({}, {<<MergedSeq(term[1]), term[2]>> : term \in {t \in p : ~Zero(MergedSeq(t[1]))}})
    IN  IF {} \in {Merged(p) : p \in some} THEN AllAllowed(m) ELSE {Merged(p) : p \in some}
-----------------------------------------------------------------------------
(* er_reduce: index i goes to index rmap[i] of the result, if that is less *)
(* than k, or is summed over in step rmap[i] - k, where it takes the       *)
(* labels of rdims.                                                        *)

Selections(F) == {f \in [DOMAIN F -> UNION Range(F)] : \A d \in DOMAIN F : f[d] \in F[d]}
IntrOf(p, seq) == {term[2] : term \in {t \in p : t[1] = seq}}
SeqsOf(p) == {term[1] : term \in p}

(* A step over all labels that only joins two sequences needs no labels:   *)
(* the sequences are combined.  The others are done for each label.        *)
InStep(p, x, k, rmap) == {seq \in SeqsOf(p) : \E i \in DOMAIN seq : rmap[i] = k + x /\ seq[i] # 0}
Joins(pt, p, x, k, rmap, rdims) ==
    /\ rdims[x] = labels(pt) /\ Cardinality(InStep(p, x, k, rmap)) = 2
    /\ SumOver(InStep(p, x, k, rmap), LAMBDA seq : Gathered(seq, rmap, {k + x})[k + x]) = 2
Components(S, edges) ==
    FoldSet(LAMBDA e, cs : {c \in cs : c \cap e = {}} \cup {UNION {c \in cs : c \cap e # {}}},
            {{seq} : seq \in S}, edges)

(* What can be left of labels that n further common steps add.             *)
BugNoSquares(pt, n) == {<<>>}
get_product_labels(pt, n) ==
    LET squares == UNION {product(pt, <<l, l>>) : l \in labels(pt)}
    IN  IF n = 0 THEN {<<>>}
        ELSE {<<l>> : l \in IF n = 1 THEN squares ELSE UNION {product(pt, t) : t \in [1 .. n -> squares]}}

(* append_intr: the sets of labels that the sequences of component c,      *)
(* combined, may have.                                                     *)
append_intr(pt, p, c, nmrsteps) ==
    IF nmrsteps = 0 THEN {IntrOf(p, seq) : seq \in c}
    ELSE LET combos == Selections([seq \in c |-> IntrOf(p, seq)])
             rests == get_product_labels(pt, nmrsteps - 1)
             Labels(f) == UNION {product(pt, [i \in 1 .. Cardinality(c) |-> f[SetToSeq(c)[i]]] \o rest) : rest \in rests}
         IN  {Range(g) : g \in Selections([f \in combos |-> Labels(f)])}

intr_labels(pt, p, comps, joins, k, rmap) ==
    LET Multiplicity(c) ==
            Max({0} \cup {Cardinality({y \in joins : InStep(p, y, k, rmap) = InStep(p, x, k, rmap)}) :
                            x \in {x \in joins : InStep(p, x, k, rmap) \subseteq c}})
    IN  IF p = {} THEN {} ELSE Selections([c \in comps |-> append_intr(pt, p, c, Multiplicity(c))])

(* The product that is left: cur[<<c, l>>] is what became of label l of    *)
(* component c.                                                            *)
KeptOf(c, k, rmap) == [x \in 0 .. k - 1 |-> SumOver(c, LAMBDA seq : Gathered(seq, rmap, {x})[x])]
NoneKept(c, k, rmap) == Zero(KeptOf(c, k, rmap))
Remaining(cur, k, rmap) ==
    Joined({}, {<<KeptOf(q[1], k, rmap), cur[q]>> : q \in {r \in DOMAIN cur : ~NoneKept(r[1], k, rmap)}})
StepTerms(comps, il) == {<<c, l>> : c \in comps, l \in UNION Range(il)} \cap UNION {{c} \X il[c] : c \in comps}

(* What becomes of the labels il in the steps todo.                        *)
curs(pt, comps, il, todo, k, rmap, rdims) ==
    LET Summed(c) == [x \in todo |-> SumOver(c, LAMBDA seq : Gathered(seq, rmap, {k + x})[k + x])]
        StepLabels(c, ridx) ==
            FoldLeft(LAMBDA lg, x : lg \o [j \in 1 .. Summed(c)[x] |-> ridx[x]], <<>>, From1(Sorted(todo)))
    IN  UNION {Selections([q \in StepTerms(comps, il) |-> product(pt, StepLabels(q[1], ridx) \o <<q[2]>>)]) :
                ridx \in Selections([x \in todo |-> rdims[x]])}

(* The empty product stands for one that allows all.                       *)
reduce_product(pt, p, k, rmap, rdims) ==
    LET joins == {x \in DOMAIN rdims : Joins(pt, p, x, k, rmap, rdims)}
        todo == DOMAIN rdims \ joins
        comps == Components(SeqsOf(p), {InStep(p, x, k, rmap) : x \in joins})
        intrs == intr_labels(pt, p, comps, joins, k, rmap)
    IN  IF todo # {}
        THEN UNION {{Remaining(cur, k, rmap) : cur \in {f \in curs(pt, comps, il, todo, k, rmap, rdims) :
                        \A q \in StepTerms(comps, il) : NoneKept(q[1], k, rmap) => f[q] \in {identity, invalid}}} :
                    il \in intrs}
        ELSE {Remaining([q \in StepTerms(comps, il) |-> q[2]], k, rmap) :
                il \in {jl \in intrs : \A c \in comps : NoneKept(c, k, rmap) => jl[c] \cap {identity, invalid} # {}}}
er_reduce(pt, rule, k, rmap, rdims) ==
    LET left == UNION {reduce_product(pt, p, k, rmap, rdims) : p \in rule}
    IN  IF {} \in left THEN AllAllowed(k) ELSE left
-----------------------------------------------------------------------------
(* so_permute, so_merge, so_reduce, so_dirprod, so_dirsum, so_symmetrize   *)
(* and so_apply for labels (se_label).  An element is [bl, rule].  A       *)
(* symmetry is a function from the product tables it has elements of to    *)
(* sequences of elements; most operations make one element of each table.  *)

CONSTANT Tables     \* the product tables by their identifiers

Combined(n, id, els) == FoldLeft(LAMBDA el, other : add(Tables[id], n, el, other), Head(els), Tail(els))
OfEach(ids, Element(_)) == [id \in ids |-> <<Element(id)>>]
Opt(n, id, rule) == er_optimize(Tables[id], n, rule)

(* Terms and products on other indexes: index i becomes map[i] of n.       *)
Moved(seq, map, n) == [x \in 0 .. n - 1 |-> IF x \in Range(map) THEN seq[CHOOSE i \in DOMAIN map : map[i] = x] ELSE 0]
MovedProduct(p, map, n) == Joined({}, {<<Moved(term[1], map, n), term[2]>> : term \in p})
MovedRule(rule, map, n) == {MovedProduct(p, map, n) : p \in rule \ {{}}}

PermutedElement(el, p) ==
    [bl   |-> [el.bl EXCEPT !.type = Apply(p, el.bl.type)],
     rule |-> {{<<Apply(p, term[1]), term[2]>> : term \in q} : q \in el.rule}]
so_permute(sym, p) == [id \in DOMAIN sym |-> [e \in DOMAIN sym[id] |-> PermutedElement(sym[id][e], p)]]

so_apply(sym, p, keep_zero) ==
    LET n == Cardinality(DOMAIN p)
        Applied(el) == IF keep_zero THEN PermutedElement(el, p)
                       ELSE [PermutedElement(el, p) EXCEPT !.rule = AllAllowed(n)]
    IN  [id \in DOMAIN sym |-> [e \in DOMAIN sym[id] |-> Applied(sym[id][e])]]
-----------------------------------------------------------------------------
(* Indexes of two tensors in the indexes of their product or sum.          *)
FirstMap(perm, n) == [j \in 0 .. n - 1 |-> Invert(perm)[j]]
SecondMap(perm, n, m) == [j \in 0 .. m - 1 |-> Invert(perm)[n + j]]

so_dirprod(syma, n, symb, m, bidims, perm) ==
    LET Pair(id) ==
            LET a == Combined(n, id, syma[id])
                b == Combined(m, id, symb[id])
                bl == transfer_labeling(b.bl, SecondMap(perm, n, m),
                        transfer_labeling(a.bl, FirstMap(perm, n), NewLabeling(bidims)))
            IN  [bl   |-> match(bl),
                 rule |-> Opt(n + m, id, {Joined(p, q) : p \in MovedRule(a.rule, FirstMap(perm, n), n + m),
                                                         q \in MovedRule(b.rule, SecondMap(perm, n, m), n + m)})]
        Alone(el, id, map) ==
            [bl   |-> match(transfer_labeling(el.bl, map, NewLabeling(bidims))),
             rule |-> Opt(n + m, id, MovedRule(el.rule, map, n + m))]
    IN  OfEach(DOMAIN syma \cup DOMAIN symb,
               LAMBDA id : IF id \notin DOMAIN symb THEN Alone(Combined(n, id, syma[id]), id, FirstMap(perm, n))
                           ELSE IF id \notin DOMAIN syma THEN Alone(Combined(m, id, symb[id]), id, SecondMap(perm, n, m))
                           ELSE Pair(id))

(* A tensor without elements of a table gets a product that allows all.    *)
so_dirsum(syma, n, symb, m, bidims, perm) ==
    LET ma == FirstMap(perm, n)
        mb == SecondMap(perm, n, m)
        AnyBlock(map) == {<<Moved([i \in DOMAIN map |-> 1], map, n + m), invalid>>}
        Both(id) ==
            LET a == Combined(n, id, syma[id])
                b == Combined(m, id, symb[id])
            IN  [bl   |-> match(transfer_labeling(b.bl, mb, transfer_labeling(a.bl, ma, NewLabeling(bidims)))),
                 rule |-> MovedRule(a.rule, ma, n + m) \cup MovedRule(b.rule, mb, n + m)]
        Alone(el, map, other) ==
            [bl   |-> transfer_labeling(el.bl, map, NewLabeling(bidims)),
             rule |-> MovedRule(el.rule, map, n + m) \cup {AnyBlock(other)}]
    IN  OfEach(DOMAIN syma \cup DOMAIN symb,
               LAMBDA id : IF id \notin DOMAIN symb THEN Alone(Combined(n, id, syma[id]), ma, mb)
                           ELSE IF id \notin DOMAIN syma THEN Alone(Combined(m, id, symb[id]), mb, [j \in 0 .. n - 1 |-> mb[j]])
                           ELSE Both(id))
-----------------------------------------------------------------------------
(* so_merge: the indexes with the same number in mseq become one.  smsk:   *)
(* whether equal labels at an index cancel.  The code compares the first   *)
(* index with the number of blocks (the loop over these has a counter of   *)
(* its own).                                                               *)
Leaders(seq) == {i \in DOMAIN seq : seq[i] = 0 \/ \A j \in 0 .. i - 1 : seq[j] # seq[i]}
Leader(seq, i) == CHOOSE j \in Leaders(seq) : j = i \/ (seq[i] # 0 /\ seq[j] = seq[i])
PlaceOf(S, i) == Cardinality({j \in S : j < i})
CanSimplify(bl, i) == i + 1 = get_dim(bl, i)
so_merge(sym, mseq) ==
    LET n == Cardinality(DOMAIN mseq)
        first == Leaders(mseq)
        m == Cardinality(first)
        mmap == [i \in DOMAIN mseq |-> PlaceOf(first, Leader(mseq, i))]
        lmap == [i \in first |-> PlaceOf(first, i)]
        Merged(id, el) ==
            LET bidims == [x \in 0 .. m - 1 |-> get_dim(el.bl, Sorted(first)[x])]
                smsk == [x \in 0 .. m - 1 |-> mseq[Sorted(first)[x]] # 0 /\ CanSimplify(el.bl, Sorted(first)[x])]
            IN  [bl   |-> transfer_labeling(el.bl, lmap, NewLabeling(bidims)),
                 rule |-> Opt(m, id, er_merge(el.rule, m, mmap, smsk))]
    IN  OfEach(DOMAIN sym, LAMBDA id : Merged(id, Combined(n, id, sym[id])))

(* so_reduce: the indexes with the same number x in rseq are summed over   *)
(* together, over the blocks range[x].                                     *)
StepRange(bl, i) == 0 .. get_dim(bl, i) - 1
StepLabels(bl, id, together, range) ==
    LET i == Min(together)
        Disagree == \E j \in together, k \in range :
                        /\ get_label(bl, j, k) # get_label(bl, i, k)
                        /\ invalid \in {get_label(bl, i, k), get_label(bl, j, k)}
    IN  IF range = StepRange(bl, i) \/ Disagree THEN labels(Tables[id])
        ELSE {get_label(bl, i, k) : k \in range}
so_reduce(sym, rseq, range) ==
    LET n == Cardinality(DOMAIN rseq)
        kept == {i \in DOMAIN rseq : rseq[i] = 0}
        k == Cardinality(kept)
        map == [i \in kept |-> PlaceOf(kept, i)]
        rmap == [i \in DOMAIN rseq |-> IF i \in kept THEN map[i] ELSE k + rseq[i] - 1]
        Reduced1(id, el) ==
            LET rdims == [x \in 0 .. Max(Range(rseq)) - 1 |->
                            StepLabels(el.bl, id, {i \in DOMAIN rseq : rseq[i] = x + 1}, range[x])]
            IN  [bl   |-> transfer_labeling(el.bl, map, NewLabeling([x \in 0 .. k - 1 |-> get_dim(el.bl, Sorted(kept)[x])])),
                 rule |-> Opt(k, id, er_reduce(Tables[id], el.rule, k, rmap, rdims))]
    IN  OfEach(DOMAIN sym, LAMBDA id : Reduced1(id, Combined(n, id, sym[id])))
-----------------------------------------------------------------------------
(* so_symmetrize over all permutations of the groups of indexes: idxgrp[i] *)
(* is the group of index i, or zero, symidx[i] its place there.            *)
GroupPermutations(idxgrp, symidx) ==
    LET grps == 1 .. Max(Range(idxgrp))
        Source(p, i) == IF idxgrp[i] = 0 THEN i
                        ELSE CHOOSE h \in DOMAIN idxgrp : /\ idxgrp[h] # 0 /\ symidx[h] = symidx[i]
                                                         /\ p[idxgrp[h]] = idxgrp[i]
    IN  {permutation_builder([i \in DOMAIN idxgrp |-> Source(p, i)], Identity(Cardinality(DOMAIN idxgrp))) :
            p \in Bijection(grps, grps)}
so_symmetrize(sym, idxgrp, symidx) ==
    LET n == Cardinality(DOMAIN idxgrp)
        Symmetrized(id, el) ==
            [bl   |-> transfer_labeling(el.bl, Identity(n), NewLabeling([i \in 0 .. n - 1 |-> get_dim(el.bl, i)])),
             rule |-> Opt(n, id, {Joined({}, {<<Apply(p, term[1]), term[2]>> : term \in q}) :
                                    p \in GroupPermutations(idxgrp, symidx), q \in el.rule})]
    IN  [id \in DOMAIN sym |-> [e \in DOMAIN sym[id] |-> Symmetrized(id, sym[id][e])]]

(* symmetrize refuses groups whose indexes differ in their labels.         *)
Symmetrizable(sym, idxgrp, symidx) ==
    \A id \in DOMAIN sym : \A e \in DOMAIN sym[id] : \A i, j \in DOMAIN idxgrp :
        idxgrp[i] # 0 /\ idxgrp[j] # 0 /\ symidx[i] = symidx[j] => sym[id][e].bl.type[i] = sym[id][e].bl.type[j]
===============================================================================
