--------------------------- MODULE ContractionCalls ---------------------------
(***************************************************************************)
(* Calls of contraction2, and of the functions that list the products for  *)
(* a block of a contraction (ListInit, ListNext).                          *)
(***************************************************************************)
EXTENDS ContractionLists

CONSTANTS
    Orders,                \* <<N, M, K>>: uncontracted indexes of A and B, contracted ones
    K, Dim, Symmetries     \* for the lists: contracted indexes, blocks of each, symmetries

VARIABLE s       \* c, the labels la, lb, lc; or the context and the block ic of C
-----------------------------------------------------------------------------
(* contract until it is complete, then permutations of A, B and C.  The    *)
(* indexes of the tensors carry labels, as in a formula                    *)
(* c(i,j,..) = a(..) b(..); a contracted pair has one label.               *)

(* What is not contracted goes to C in the order of permc. *)
LabelsOfC(c, la, lb) ==
    LET free == SelectSeq(From1(la) \o From1(lb),
                          LAMBDA l : (l \notin Range(la)) \/ (l \notin Range(lb)))
    IN  IF is_complete(c) THEN Apply(c.permc, From0(free)) ELSE <<>>

Init == \E o \in Orders : \E p \in Bijection(0 .. o[1] + o[2] - 1, 0 .. o[1] + o[2] - 1) :
    LET c  == NewContraction(o[1], o[2], o[3], p)
        la == [i \in 0 .. NA(c) - 1 |-> <<"a", i>>]
        lb == [i \in 0 .. NB(c) - 1 |-> <<"b", i>>]
    IN  s = [c |-> c, la |-> la, lb |-> lb, lc |-> LabelsOfC(c, la, lb)]

Contract == \E ia \in DOMAIN s.la, ib \in DOMAIN s.lb :
    /\ CanContract(s.c, ia, ib)
    /\ LET c  == contract(s.c, ia, ib)
           lb == [s.lb EXCEPT ![ib] = s.la[ia]]
       IN  s' = [s EXCEPT !.c = c, !.lb = lb, !.lc = LabelsOfC(c, s.la, lb)]

Swaps(n) == {SwapAt(Identity(n), i, i + 1) : i \in 0 .. n - 2}
PermuteA == \E p \in Swaps(NA(s.c)) : s' = [s EXCEPT !.c = permute_a(@, p), !.la = Apply(p, @)]
PermuteB == \E p \in Swaps(NB(s.c)) : s' = [s EXCEPT !.c = permute_b(@, p), !.lb = Apply(p, @)]
PermuteC == \E p \in Swaps(NC(s.c)) : s' = [s EXCEPT !.c = permute_c(@, p), !.lc = Apply(p, @)]

Next ==
    \/ Contract
    \/ is_complete(s.c) /\ (PermuteA \/ PermuteB \/ PermuteC)

-----------------------------------------------------------------------------
LabelOf(i) ==
    IF i < NC(s.c) THEN s.lc[i]
    ELSE IF i < NC(s.c) + NA(s.c) THEN s.la[i - NC(s.c)] ELSE s.lb[i - NC(s.c) - NA(s.c)]

(* Whatever was permuted in whatever order, an index is connected to the   *)
(* other index with its label.                                             *)
LabelsConnected == \A i \in DOMAIN s.c.conn : s.c.conn[i] # i /\ LabelOf(s.c.conn[i]) = LabelOf(i)

(* Aligned, the contraction is the product of two matrices: its outer      *)
(* indexes of A, those of B and the inner ones are one run each ("permutes *)
(* the indexes of A, B, and C such that it can be done by matrix           *)
(* multiplication", contraction2_align.h).                                 *)
MatrixForm ==
    Cardinality(fuse(Aligned(s.c))) = Cardinality({x \in {"n", "m", "k"} : s.c[x] > 0})

Extent(l) == IF l[2] = 0 THEN 3 ELSE 2
Dims(f) == [i \in DOMAIN f |-> Extent(f[i])]
Step(f, l) == IF l \in Range(f) THEN get_increment(Dims(f), CHOOSE i \in DOMAIN f : f[i] = l) ELSE 0
Offsets(loops) ==
    FoldSet(LAMBDA l, acc : {<<o[1] + x * l.inca, o[2] + x * l.incb, o[3] + x * l.incc>> :
                                o \in acc, x \in 0 .. l.weight - 1},
            {<<0, 0, 0>>}, loops)
LoopPerLabel == {[weight |-> Extent(l), inca |-> Step(s.la, l), incb |-> Step(s.lb, l), incc |-> Step(s.lc, l)] :
                    l \in Range(s.la) \cup Range(s.lb)}

(* The fused loops visit the elements that one loop for each label visits. *)
LoopsComplete == Offsets(Range(populate(s.c, Dims(s.la), Dims(s.lb), Dims(s.lc)))) = Offsets(LoopPerLabel)

(* The three, for complete contractions. *)
ContractionExact == is_complete(s.c) => LabelsConnected /\ MatrixForm /\ LoopsComplete
-----------------------------------------------------------------------------
(* The lists of products for the blocks of C(i,j) = sum A(i,k..) B(j,k..)  *)
(* with K contracted indexes, for all pairs of symmetries from a given     *)
(* set, with one block of A zero or none.                                  *)

Cube == [i \in 0 .. K |-> Dim]
Formula == FoldLeft(LAMBDA c, i : contract(c, i, i), NewContraction(1, 1, K, Identity(2)),
                    [i \in 1 .. K |-> i])
Canonical(sym) == {i \in Index(Cube) : orbit(sym, Cube, i).can = i}

(* No block, the first one, one on the diagonal of the inner indexes. *)
Zeros == {<<>>, [i \in 0 .. K |-> 0], [i \in 0 .. K |-> IF i = 0 THEN 0 ELSE 1]}

ListInit == \E syma, symb \in Symmetries, zero \in Zeros :
    s = [ic |-> <<>>, c |-> Formula, dimsa |-> Cube, dimsb |-> Cube, syma |-> syma, symb |-> symb,
         blka |-> unfold_block_list(syma, Cube, Canonical(syma) \ {zero}),
         blkb |-> unfold_block_list(symb, Cube, Canonical(symb))]

Choose == \E ic \in [0 .. 1 -> 0 .. Dim - 1] : s' = [s EXCEPT !.ic = ic]

ListNext == Choose

-----------------------------------------------------------------------------
(* However the list is built, and however its products were merged, it is  *)
(* worth the products over all inner indexes ("the list contains all       *)
(* contraction pairs", up to the symmetry of the blocks); the short form   *)
(* of build_list is empty only if the list is.                             *)
ListComplete ==
    s.ic # <<>> =>
        LET Made(clst) == Value(s.c, s.syma, s.symb, [j \in DOMAIN clst |-> compute_block(s.c, clst[j])])
            all == Value(s.c, s.syma, s.symb, AllProducts(s, s.ic))
        IN  /\ Made(build_list_bl(s, s.ic)) = all
            /\ Made(build_list(s, s.ic, FALSE)) = all
            /\ build_list(s, s.ic, TRUE) # <<>> <=> build_list(s, s.ic, FALSE) # <<>>
===============================================================================
