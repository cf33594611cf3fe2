-------------------------- MODULE ContractionLists --------------------------
(***************************************************************************)
(* For one block of C = A B, the list of products of blocks of A and B     *)
(* that make it up: gen_bto_contract2_clst_builder with its two ways to    *)
(* build the list, gen_bto_contract2_block_list, the merging of equal      *)
(* products (btod_contract2_clst_optimize), and the use of the list by     *)
(* gen_bto_contract2_block::compute_block.                                 *)
(*                                                                         *)
(* ctx holds the contraction c, dimsa, dimsb, syma, symb and the unfolded  *)
(* lists blka, blkb of non-zero blocks.  Sorted vectors are sets.          *)
(***************************************************************************)
EXTENDS BlockTensor

(* gen_bto_unfold_block_list::build *)
unfold_block_list(sym, dims, blst) == UNION {DOMAIN orbit(sym, dims, i).tr : i \in blst}

(* Positions of the contracted indexes in A (mapak) and of their partners  *)
(* in B (mapbk); the rest (mapai, mapbj) goes to C.                        *)
mapak(c) == LET s == Sorted({i \in ASlots(c) : c.conn[i] \in BSlots(c)})
            IN  [j \in DOMAIN s |-> s[j] - NC(c)]
Partners(c, inner) == [j \in DOMAIN inner |-> c.conn[NC(c) + inner[j]] - NC(c) - NA(c)]
mapbk(c) == Partners(c, mapak(c))
At(pos, i) == [j \in DOMAIN pos |-> i[pos[j]]]
KOfA(c, ia) == At(mapak(c), ia)
KOfB(c, ib) == At(mapbk(c), ib)

(* The blocks of A and B that the inner index ik joins to block ic of C:   *)
(* `slot` is the first slot of the tensor, inner its contracted indexes.   *)
JoinIndex(c, slot, n, inner, ic, ik) ==
    [i \in 0 .. n - 1 |->
        IF c.conn[slot + i] < NC(c) THEN ic[c.conn[slot + i]]
        ELSE ik[CHOOSE j \in DOMAIN inner : inner[j] = i]]
AIndex(c, ic, ik) == JoinIndex(c, NC(c), NA(c), mapak(c), ic, ik)
BIndex(c, ic, ik) == JoinIndex(c, NC(c) + NA(c), NB(c), mapbk(c), ic, ik)
CIndex(c, ia, ib) ==
    [i \in 0 .. NC(c) - 1 |->
        IF c.conn[i] \in ASlots(c) THEN ia[c.conn[i] - NC(c)]
        ELSE ib[c.conn[i] - NC(c) - NA(c)]]

dimsk(ctx) == KOfA(ctx.c, ctx.dimsa)

contr_pair(ia, oa, ib, ob) ==
    [ia |-> ia, acia |-> oa.can, tra |-> oa.tr[ia],
     ib |-> ib, acib |-> ob.can, trb |-> ob.tr[ib]]

-----------------------------------------------------------------------------
(* btod_contract2_clst_optimize *)

Adapted(c, p) == permute_b(permute_a(c, p.tra.perm), p.trb.perm)
SameProduct(c, p, q) ==
    p.acia = q.acia /\ p.acib = q.acib /\ Adapted(c, p).conn = Adapted(c, q).conn

Coef(p) == p.tra.coef * p.trb.coef

(* Product j1 absorbs the equal ones behind it, one after the other, or    *)
(* both vanish; the list and the next j1.                                  *)
Absorb(clst, j1, j2, d) ==
    IF d = 0 THEN [clst |-> RemoveAt(RemoveAt(clst, j2), j1), j1 |-> j1]
    ELSE [clst |-> RemoveAt([clst EXCEPT ![j1].tra.coef = d, ![j1].trb.coef = 1], j2), j1 |-> j1]
AbsorbNext(clst, j1, same) ==
    IF same = {} THEN [clst |-> clst, j1 |-> j1 + 1]
    ELSE Absorb(clst, j1, Min(same), Coef(clst[j1]) + Coef(clst[Min(same)]))

RECURSIVE Coalesce(_, _)
Coalesce(c, l) ==
    IF l.j1 > Len(l.clst) THEN l.clst
    ELSE Coalesce(c, AbsorbNext(l.clst, l.j1,
             {j2 \in l.j1 + 1 .. Len(l.clst) : SameProduct(c, l.clst[l.j1], l.clst[j2])}))

coalesce(c, clst) == Coalesce(c, [clst |-> clst, j1 |-> 1])

-----------------------------------------------------------------------------
(* build_list(testzero): for each inner index that is not yet covered, all *)
(* products of the two orbits; their inner indexes are then covered.       *)
OrbitPairs(c, oa, ob, ic) ==
    {p \in (DOMAIN oa.tr) \X (DOMAIN ob.tr) :
        KOfA(c, p[1]) = KOfB(c, p[2]) /\ CIndex(c, p[1], p[2]) = ic}
OrbitProducts(oa, ob, pairs) ==
    LET pairs_of(ja) == InOrder({p[2] : p \in {p \in pairs : p[1] = ja}})
    IN  FoldLeft(LAMBDA l, ja : l \o
            FoldLeft(LAMBDA m, jb : Append(m, contr_pair(ja, oa, jb, ob)), <<>>, pairs_of(ja)),
            <<>>, InOrder({p[1] : p \in pairs}))

RECURSIVE FromOrbits(_, _, _, _)

(* Before the inner indexes chk, and with the first products of them. *)
BothOrbits(ctx, ic, chk, testzero, oa, ob) ==
    LET pairs == OrbitPairs(ctx.c, oa, ob, ic)
        More(clst) == IF testzero /\ clst # <<>> THEN clst
                      ELSE clst \o FromOrbits(ctx, ic, chk \ {KOfA(ctx.c, p[1]) : p \in pairs}, testzero)
    IN  More(coalesce(ctx.c, OrbitProducts(oa, ob, pairs)))
FromPair(ctx, ic, chk, testzero, ik, ia, ib) ==
    IF ia \notin ctx.blka \/ ib \notin ctx.blkb
    THEN FromOrbits(ctx, ic, chk \ {ik}, testzero)
    ELSE BothOrbits(ctx, ic, chk, testzero,
             orbit(ctx.syma, ctx.dimsa, ia), orbit(ctx.symb, ctx.dimsb, ib))
FromInner(ctx, ic, chk, testzero, ik) ==
    FromPair(ctx, ic, chk, testzero, ik, AIndex(ctx.c, ic, ik), BIndex(ctx.c, ic, ik))
FromOrbits(ctx, ic, chk, testzero) ==
    IF chk = {} THEN <<>> ELSE FromInner(ctx, ic, chk, testzero, Smallest(chk))

build_list(ctx, ic, testzero) == FromOrbits(ctx, ic, Index(dimsk(ctx)), testzero)

(* build_list with a gen_bto_contract2_block_list: the inner indexes that  *)
(* a row of A and a row of B have in common.                               *)
PairsOver(ctx, ic, inner) ==
    LET Pair(ia, ib) == contr_pair(ia, orbit(ctx.syma, ctx.dimsa, ia),
                                   ib, orbit(ctx.symb, ctx.dimsb, ib))
    IN  FoldLeft(LAMBDA l, ik : Append(l, Pair(AIndex(ctx.c, ic, ik), BIndex(ctx.c, ic, ik))),
                 <<>>, InOrder(inner))

BugRowOfB(ctx, ic) ==
    coalesce(ctx.c, PairsOver(ctx, ic,
        {ik \in Index(dimsk(ctx)) : BIndex(ctx.c, ic, ik) \in ctx.blkb}))
build_list_bl(ctx, ic) ==
    coalesce(ctx.c, PairsOver(ctx, ic,
        {ik \in Index(dimsk(ctx)) : AIndex(ctx.c, ic, ik) \in ctx.blka
                                 /\ BIndex(ctx.c, ic, ik) \in ctx.blkb}))

-----------------------------------------------------------------------------
(* compute_block: each product contracts the canonical blocks with the     *)
(* descriptor adjusted to their transformations.                           *)
compute_block(c, p) ==
    [a |-> p.acia, b |-> p.acib, coef |-> Coef(p),
     contr |-> permute_b(permute_a(c, Invert(p.tra.perm)), Invert(p.trb.perm)).conn]
-----------------------------------------------------------------------------
(* What the products of a block of C are worth: products that differ by a  *)
(* symmetry of the canonical blocks themselves are the same up to sign,    *)
(* and cancel if they are so with both signs.                              *)

RECURSIVE Closure(_, _)
Closure(sym, g) ==
    LET g1 == g \cup {Then(t, sym[e].tr) : t \in g, e \in DOMAIN sym}
    IN  IF g1 = g THEN g ELSE Closure(sym, g1)
SelfSymmetries(sym, i) ==
    {t \in Closure(sym, {Unit(Cardinality(DOMAIN i))}) : Apply(t.perm, i) = i}

Forms(c, syma, symb, p) ==
    LET c1 == [c EXCEPT !.conn = p.contr]
    IN  {[contr |-> permute_b(permute_a(c1, t.perm), u.perm).conn,
          coef |-> p.coef * t.coef * u.coef] :
            t \in SelfSymmetries(syma, p.a), u \in SelfSymmetries(symb, p.b)}

Amount(forms) ==
    LET k == CHOOSE k \in {f.contr : f \in forms} : TRUE
        x == {f.coef : f \in {f \in forms : f.contr = k}}
    IN  IF Cardinality(x) > 1 THEN 0 ELSE CHOOSE y \in x : TRUE
Worth(worth) ==   \* of a sequence of <<kind, amount>>
    LET Total(k) == FoldLeft(LAMBDA n, x : IF x[1] = k THEN n + x[2] ELSE n, 0, worth)
    IN  {x \in {<<k, Total(k)>> : k \in {x[1] : x \in Range(worth)}} : x[2] # 0}
Value(c, syma, symb, products) ==
    LET Of(p, forms) == <<<<p.a, p.b, {f.contr : f \in forms}>>, Amount(forms)>>
    IN  Worth(FoldLeft(LAMBDA l, p : Append(l, Of(p, Forms(c, syma, symb, p))), <<>>, products))

(* The product for each inner index of blocks that are not zero. *)
AllProducts(ctx, ic) ==
    FoldLeft(LAMBDA l, p : Append(l, compute_block(ctx.c, p)), <<>>,
             PairsOver(ctx, ic, {ik \in Index(dimsk(ctx)) : AIndex(ctx.c, ic, ik) \in ctx.blka
                                                         /\ BIndex(ctx.c, ic, ik) \in ctx.blkb}))
=============================================================================
