-------------------------- MODULE SymmetryOperations --------------------------
(***************************************************************************)
(* so_permute, so_merge, so_reduce, so_dirprod, so_dirsum, so_symmetrize   *)
(* and so_apply for permutational symmetry (se_perm): the symmetry of the  *)
(* result of an operation from the symmetry of its arguments.  A symmetry  *)
(* is a sequence of generators as in BlockTensor; the factors are 1 or -1. *)
(* An element that only changes the sign is the exception bad_symmetry;    *)
(* so are the elements of Refusal.                                         *)
(***************************************************************************)
EXTENDS PermutationGroups

Generators(sym) == [e \in DOMAIN sym |-> sym[e].tr]
AsSymmetry(gens) == [j \in DOMAIN gens |-> Element(gens[j].perm, gens[j].coef, {})]

(* permutation_group from a set of elements and back (convert). *)
GroupOf(n, sym) == Branching(n, Generators(sym))
convert(br) == AsSymmetry(make_genset(br))

Refusal(n) == <<Element(Identity(n), -1, {})>>
IsRefused(sym) == \E e \in DOMAIN sym : IsIdentity(sym[e].tr) /\ sym[e].tr.coef = -1

(* add_orbit for each of the elements gens. *)
AllAdded(br, gens) == FoldLeft(add_orbit, br, gens)
AddedOr(n, br, gens) ==
    IF \E j \in DOMAIN gens : Refused(AllAdded(br, SubSeq(gens, 1, j - 1)), gens[j])
    THEN Refusal(n) ELSE convert(AllAdded(br, gens))

so_permute(sym, p) ==
    IF sym = <<>> THEN sym ELSE convert(permute(GroupOf(Cardinality(DOMAIN p), sym), p))
-----------------------------------------------------------------------------
(* Each generator as a permutation of the indexes in kept, where it takes  *)
(* index i of kept to Image(p, i).                                         *)
Restricted(gens, kept, Image(_, _)) ==
    LET inner == Sorted(kept)
        On(p) == [p EXCEPT !.perm =
                     permutation_builder([j \in DOMAIN inner |-> Image(p.perm, inner[j])], inner)]
        Trivial(p) == IsIdentity(p) /\ p.coef = 1
    IN  SelectSeq([j \in DOMAIN gens |-> On(gens[j])], LAMBDA p : ~Trivial(p))

(* so_merge: index i is merged with all j that have seq[j] = seq[i] > 0;   *)
(* the first of them stays.                                                *)
FirstOfMerged(seq) == {i \in DOMAIN seq : seq[i] = 0 \/ \A j \in 0 .. i - 1 : seq[j] # seq[i]}
merged_image(seq, p, i) ==
    IF seq[i] = 0 THEN p[i] ELSE Min({p[k] : k \in {k \in DOMAIN seq : seq[k] = seq[i]}})
so_merge(sym, seq) ==
    LET n == Cardinality(DOMAIN seq)
    IN  IF Cardinality(FirstOfMerged(seq)) = 1
        THEN IF \E e \in DOMAIN sym : sym[e].tr.coef # 1 THEN Refusal(1) ELSE <<>>
        ELSE AsSymmetry(Restricted(make_genset(stabilize(GroupOf(n, sym), seq)),
                                   FirstOfMerged(seq), LAMBDA p, i : merged_image(seq, p, i)))

(* so_reduce: the indexes with seq[i] > 0 disappear by a summation over    *)
(* the range range[i], together when their numbers are the same.           *)
so_reduce(sym, seq, range) ==
    LET n == Cardinality(DOMAIN seq)
        SameRange(p) == \A i \in DOMAIN seq : seq[i] > 0 => range[p.perm[i]] = range[i]
    IN  AsSymmetry(Restricted(SelectSeq(make_genset(stabilize(GroupOf(n, sym), seq)), SameRange),
                              {i \in DOMAIN seq : seq[i] = 0}, LAMBDA p, i : p[i]))
-----------------------------------------------------------------------------
(* Two sequences one after the other, and p on the first indexes with q on *)
(* those that follow.                                                      *)
Joint(x, y) ==
    LET n == Cardinality(DOMAIN x)
    IN  [i \in 0 .. n + Cardinality(DOMAIN y) - 1 |-> IF i < n THEN x[i] ELSE y[i - n]]
Beside(p, q) == Joint(p, [i \in DOMAIN q |-> q[i] + Cardinality(DOMAIN p)])

(* so_dirprod; perm is that of the indexes of the product. *)
Relabelled(f, perm) ==
    LET map == Invert(perm)
    IN  [x \in DOMAIN f |-> f[CHOOSE k \in DOMAIN f : map[k] = x]]
so_dirprod(syma, na, symb, nb, perm) ==
    LET Up(t, p) == [t EXCEPT !.perm = permutation_builder(Relabelled(p, perm),
                                                          Relabelled(Identity(na + nb), perm))]
    IN  AsSymmetry([e \in DOMAIN syma |-> Up(syma[e].tr, Beside(syma[e].tr.perm, Identity(nb)))]
                \o [e \in DOMAIN symb |-> Up(symb[e].tr, Beside(Identity(na), symb[e].tr.perm))])
-----------------------------------------------------------------------------
(* so_dirsum                                                               *)

PowerOf(p, k) == FoldLeft(LAMBDA q, i : Permute(q, p), Identity(Cardinality(DOMAIN p)), [i \in 1 .. k |-> i])
OrderOf(p) == CHOOSE k \in 1 .. 12 : PowerOf(p, k) = Identity(Cardinality(DOMAIN p))
                                     /\ \A j \in 1 .. k - 1 : PowerOf(p, j) # Identity(Cardinality(DOMAIN p))

(* combine: the permutations of the other argument that go with the factor *)
(* x of an element: those with the same factor, conjugated by those        *)
(* without one.                                                            *)
OfSameFactor(sym, x) ==
    LET same == SelectSeq(Generators(sym), LAMBDA t : t.coef = x)
        even == IF x = 1 THEN <<>> ELSE SelectSeq(Generators(sym), LAMBDA t : t.coef = 1)
        Conjugates(u) ==
            FoldLeft(LAMBDA l, i : l \o
                FoldLeft(LAMBDA m, j : m \o [k \in DOMAIN same |->
                            Permute(Permute(PowerOf(u, j - 1), same[k].perm), PowerOf(u, i - j + 1))],
                         <<>>, [j \in 1 .. i |-> j]),
                <<>>, [i \in 1 .. OrderOf(u) - 1 |-> i])
    IN  IF even = <<>> THEN [k \in DOMAIN same |-> same[k].perm]
        ELSE FoldLeft(LAMBDA l, t : l \o Conjugates(t.perm), <<>>, even)

(* permutation_builder brings a sequence of images back to a permutation. *)
Combined(p, q, x) ==
    [perm |-> permutation_builder(Beside(p, q), Identity(Cardinality(DOMAIN p) + Cardinality(DOMAIN q))),
     coef |-> x]
WithEach(l, p, x) == [k \in DOMAIN l |-> Combined(p, l[k], x)]
EachWith(l, p, x) == [k \in DOMAIN l |-> Combined(l[k], p, x)]
AfterFirst(t, sym) == WithEach(OfSameFactor(sym, t.coef), t.perm, t.coef)
BeforeSecond(sym, t) == EachWith(OfSameFactor(sym, t.coef), t.perm, t.coef)
Odd(sym) == SelectSeq(Generators(sym), LAMBDA t : t.coef = -1)

SumPairs(syma, na, symb, nb) ==
    BeforeSecond(syma, Unit(nb)) \o AfterFirst(Unit(na), symb)
        \o FoldLeft(LAMBDA l, t : l \o AfterFirst(t, symb), <<>>, Odd(syma))
        \o FoldLeft(LAMBDA l, t : l \o BeforeSecond(syma, t), <<>>, Odd(symb))
so_dirsum(syma, na, symb, nb, perm) ==
    IF syma = <<>> /\ symb = <<>> THEN <<>>
    ELSE convert(permute(AllAdded(NewBranching(na + nb), SumPairs(syma, na, symb, nb)), perm))
-----------------------------------------------------------------------------
(* so_symmetrize: idxgrp[i] numbers the group that index i belongs to, 0   *)
(* if none, symidx[i] its place there; trp and trc are the factors of a    *)
(* pair exchange and of a cyclic permutation of the groups.                *)

GroupCount(idxgrp) == Max(Range(idxgrp))
Place(idxgrp, symidx, k, i) == CHOOSE j \in DOMAIN idxgrp : idxgrp[j] = k /\ symidx[j] = i
Exchange(idxgrp, symidx, p, k) ==
    FoldLeft(LAMBDA q, i : SwapAt(q, Place(idxgrp, symidx, k, i), Place(idxgrp, symidx, k + 1, i)),
             p, [i \in 1 .. Max(Range(symidx)) |-> i])
PairPermutation(idxgrp, symidx) == Exchange(idxgrp, symidx, Identity(Cardinality(DOMAIN idxgrp)), 1)
CyclicPermutation(idxgrp, symidx) ==
    FoldLeft(LAMBDA q, k : Exchange(idxgrp, symidx, q, k), Identity(Cardinality(DOMAIN idxgrp)),
             [k \in 1 .. GroupCount(idxgrp) - 1 |-> k])

(* permutation_generator on the indexes map: the place i where next() ends *)
(* its search with the helper arrays p and d, and the exchange that        *)
(* follows; i = 0 in the last call, which makes no permutation.            *)
RECURSIVE Trotter(_, _)
Trotter(g, i) ==
    LET up == g.p[i] + IF g.d[i] THEN 1 ELSE -1
        at == [g EXCEPT !.p[i] = up]
    IN  IF i = 0 THEN [g EXCEPT !.done = TRUE]
        ELSE IF up = i + 1 THEN Trotter([at EXCEPT !.d[i] = FALSE], i - 1)
        ELSE IF up # 0 THEN [at EXCEPT !.perm = SwapAt(@, g.map[up - 1 + g.k], g.map[up + g.k])]
        ELSE Trotter([at EXCEPT !.d[i] = TRUE, !.k = @ + 1], i - 1)
NextPermutation(g) == Trotter([g EXCEPT !.k = 0], Cardinality(DOMAIN g.map) - 1)
FirstPermutation(n, map) ==
    [map |-> map, p |-> [i \in DOMAIN map |-> 0], d |-> [i \in DOMAIN map |-> TRUE],
     k |-> 0, perm |-> Identity(n), done |-> FALSE]

(* The transformation of the groups that belongs to the step from the      *)
(* permutation p1 to p2, from those of an exchange and of a cycle.         *)
symmetrize_step(px, p1, p2, pair, cycle) ==
    LET n == Cardinality(DOMAIN p1)
        first == Min({i \in DOMAIN p1 : p1[i] # p2[i]})
        Times(t, k) == FoldLeft(LAMBDA u, i : Then(u, cycle), t, [i \in 1 .. k |-> i])
    IN  Times(Then(Times(px, first), pair), n - 1 - first)

(* All products of the generators, in the order found; identity left out.  *)
RECURSIVE ProductsOf(_, _, _)
ProductsOf(gens, found, next) ==
    LET Add(l, t) ==
            LET p == Then(found[next], t)
            IN  IF IsIdentity(p) \/ \E j \in DOMAIN l : l[j].perm = p.perm THEN l ELSE Append(l, p)
    IN  IF next > Len(found) THEN found
        ELSE ProductsOf(gens, FoldLeft(Add, found, gens), next + 1)

(* The elements of the list that are in the group as the generators are    *)
(* after px.                                                               *)
Survivors(n, list, gens, px) ==
    LET br == AllAdded(NewBranching(n), [j \in DOMAIN gens |-> Then(Then(Inverted(px), gens[j]), px)])
    IN  SelectSeq(list, LAMBDA p : is_member(br, p))

RECURSIVE Surviving(_, _, _, _, _, _)
Surviving(g, p1, px, s, pair, cycle) ==
    IF g.done THEN s.list
    ELSE LET px1 == IF s.ngrp = 2 THEN Then(px, pair) ELSE symmetrize_step(px, p1, g.perm, pair, cycle)
         IN  Surviving(NextPermutation(g), g.perm, px1,
                       [s EXCEPT !.list = Survivors(Cardinality(DOMAIN p1), @, s.gens, px1)], pair, cycle)

so_symmetrize(sym, idxgrp, symidx, trp, trc) ==
    LET n == Cardinality(DOMAIN idxgrp)
        ngrp == GroupCount(idxgrp)
        pair == [perm |-> PairPermutation(idxgrp, symidx), coef |-> trp]
        cycle == [perm |-> CyclicPermutation(idxgrp, symidx), coef |-> trc]
        new == IF ngrp > 2 THEN <<cycle, pair>> ELSE <<pair>>
        left == Surviving(NextPermutation(FirstPermutation(n, Sorted({i \in DOMAIN idxgrp : symidx[i] = 1}))),
                          Identity(n), Unit(n),
                          [list |-> ProductsOf(Generators(sym), Generators(sym), 1),
                           gens |-> Generators(sym), ngrp |-> ngrp], pair, cycle)
    IN  IF sym = <<>> THEN AsSymmetry(new) ELSE AddedOr(n, NewBranching(n), left \o new)
-----------------------------------------------------------------------------
(* so_apply: the elements keep their factor if it is 1; the factor s1      *)
(* becomes s2 (1 or -1).                                                   *)
so_apply(sym, p, s1, s2) ==
    LET kept == SelectSeq(Generators(sym), LAMBDA t : t.coef \in {1, s1})
        Out(t) == [t EXCEPT !.coef = IF t.coef = 1 THEN 1 ELSE s2]
    IN  convert(permute(AllAdded(NewBranching(Cardinality(DOMAIN p)),
                                 [j \in DOMAIN kept |-> Out(kept[j])]), p))
=============================================================================
