---------------------------- MODULE SymmetryCalls -----------------------------
(***************************************************************************)
(* Calls of the two symmetry elements: permutation_group (GroupInit,       *)
(* GroupNext) and se_part (PartInit, PartNext).                            *)
(***************************************************************************)
EXTENDS PermutationGroups, Partitions

CONSTANT Cases    \* <<numbers of partitions, exponents of the factors>>

VARIABLE s      \* the branching br and its group; or e, rel, out, exponents
-----------------------------------------------------------------------------
(* permutation_group on four indexes: elements are added, the group is     *)
(* permuted, and restricted to the stabilizer of index sets.  The group    *)
(* itself is kept next to its branching.                                   *)

RECURSIVE Generate(_, _)
Generate(gens, g) ==
    LET g1 == g \cup {Then(t, e) : t \in g, e \in gens} IN IF g1 = g THEN g ELSE Generate(gens, g1)

Signed(n) == [perm : Bijection(0 .. n - 1, 0 .. n - 1), coef : {1, -1}]
IndexSets == {From0(x) : x \in {<<1, 1, 0, 0>>, <<1, 1, 2, 2>>, <<0, 1, 0, 0>>, <<0, 1, 1, 1>>}}

GroupInit == s = [br |-> NewBranching(4), group |-> {Unit(4)}]

(* Only what does not make the group contradictory: an element that comes  *)
(* with both signs is refused by se_perm before it gets here.              *)
AddOrbit == \E p \in Signed(4) :
    LET g == Generate({p} \cup s.group, s.group)
    IN  /\ [Unit(4) EXCEPT !.coef = -1] \notin g
        /\ s' = [br |-> add_orbit(s.br, p), group |-> g]

PermuteGroup == \E p \in Bijection(0 .. 3, 0 .. 3) :
    s' = [br |-> permute(s.br, p),
          group |-> {[g EXCEPT !.perm = Permute(Permute(Invert(p), @), p)] : g \in s.group}]

MapsSets(g, seq) ==
    LET Set(x) == {i \in DOMAIN seq : seq[i] = x}
    IN  \A x \in Range(seq) \ {0} : \E y \in Range(seq) \ {0} : {g[i] : i \in Set(x)} = Set(y)
Stabilize == \E seq \in IndexSets :
    s' = [br |-> stabilize(s.br, seq), group |-> {g \in s.group : MapsSets(g.perm, seq)}]

GroupNext == AddOrbit \/ PermuteGroup \/ Stabilize
-----------------------------------------------------------------------------
(* The elements of the projection of the group to the indexes of msk. *)
Projected(msk) ==
    LET inner == Sorted(msk)
        Position(x) == CHOOSE j \in DOMAIN inner : inner[j] = x
    IN  {[perm |-> [i \in DOMAIN inner |-> Position(g.perm[inner[i]])], coef |-> g.coef] :
            g \in {g \in s.group : \A i \in (0 .. 3) \ msk : g.perm[i] = i}}

(* After any calls the branching has exactly the elements of the group as  *)
(* members, each with its sign, and so have its projections.               *)
GroupExact ==
    /\ {p \in Signed(4) : is_member(s.br, p)} = s.group
    /\ \A msk \in {{0, 1, 3}, {1, 2}} :
          {p \in Signed(Cardinality(msk)) : is_member(project_down(s.br, msk), p)} = Projected(msk)
-----------------------------------------------------------------------------
(* Calls of se_part.  rel is the relation that the calls so far state:     *)
(* <<a, b, x>> if partition b is partition a times the factor with         *)
(* exponent x; out are the partitions that are forbidden.                  *)

All == DOMAIN s.e.fmap
Related(a, b) == \E x \in s.rel : x[1] = a /\ x[2] = b

PartInit == \E x \in Cases :
    LET e == NewPart(x[1])
    IN  s = [e |-> e, rel |-> {<<i, i, 0>> : i \in DOMAIN e.fmap}, out |-> {}, exponents |-> x[2]]

Joined(r, a, b, x) ==
    r \cup UNION {{<<y[1], z[2], y[3] + x + z[3]>>, <<z[2], y[1], -(y[3] + x + z[3])>>} :
                     y \in {y \in r : y[2] = a}, z \in {z \in r : z[1] = b}}

AddMap == \E a, b \in All, x \in s.exponents :
    /\ a # b /\ ~Contradicts(s.e, a, b, x)
    /\ s' = [s EXCEPT
             !.e = add_map(s.e, a, b, x),
             !.rel = IF Related(a, b) THEN s.rel
                     ELSE Joined(s.rel \cup {<<a, a, 0>>, <<b, b, 0>>}, a, b, x),
             !.out = @ \ {a, b}]

(* Forbidding a partition forbids all that it is mapped to. *)
MarkForbidden == \E a \in All :
    LET o == {a} \cup {b \in All : Related(a, b)}
    IN  s' = [s EXCEPT !.e = mark_forbidden(@, a), !.out = @ \cup o,
                       !.rel = {x \in @ : x[1] \notin o}]

PermutePart ==
    LET p   == [i \in 0 .. 1 |-> 1 - i]
        new == Renumbered(s.e.pdims, p)
    IN  s' = [s EXCEPT !.e = permute_part(@, p),
                       !.rel = {<<new[x[1]], new[x[2]], x[3]>> : x \in @},
                       !.out = {new[a] : a \in @}]

PartNext == AddMap \/ MarkForbidden \/ PermutePart
-----------------------------------------------------------------------------
(* The loops hold the stated relation, no more and no less, with its       *)
(* factors; forbidden is what was forbidden; and a block and the block it  *)
(* is mapped to lie at the same place of related partitions.               *)
PartitionsExact ==
    LET in  == All \ s.out
        bip == [i \in DOMAIN s.e.pdims |-> 2]
    IN  /\ \A a \in All : IsForbidden(s.e, a) <=> a \in s.out
        /\ \A a \in in : s.e.rmap[s.e.fmap[a]] = a /\ <<a, s.e.fmap[a], s.e.ftr[a]>> \in s.rel
        /\ \A a, b \in in : map_exists(s.e, a, b) <=> Related(a, b)
        /\ \A a, b \in in : Related(a, b) => <<a, b, get_transf(s.e, a, b)>> \in s.rel
        /\ \A i \in Index([j \in DOMAIN bip |-> s.e.pdims[j] * bip[j]]) :
              LET to == apply_part(s.e, i, bip)
              IN  is_allowed(s.e, i, bip) =>
                    /\ Related(PartOf(s.e, i, bip), PartOf(s.e, to, bip))
                    /\ \A j \in DOMAIN i : i[j] % bip[j] = to[j] % bip[j]
===============================================================================
