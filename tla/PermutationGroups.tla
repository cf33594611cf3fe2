--------------------------- MODULE PermutationGroups ---------------------------
(***************************************************************************)
(* permutation_group<N>: a group of permutations with scalar factors, kept *)
(* as a labeled branching (Jerrum, J. Algorithms 7 (1986), 60-78).  Nodes  *)
(* are indexes; edge[j] is the node that j hangs on, N if none, sigma[j]   *)
(* takes edge[j] to j, and tau[j] is the product of the labels from the    *)
(* root to j.  A group element is a [perm, coef] as in BlockTensor, and    *)
(* Then(p, q) is p.permute(q).                                             *)
(***************************************************************************)
EXTENDS BlockTensor

NewBranching(n) ==
    [edge  |-> [i \in 0 .. n - 1 |-> n],
     sigma |-> [i \in 0 .. n - 1 |-> Unit(n)],
     tau   |-> [i \in 0 .. n - 1 |-> Unit(n)]]
Order(br) == Cardinality(DOMAIN br.edge)
IsIdentity(p) == p.perm = Identity(Cardinality(DOMAIN p.perm))

RECURSIVE Above(_, _)
Above(br, j) == {j} \cup IF br.edge[j] = Order(br) THEN {} ELSE Above(br, br.edge[j])
HasPath(br, i, j) == i < j /\ i \in Above(br, j)

(* The orbit delta of its first element, in the order it is found, and the *)
(* element of the group that leads to each.                                *)
RECURSIVE Transversal(_, _, _, _)
Transversal(gs, delta, transv, next) ==
    IF next > Len(delta) THEN [delta |-> delta, transv |-> transv]
    ELSE LET j == delta[next]
             Visit(found, p) ==
                 IF p.perm[j] \in DOMAIN found.transv THEN found
                 ELSE [delta  |-> Append(found.delta, p.perm[j]),
                       transv |-> found.transv @@ (p.perm[j] :> Then(p, transv[j]))]
             found == FoldLeft(Visit, [delta |-> delta, transv |-> transv], gs)
         IN  Transversal(gs, found.delta, found.transv, next + 1)

(* make_branching: hang the orbit of i on i; gs2 generates the stabilizer  *)
(* of i.  t is the transversal of the orbit.                               *)
Hung(br, i, t) ==
    LET hung == DOMAIN t.transv \ {i}
    IN  [edge  |-> [j \in hung |-> i] @@ br.edge,
         sigma |-> [j \in hung |-> t.transv[j]] @@ br.sigma,
         tau   |-> [j \in hung |-> Then(t.transv[j], br.tau[i])] @@ br.tau]
Schreier(t, p, j) == Then(Then(Inverted(t.transv[p.perm[j]]), p), t.transv[j])
AddOnce(g, x) ==
    IF IsIdentity(x) \/ \E r \in Range(g) : r.perm = x.perm THEN g ELSE Append(g, x)
BugFixingOnly(gs, t) == SelectSeq(gs, LAMBDA p : p.perm[t.delta[1]] = t.delta[1])
StabilizerOf(gs, t) ==
    FoldLeft(LAMBDA gs2, p : FoldLeft(LAMBDA g, j : AddOnce(g, Schreier(t, p, j)), gs2, t.delta), <<>>, gs)
Hang(br, i, gs, t) == [br |-> Hung(br, i, t), gs2 |-> StabilizerOf(gs, t)]
make_branching(br, i, gs) == Hang(br, i, gs, Transversal(gs, <<i>>, i :> Unit(Order(br)), 1))

(* The branching of the group generated by gs. *)
Branching(n, gs) ==
    FoldLeft(LAMBDA s, i : make_branching(s.br, i, s.gs2),
             [br |-> NewBranching(n), gs2 |-> gs], [i \in 1 .. n |-> i - 1]).br

make_genset(br) ==
    LET used == {i \in DOMAIN br.edge : br.edge[i] # Order(br) /\ ~IsIdentity(br.sigma[i])}
    IN  [j \in 1 .. Cardinality(used) |-> br.sigma[Sorted(used)[j - 1]]]

(* The recursive is_member: {} if the permutation of p is not in the       *)
(* group, or else what is left of its factor.                              *)
RECURSIVE Residual(_, _, _)
Residual(br, i, p) ==
    LET Rho(j) == Then(Then(br.tau[i], Inverted(br.tau[j])), p)
    IN  IF IsIdentity(p) THEN {p.coef}
        ELSE IF i >= Order(br) - 1 THEN {}
        ELSE IF p.perm[i] = i THEN Residual(br, i + 1, p)
        ELSE UNION {Residual(br, i + 1, Rho(j)) :
                        j \in {j \in DOMAIN br.edge : HasPath(br, i, j) /\ Rho(j).perm[i] = i}}

is_member(br, p) == Residual(br, 0, p) = {1}

(* Refused is the exception bad_symmetry. *)
Refused(br, p) == Residual(br, 0, p) = {-1}
add_orbit(br, p) ==
    IF Residual(br, 0, p) # {} THEN br
    ELSE Branching(Order(br), Append(make_genset(br), p))

(* permute *)
permute(br, perm) ==
    LET gs == make_genset(br)
    IN  Branching(Order(br), [j \in DOMAIN gs |->
            [gs[j] EXCEPT !.perm = Permute(Permute(Invert(perm), @), perm)]])

(* project_down: the elements that leave each index outside the set msk    *)
(* alone, as permutations of msk.                                          *)
project_down(br, msk) ==
    LET n == Order(br)
        outside == Sorted(DOMAIN br.edge \ msk)
        gs == FoldLeft(LAMBDA g, i : make_branching(NewBranching(n), i, g).gs2,
                       make_genset(br), From1(outside))
        inner == Sorted(msk)
        Restricted(p) ==
            [p EXCEPT !.perm = permutation_builder([i \in DOMAIN inner |-> p.perm[inner[i]]], inner)]
    IN  FoldLeft(LAMBDA g, p : add_orbit(g, Restricted(p)),
                 NewBranching(Cardinality(msk)), gs)

(* make_setstabilizer; the backtrack search runs over all products of      *)
(* coset representatives.                                                  *)
Cosets(br, k) ==
    {Unit(Order(br))} \cup {Then(br.tau[j], Inverted(br.tau[k])) :
                               j \in {j \in DOMAIN br.edge : HasPath(br, k, j)}}
Elements(br) ==
    FoldLeft(LAMBDA G, k : {Then(u, g) : u \in Cosets(br, k), g \in G},
             {Unit(Order(br))}, [i \in 1 .. Order(br) |-> Order(br) - i])

StabilizesSets(g, seq) ==
    \A l \in DOMAIN seq :
        IF seq[g[l]] = 0 THEN seq[l] = 0
        ELSE \A m \in DOMAIN seq : m > l /\ seq[m] = seq[l] => seq[g[m]] = seq[g[l]]

make_setstabilizer(br, seq) ==
    LET masked == {i \in DOMAIN seq : seq[i] # 0}
    IN  IF masked = {} THEN Range(make_genset(br))
        ELSE IF Cardinality(masked) = 1
        THEN Range(make_branching(NewBranching(Order(br)), CHOOSE i \in masked : TRUE,
                                  make_genset(br)).gs2)
        ELSE {g \in Elements(br) : ~IsIdentity(g) /\ StabilizesSets(g.perm, seq)}

(* stabilize *)
stabilize(br, seq) ==
    FoldSet(LAMBDA p, g : add_orbit(g, p), NewBranching(Order(br)), make_setstabilizer(br, seq))
=============================================================================
