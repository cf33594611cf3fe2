------------------------------ MODULE Partitions ------------------------------
(***************************************************************************)
(* se_part<N, T>: symmetry between partitions of a tensor.  Partitions     *)
(* that are mapped onto each other form a loop of rising absolute indexes  *)
(* that returns to its first member.  fmap[a] is the next partition, rmap  *)
(* the one before, ftr[a] the factor of the step; Forbidden, the code's    *)
(* size_t(-1), is larger than every index.  Factors are powers of one      *)
(* number, given by their exponents, so that an inverse is not the factor  *)
(* itself.                                                                 *)
(***************************************************************************)
EXTENDS BlockTensor

Forbidden(e) == Cardinality(DOMAIN e.fmap)
IsForbidden(e, a) == e.fmap[a] = Forbidden(e)

NewPart(pdims) ==
    LET all == 0 .. Cardinality(Index(pdims)) - 1
    IN  [pdims |-> pdims, fmap |-> [a \in all |-> a], rmap |-> [a \in all |-> a],
         ftr |-> [a \in all |-> 0]]

(* Up the loop from a, to b or to where the loop turns: the place reached  *)
(* and the product of the factors.                                         *)
RECURSIVE Climb(_, _, _, _)
Climb(e, a, b, tr) ==
    IF a < e.fmap[a] /\ a < b THEN Climb(e, e.fmap[a], b, tr + e.ftr[a])
    ELSE [at |-> a, tr |-> tr]

map_exists(e, a, b) ==
    /\ ~IsForbidden(e, a) /\ ~IsForbidden(e, b)
    /\ Climb(e, Min({a, b}), Max({a, b}), 0).at = Max({a, b})
get_transf(e, a, b) ==
    LET up == Climb(e, Min({a, b}), Max({a, b}), 0).tr
    IN  IF a > b THEN -up ELSE up

(* add_to_loop: b, which is alone, enters the loop of a; tr leads from a   *)
(* to b.  Its place is found on the way up from a and past the turn.       *)
RECURSIVE Place(_, _, _, _)
BugStopsAtTurn(e, a, b, tx) ==
    LET up == Climb(e, a, b - 1, tx)
    IN  IF up.at > b THEN [at |-> a, tx |-> tx] ELSE [at |-> up.at, tx |-> up.tr]
Place(e, a, b, tx) ==
    LET af == e.fmap[a]
        goOn == IF a < b THEN a < af /\ af < b ELSE a < af \/ af < b
    IN  IF goOn THEN Place(e, af, b, tx + e.ftr[a]) ELSE [at |-> a, tx |-> tx]

add_to_loop(e, a, b, tr) ==
    LET p  == Place(e, a, b, -tr)
        af == e.fmap[p.at]
        tx == p.tx + e.ftr[p.at]
    IN  [e EXCEPT !.fmap = [@ EXCEPT ![p.at] = b, ![b] = af],
                  !.rmap = [@ EXCEPT ![b] = p.at, ![af] = b],
                  !.ftr  = [@ EXCEPT ![b] = tx, ![p.at] = @ - tx]]

(* The loop of b, whose member before b is last, moves to the loop of a    *)
(* one partition after the other.                                          *)
RECURSIVE MoveLoop(_, _, _, _, _)
MoveLoop(e, a, b, last, tr) ==
    LET bf == e.fmap[b]
        left == [e EXCEPT !.fmap[last] = bf, !.rmap[bf] = last, !.ftr[last] = @ + e.ftr[b]]
    IN  IF bf = b THEN add_to_loop(e, a, b, tr)
        ELSE MoveLoop(add_to_loop(left, a, b, tr), b, bf, last, e.ftr[b])

Allowed(e, a) ==
    IF IsForbidden(e, a)
    THEN [e EXCEPT !.fmap[a] = a, !.rmap[a] = a, !.ftr[a] = 0] ELSE e

(* Whether add_map throws: the mapping exists with another factor. *)
Contradicts(e, i, j, tr) == i # j /\ map_exists(e, i, j) /\ get_transf(e, i, j) # tr

add_map(e, i, j, tr) ==
    LET a  == Min({i, j})
        b  == Max({i, j})
        e1 == Allowed(Allowed(e, a), b)
    IN  IF a = b \/ map_exists(e1, a, b) THEN e
        ELSE MoveLoop(e1, a, b, e1.rmap[b], IF i > j THEN -tr ELSE tr)

RECURSIVE LoopFrom(_, _, _)
LoopFrom(e, a, first) == {a} \cup IF e.fmap[a] = first THEN {} ELSE LoopFrom(e, e.fmap[a], first)

mark_forbidden(e, a) ==
    IF IsForbidden(e, a) THEN e
    ELSE LET out == LoopFrom(e, a, a)
         IN  [e EXCEPT !.fmap = [x \in out |-> Forbidden(e)] @@ @,
                       !.rmap = [x \in out |-> Forbidden(e)] @@ @,
                       !.ftr  = [x \in out |-> 0] @@ @]

(* permute: the mappings are added again one by one, each with its steps   *)
(* upwards only.                                                           *)
Renumbered(pdims, perm) ==
    [a \in 0 .. Cardinality(Index(pdims)) - 1 |->
        LET i == CHOOSE i \in Index(pdims) : get_abs_index(i, pdims) = a
        IN  get_abs_index(Apply(perm, i), Apply(perm, pdims))]

permute_part(e, perm) ==
    LET new == Renumbered(e.pdims, perm)
        Add(e1, i) ==
            CASE e.fmap[i] <= i -> e1
              [] IsForbidden(e, i) -> [e1 EXCEPT !.fmap[new[i]] = Forbidden(e),
                                                 !.rmap[new[i]] = Forbidden(e)]
              [] OTHER -> add_map(e1, new[i], new[e.fmap[i]], e.ftr[i])
        pdims1 == Apply(perm, e.pdims)
    IN  IF \A i \in DOMAIN perm : e.pdims[i] = 1 \/ perm[i] = i THEN [e EXCEPT !.pdims = pdims1]
        ELSE FoldLeft(Add, NewPart(pdims1), [i \in 1 .. Forbidden(e) |-> i - 1])

(* apply and is_allowed on a block index; bip: blocks of a partition. *)
PartOf(e, idx, bip) == get_abs_index([i \in DOMAIN idx |-> idx[i] \div bip[i]], e.pdims)
is_allowed(e, idx, bip) == ~IsForbidden(e, PartOf(e, idx, bip))
apply_part(e, idx, bip) ==
    LET to == CHOOSE p \in Index(e.pdims) : get_abs_index(p, e.pdims) = e.fmap[PartOf(e, idx, bip)]
    IN  IF is_allowed(e, idx, bip)
        THEN [i \in DOMAIN idx |-> idx[i] - ((idx[i] \div bip[i]) - to[i]) * bip[i]]
        ELSE idx
=============================================================================
