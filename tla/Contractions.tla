---------------------------- MODULE Contractions ----------------------------
(***************************************************************************)
(* The contraction descriptor contraction2 and what is computed from it:   *)
(* contraction2_align, which brings a contraction to the form of a matrix  *)
(* multiplication, and contraction2_list_builder, which turns it into as   *)
(* few loops as possible.  Indexes are numbered from 0 as in the code; a   *)
(* sequence<N, T> is a function on 0 .. N - 1.                             *)
(*                                                                         *)
(* conn numbers the indexes of C, A and B in this order; conn[i] is the    *)
(* index that i is connected to: an index of C to its origin in A or B, a  *)
(* contracted index of A to its partner in B, and back.                    *)
(***************************************************************************)
EXTENDS Integers, Sequences, FiniteSetsExt, SequencesExt, Functions

From0(s) == [i \in 0 .. Len(s) - 1 |-> s[i + 1]]
From1(f) == [i \in 1 .. Cardinality(DOMAIN f) |-> f[i - 1]]
Ranked(S, Before(_, _)) ==
    [j \in 0 .. Cardinality(S) - 1 |->
        CHOOSE x \in S : Cardinality({y \in S : Before(y, x)}) = j]
Sorted(S) == Ranked(S, <)

-----------------------------------------------------------------------------
(* permutation<N> and permutation_builder<N>. *)

Identity(n) == [i \in 0 .. n - 1 |-> i]
Apply(p, s) == [i \in DOMAIN s |-> s[p[i]]]
Permute(p, q) == Apply(q, p)
Invert(p) == Inverse(p, DOMAIN p, DOMAIN p)
SwapAt(p, i, j) == [p EXCEPT ![i] = p[j], ![j] = p[i]]

(* build: sort idx by swaps, doing the same swaps to the permutation, and  *)
(* invert the outcome.                                                     *)
permutation_builder(seq1, seq2) ==
    LET n == Cardinality(DOMAIN seq1)
        idx0 == [i \in DOMAIN seq1 |-> CHOOSE j \in DOMAIN seq2 : seq2[j] = seq1[i]]
        sort[r \in [perm : [DOMAIN seq1 -> DOMAIN seq1],
                    idx  : [DOMAIN seq1 -> DOMAIN seq1],
                    i    : 0 .. n]] ==
            IF r.i = n THEN r.perm
            ELSE IF r.i > r.idx[r.i]
                 THEN LET j == r.idx[r.i]
                      IN  sort[[perm |-> SwapAt(r.perm, r.i, j),
                                idx  |-> [r.idx EXCEPT ![r.i] = r.idx[j], ![j] = j],
                                i    |-> 0]]
                 ELSE sort[[r EXCEPT !.i = r.i + 1]]
    IN  Invert(sort[[perm |-> Identity(n), idx |-> idx0, i |-> 0]])

-----------------------------------------------------------------------------
(* contraction2<N, M, K> *)

NA(c) == c.n + c.k
NB(c) == c.m + c.k
NC(c) == c.n + c.m
MaxConn(c) == NA(c) + NB(c) + NC(c)
k_invalid(c) == MaxConn(c)  \* size_t(-1): larger than every index
ASlots(c) == NC(c) .. NC(c) + NA(c) - 1
BSlots(c) == NC(c) + NA(c) .. MaxConn(c) - 1

(* Both directions of the connections i -> to[i]. *)
Connect(conn, to) ==
    [i \in DOMAIN conn |->
        IF i \in DOMAIN to THEN to[i]
        ELSE IF i \in Range(to) THEN CHOOSE j \in DOMAIN to : to[j] = i
        ELSE conn[i]]

(* connect(): what is not contracted goes to C, in the order of permc. *)
connect(c) ==
    LET free == {i \in ASlots(c) \cup BSlots(c) :
                    c.conn[i] = k_invalid(c) \/ c.conn[i] < NC(c)}
    IN  [c EXCEPT !.conn = Connect(c.conn, Apply(c.permc, Sorted(free)))]

NewContraction(n, m, k, perm) ==
    LET c == [n |-> n, m |-> m, k |-> k, permc |-> perm, done |-> 0,
              conn |-> [i \in 0 .. 2 * (n + m + k) - 1 |-> 2 * (n + m + k)]]
    IN  IF k = 0 THEN connect(c) ELSE c

is_complete(c) == c.done = c.k

CanContract(c, ia, ib) ==
    /\ ~is_complete(c)
    /\ c.conn[NC(c) + ia] = k_invalid(c)
    /\ c.conn[NC(c) + NA(c) + ib] = k_invalid(c)

contract(c, ia, ib) ==
    LET ja == NC(c) + ia
        jb == NC(c) + NA(c) + ib
        c1 == [c EXCEPT !.conn = [c.conn EXCEPT ![ja] = jb, ![jb] = ja],
                        !.done = c.done + 1]
    IN  IF is_complete(c1) THEN connect(c1) ELSE c1

(* make_seqc: the indexes of C in the order of their origins. *)
make_seqc(c) ==
    LET origins == Sorted({i \in ASlots(c) \cup BSlots(c) : c.conn[i] < NC(c)})
    IN  [j \in DOMAIN origins |-> c.conn[origins[j]]]

BugNoAdjust(c, c1) == c.permc
adjust_permc(c, c1) ==
    LET pb == permutation_builder(make_seqc(c), make_seqc(c1))
    IN  Permute(Permute(Permute(c.permc, Invert(c.permc)), pb), c.permc)

(* The slots from `first` on hold an argument that comes permuted by p. *)
permute_arg(c, first, p) ==
    LET to == [i \in {first + j : j \in DOMAIN p} |-> c.conn[first + p[i - first]]]
        c1 == [c EXCEPT !.conn = Connect(c.conn, to)]
    IN  IF p = Identity(Cardinality(DOMAIN p)) THEN c
        ELSE [c1 EXCEPT !.permc = adjust_permc(c, c1)]

permute_a(c, p) == permute_arg(c, NC(c), p)
permute_b(c, p) == permute_arg(c, NC(c) + NA(c), p)
permute_c(c, p) == connect([c EXCEPT !.permc = Permute(c.permc, p)])
-----------------------------------------------------------------------------
(* contraction2_align                                                      *)

(* Outer indexes of A are numbered 0 .. N - 1 and those of B from N on, in *)
(* the order they have in C; inner indexes from N + M on, in the order     *)
(* they have in A.                                                         *)
Numbering(c) ==
    LET fromA == Sorted({i \in 0 .. NC(c) - 1 : c.conn[i] \in ASlots(c)})
        fromB == Sorted({i \in 0 .. NC(c) - 1 : c.conn[i] \in BSlots(c)})
        inner == Sorted({i \in ASlots(c) : c.conn[i] \in BSlots(c)})
        Pos(f, x) == CHOOSE j \in DOMAIN f : f[j] = x
    IN  [i \in DOMAIN c.conn |->
            CASE i \in Range(fromA) -> Pos(fromA, i)
              [] i \in Range(fromB) -> c.n + Pos(fromB, i)
              [] c.conn[i] \in Range(fromA) -> Pos(fromA, c.conn[i])
              [] c.conn[i] \in Range(fromB) -> c.n + Pos(fromB, c.conn[i])
              [] i \in Range(inner) -> NC(c) + Pos(inner, i)
              [] OTHER -> NC(c) + Pos(inner, c.conn[i])]

(* The part of s whose last index is the last of s goes last.              *)
Part(s, set) == SelectSeq(s, LAMBDA x : x \in set)
Grouped(s, set) ==
    LET rest == Part(s, Range(s) \ set)
    IN  IF Last(s) \in set THEN rest \o Part(s, set) ELSE Part(s, set) \o rest

(* The permutations of A, B and C, whose indexes have the numbers x and    *)
(* grouped the numbers g, if all of N, M > 0.  Where the groups of two     *)
(* tensors meet, one of them takes the order of the other.                 *)
MatchGroups(x, g, fromA, fromB, inner) ==
    LET lasta_i == Last(g.a) \in inner
        lastb_i == Last(g.b) \in inner
        lastc_a == Last(g.c) \in fromA
        \* whose order the outer indexes of A, of B and the inner ones take
        i == Part(IF lastc_a \/ (lasta_i /\ lastb_i) THEN g.c ELSE g.a, fromA)
        j == Part(IF lastc_a \/ (~lasta_i /\ ~lastb_i) THEN g.b ELSE g.c, fromB)
        k == Part(IF lastb_i THEN g.b ELSE g.a, inner)
    IN  [a |-> permutation_builder(From0(IF lasta_i THEN i \o k ELSE k \o i), From0(x.a)),
         b |-> permutation_builder(From0(IF lastb_i THEN j \o k ELSE k \o j), From0(x.b)),
         c |-> permutation_builder(From0(IF lastc_a THEN j \o i ELSE i \o j), From0(x.c))]

AlignNumbers(x, fromA, fromB, inner) ==
    MatchGroups(x, [a |-> Grouped(x.a, inner), b |-> Grouped(x.b, inner), c |-> Grouped(x.c, fromA)],
                fromA, fromB, inner)

Numbers(c, num) ==
    [a |-> [j \in 1 .. NA(c) |-> num[NC(c) + j - 1]],
     b |-> [j \in 1 .. NB(c) |-> num[NC(c) + NA(c) + j - 1]],
     c |-> [j \in 1 .. NC(c) |-> num[j - 1]]]

align_NMK(c) ==
    AlignNumbers(Numbers(c, Numbering(c)), 0 .. c.n - 1, c.n .. NC(c) - 1, NC(c) .. NC(c) + c.k - 1)

(* The specialisations for a tensor without outer indexes: only the other  *)
(* argument is permuted.                                                   *)
align_one(c, first, n) ==
    LET num   == Numbering(c)
        x1    == [j \in 1 .. n |-> num[first + j - 1]]
        outer == [j \in 1 .. NC(c) |-> num[j - 1]]
        inner == [j \in 1 .. c.k |-> num[(NC(c) + (IF c.n = 0 THEN 0 ELSE NA(c))) + j - 1]]
        x2    == IF Last(x1) >= NC(c) THEN outer \o inner ELSE inner \o outer
    IN  permutation_builder(From0(x2), From0(x1))
align_0MK(c) == [a |-> Identity(NA(c)), b |-> align_one(c, NC(c) + NA(c), NB(c)), c |-> Identity(NC(c))]
align_N0K(c) == [a |-> align_one(c, NC(c), NA(c)), b |-> Identity(NB(c)), c |-> Identity(NC(c))]

contraction2_align(c) ==
    IF c.n = 0 THEN align_0MK(c) ELSE IF c.m = 0 THEN align_N0K(c) ELSE align_NMK(c)

permute_abc(c, p) == permute_c(permute_b(permute_a(c, p.a), p.b), p.c)
Aligned(c) == permute_abc(c, contraction2_align(c))

-----------------------------------------------------------------------------
(* contraction2_list_builder *)

(* fuse: runs of indexes that are adjacent on both ends, first those of C, *)
(* then the contracted ones.  A node is [first, size].                     *)
RunGoesOn(c, i, g) ==
    /\ i + g < IF i < NC(c) THEN NC(c) ELSE NC(c) + NA(c)
    /\ c.conn[i + g] = c.conn[i] + g
    /\ i < NC(c) => ((c.conn[i] \in ASlots(c)) <=> (c.conn[i + g] \in ASlots(c)))

fuse(c) ==
    LET RunLength(i) == Min({g \in 1 .. MaxConn(c) : ~RunGoesOn(c, i, g)})
        from[i \in 0 .. NC(c) + NA(c)] ==
            IF i = NC(c) + NA(c) THEN {}
            ELSE IF i >= NC(c) /\ c.conn[i] < i THEN from[i + 1]
            ELSE {[first |-> i, size |-> RunLength(i)]} \cup from[i + RunLength(i)]
    IN  from[0]

(* dimensions::get_increment: distance of neighbours along one index.      *)
get_increment(dims, i) ==
    FoldFunctionOnSet(LAMBDA x, y : x * y, 1, dims, {j \in DOMAIN dims : j > i})

(* populate: length and increments of the loop over each node.             *)
populate(c, dima, dimb, dimc) ==
    LET Weight(dims, i, sz) ==
            FoldFunctionOnSet(LAMBDA x, y : x * y, 1, dims, i .. i + sz - 1)
        Loop(node) ==
            LET sz == node.size
                ica == node.first
                iab == c.conn[ica]
                ofA == IF ica >= NC(c) THEN ica - NC(c) ELSE iab - NC(c)
                ofB == iab - NC(c) - NA(c)
                inC == ica < NC(c)
                inA == ica >= NC(c) \/ iab \in ASlots(c)
                inB == iab \in BSlots(c)
            IN  [weight |-> IF inA THEN Weight(dima, ofA, sz) ELSE Weight(dimb, ofB, sz),
                 inca |-> IF inA THEN get_increment(dima, ofA + sz - 1) ELSE 0,
                 incb |-> IF inB THEN get_increment(dimb, ofB + sz - 1) ELSE 0,
                 incc |-> IF inC THEN get_increment(dimc, ica + sz - 1) ELSE 0]
        nodes == SetToSortSeq(fuse(c), LAMBDA x, y : x.first < y.first)
    IN  [j \in DOMAIN nodes |-> Loop(nodes[j])]
=============================================================================
