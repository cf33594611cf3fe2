------------------------------ MODULE LabelCalls ------------------------------
(***************************************************************************)
(* Calculations on a tensor with labelled blocks: what the labels of the   *)
(* result forbid is compared with the blocks that may have become non-     *)
(* zero.                                                                   *)
(***************************************************************************)
EXTENDS LabelOperations

CONSTANTS Starts,       \* [labels, intrs]: labels[id][i] those of index i,
                        \* intrs[id] the intrinsic labels of each element
          MaxOrder, MaxCalls,   \* bounds
          AnyMerge, AnyReduce   \* also where the code is known to go wrong

VARIABLE t      \* sym; lab: labels of the indexes; may: blocks that may be non-zero; calls

Vectors(f) == [i \in DOMAIN f |-> DOMAIN f[i]]
BlocksOf(lab) ==
    LET vs == lab[CHOOSE id \in DOMAIN lab : TRUE]
    IN  Selections([i \in DOMAIN vs |-> DOMAIN vs[i]])
DimsOf(lab) == LET vs == lab[CHOOSE id \in DOMAIN lab : TRUE]
               IN  [i \in DOMAIN vs |-> Cardinality(DOMAIN vs[i])]
OrderOf(lab) == Cardinality(DOMAIN DimsOf(lab))
Allowed(sym, b) ==
    \A id \in DOMAIN sym : \A e \in DOMAIN sym[id] : is_allowed(Tables[id], sym[id][e].bl, sym[id][e].rule, b)

(* A labelled tensor, as a program sets one up. *)
LabelledAs(vs) ==
    FoldLeft(LAMBDA bl, ik : assign(bl, {ik[1]}, ik[2], vs[ik[1]][ik[2]]),
             NewLabeling([i \in DOMAIN vs |-> Cardinality(DOMAIN vs[i])]),
             SetToSeq(UNION {{i} \X DOMAIN vs[i] : i \in DOMAIN vs}))
StartSymmetry(x) ==
    LET n == OrderOf(x.labels)
    IN  [id \in DOMAIN x.intrs |-> [e \in DOMAIN x.intrs[id] |->
            [bl |-> match(LabelledAs(x.labels[id])), rule |-> set_rule(n, x.intrs[id][e])]]]
Start(x) ==
    LET sym == StartSymmetry(x)
    IN  [sym |-> sym, lab |-> x.labels, may |-> {b \in BlocksOf(x.labels) : Allowed(sym, b)}, calls |-> 0]

(* The tensors that a program sets up: every block of an index has a label *)
(* of each table, and an invalid one where the table has no elements.      *)
StartsOK ==
    /\ DOMAIN Tables # {}
    /\ \A x \in Starts :
        /\ DOMAIN x.labels = DOMAIN Tables /\ DOMAIN x.intrs \subseteq DOMAIN Tables
        /\ \A id \in DOMAIN x.intrs : x.intrs[id] \in Seq(SUBSET Int) \ {<<>>}
        /\ OrderOf(x.labels) \in Nat
        /\ \A i \in 0 .. OrderOf(x.labels) - 1 : DimsOf(x.labels)[i] \in Nat
        /\ \A id \in DOMAIN Tables :
            /\ DOMAIN x.labels[id] = 0 .. OrderOf(x.labels) - 1
            /\ \A i \in 0 .. OrderOf(x.labels) - 1 :
                /\ x.labels[id][i] \in [0 .. DimsOf(x.labels)[i] - 1 -> Int]
                /\ id \notin DOMAIN x.intrs => \A k \in DOMAIN x.labels[id][i] : x.labels[id][i][k] = invalid

LabelInit == t \in {Start(x) : x \in Starts}
-----------------------------------------------------------------------------
Result(sym, lab, may) == t' = [sym |-> sym, lab |-> lab, may |-> may, calls |-> t.calls + 1]
More == t.calls < MaxCalls
Order == OrderOf(t.lab)
OnLabels(F(_)) == [id \in DOMAIN t.lab |-> F(t.lab[id])]
Beside(x, y, n) == [i \in 0 .. n + Cardinality(DOMAIN y) - 1 |-> IF i < n THEN x[i] ELSE y[i - n]]

(* No element allows all, and what is summed over is labelled. *)
Plain(sym, n) == \A id \in DOMAIN sym : \A p \in Combined(n, id, sym[id]).rule : \A term \in p : term[2] # invalid
Labelled(is) == \A id \in DOMAIN t.sym : \A i \in is : \A k \in DOMAIN t.lab[id][i] : t.lab[id][i][k] # invalid

Permute1(p) ==
    /\ More
    /\ Result(so_permute(t.sym, p), OnLabels(LAMBDA v : Apply(p, v)), {Apply(p, b) : b \in t.may})

(* A function of each element, that may make zeros something else. *)
Apply1(p, keep_zero) ==
    /\ More
    /\ LET lab == OnLabels(LAMBDA v : Apply(p, v))
       IN  Result(so_apply(t.sym, p, keep_zero), lab,
                  IF keep_zero THEN {Apply(p, b) : b \in t.may} ELSE BlocksOf(lab))

Dirprod(x, p) ==
    /\ More /\ Order + OrderOf(x.labels) = Cardinality(DOMAIN p)
    /\ LET lab == [id \in DOMAIN t.lab |-> Apply(p, Beside(t.lab[id], x.labels[id], Order))]
           other == Start(x)
       IN  Result(so_dirprod(t.sym, Order, other.sym, OrderOf(x.labels), DimsOf(lab), p), lab,
                  {Apply(p, Beside(b, c, Order)) : b \in t.may, c \in other.may})

Dirsum(x, p) ==
    /\ More /\ Order + OrderOf(x.labels) = Cardinality(DOMAIN p)
    /\ Order <= OrderOf(x.labels)
    /\ LET lab == [id \in DOMAIN t.lab |-> Apply(p, Beside(t.lab[id], x.labels[id], Order))]
           other == Start(x)
       IN  Result(so_dirsum(t.sym, Order, other.sym, OrderOf(x.labels), DimsOf(lab), p), lab,
                  {Apply(p, Beside(b, c, Order)) : b \in t.may, c \in BlocksOf(x.labels)}
                  \cup {Apply(p, Beside(b, c, Order)) : b \in BlocksOf(t.lab), c \in other.may})

(* Blocks where the indexes with the same number agree. *)
Together(seq) == {b \in t.may : \A i, j \in DOMAIN seq : seq[i] = seq[j] /\ seq[i] # 0 => b[i] = b[j]}
SameLabels(seq) ==
    \A i, j \in DOMAIN seq : seq[i] = seq[j] /\ seq[i] # 0 => \A id \in DOMAIN t.lab : t.lab[id][i] = t.lab[id][j]
Only(f, S) == [x \in 0 .. Cardinality(S) - 1 |-> f[Sorted(S)[x]]]

Merge(mseq) ==
    /\ More /\ SameLabels(mseq)
    /\ AnyMerge \/ \A id \in DOMAIN t.sym : \A i \in Leaders(mseq) :
                    mseq[i] # 0 /\ CanSimplify(t.sym[id][1].bl, i) => Mergable(Tables[id]) /\ Plain(t.sym, Order)
    /\ Result(so_merge(t.sym, mseq), OnLabels(LAMBDA v : Only(v, Leaders(mseq))),
              {Only(b, Leaders(mseq)) : b \in Together(mseq)})

Reduce(rseq, range) ==
    LET kept == {i \in DOMAIN rseq : rseq[i] = 0}
    IN  /\ More /\ SameLabels(rseq)
        /\ AnyReduce \/ (Plain(t.sym, Order) /\ Labelled(DOMAIN rseq \ kept))
        /\ Result(so_reduce(t.sym, rseq, range), OnLabels(LAMBDA v : Only(v, kept)),
                  {Only(b, kept) : b \in {c \in Together(rseq) : \A i \in DOMAIN rseq \ kept : c[i] \in range[rseq[i] - 1]}})

Symmetrize(idxgrp, symidx) ==
    /\ More /\ Symmetrizable(t.sym, idxgrp, symidx)
    /\ Result(so_symmetrize(t.sym, idxgrp, symidx), t.lab,
              {Apply(p, b) : p \in GroupPermutations(idxgrp, symidx), b \in t.may})
-----------------------------------------------------------------------------
Sign(k) == IF k = 0 THEN 0 ELSE 1
Cycle(n) == [i \in 0 .. n - 1 |-> (i + 1) % n]
Perms(n) == {Cycle(n), SwapAt(Identity(n), 0, n - 1)}
(* Numbers for some of the indexes: one or two groups of two, or three. *)
Steps(n) ==
    {f \in [0 .. n - 1 -> 0 .. 2] :
        /\ \A x \in Range(f) \ {0} : Cardinality({i \in DOMAIN f : f[i] = x}) \in {2, 3}
        /\ 1 \in Range(f) /\ 0 \in Range(f)
        /\ 2 \in Range(f) => Min({i \in DOMAIN f : f[i] = 1}) < Min({i \in DOMAIN f : f[i] = 2})}
Fixed(n) == {f \in [0 .. n - 1 -> 0 .. 1] : Cardinality({i \in DOMAIN f : f[i] = 1}) = 1}
Ranges(seq) ==
    LET steps == 0 .. Max(Range(seq)) - 1
        Of(x) == 0 .. DimsOf(t.lab)[Min({i \in DOMAIN seq : seq[i] = x + 1})] - 1
    IN  {[x \in steps |-> Of(x)]} \cup {[x \in steps |-> {k}] : k \in {k \in Of(0) : \A x \in steps : k \in Of(x)}}
(* Groups of indexes: two or three of one index, or two of two. *)
Chosen(n, k) == {q \in [1 .. k -> 0 .. n - 1] : Cardinality(Range(q)) = k}
OneEach(n, q) == [i \in 0 .. n - 1 |-> IF i \in Range(q) THEN CHOOSE g \in DOMAIN q : q[g] = i ELSE 0]
Groups(n) == {<<f, [i \in DOMAIN f |-> Sign(f[i])]>> : f \in {OneEach(n, q) : q \in Chosen(n, 2) \cup Chosen(n, 3)}}
             \cup IF n < 4 THEN {} ELSE {<<[i \in 0 .. n - 1 |-> IF i > 3 THEN 0 ELSE 1 + (i \div 2)],
                                          [i \in 0 .. n - 1 |-> IF i > 3 THEN 0 ELSE 1 + (i % 2)]>>}
EqualDims(seq) == \A i, j \in DOMAIN seq : seq[i] = seq[j] /\ seq[i] # 0 => DimsOf(t.lab)[i] = DimsOf(t.lab)[j]

LabelNext ==
    \/ \E p \in Perms(Order) : Permute1(p) \/ \E kz \in BOOLEAN : Apply1(p, kz)
    \/ \E x \in Starts : Order + OrderOf(x.labels) <= MaxOrder /\
        LET p == Cycle(Order + OrderOf(x.labels)) IN Dirprod(x, p) \/ Dirsum(x, p)
    \/ \E seq \in Steps(Order) : EqualDims(seq) /\ (Merge(seq) \/ \E r \in Ranges(seq) : Reduce(seq, r))
    \/ \E seq \in Fixed(Order) : Order > 1 /\ \E r \in Ranges(seq) : Reduce(seq, r)
    \/ \E g \in Groups(Order) : Symmetrize(g[1], g[2])
LabelSpec == LabelInit /\ [][LabelNext]_t
-----------------------------------------------------------------------------
(* The labels never forbid a block that may be non-zero. *)
NonzeroAllowed == \A b \in t.may : Allowed(t.sym, b)

(* Every index keeps its labels. *)
LabelsKept ==
    \A id \in DOMAIN t.sym : \A e \in DOMAIN t.sym[id] :
        /\ {} \notin t.sym[id][e].rule
        /\ \A i \in 0 .. Order - 1 : t.sym[id][e].bl.labels[t.sym[id][e].bl.type[i]] = t.lab[id][i]
=============================================================================
