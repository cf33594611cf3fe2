---------------------------- MODULE ExpressionCalls ----------------------------
(***************************************************************************)
(* A program builds an expression, operator by operator, and assigns it.   *)
(* With the expression goes its meaning: the value for each choice of its  *)
(* letters.  The evaluation is compared with it, one assignment at a time. *)
(***************************************************************************)
EXTENDS ExprEvaluation

CONSTANTS MaxOps,       \* bound: operators in an expression with n indexes
          Scalars,      \* numbers that multiply
          AnyUse        \* also where the code is known to go wrong

VARIABLE s  \* built: e, ops; or run: st, the vertexes left to evaluate,
            \* the tensor that is assigned to and what it has to be;
            \* mem: the tensors before

Letters == Len(MaxOps) \* the letters are 1 .. Letters
Names == {<<"v", 1>>, <<"a", 2>>, <<"t", 3>>, <<"f", 4>>}
Results == {<<"r", n>> : n \in 1 .. 4}
Seed(t) == CASE t = <<"v", 1>> -> 3 [] t = <<"a", 2>> -> 5 [] OTHER -> 17 + t[2]
Place(i) == FoldSet(LAMBDA k, sum : sum + i[k] * 2 ^ k, 0, DOMAIN i)
Filled(t) == [i \in Index(t[2]) |-> (Seed(t) + Place(i) * (Seed(t) + 2 * Place(i))) % P]

(* The meaning of e where the letters have the values x.                   *)
At(e, x) == e.val[[i \in 0 .. N(e) - 1 |-> x[e.label[i + 1]]]]
Mean(e, Value(_)) ==
    e @@ [val |-> [i \in Index(N(e)) |-> Value([x \in Range(e.label) |-> i[index_of(e.label, x)]]) % P]]
Leaf(mem, t, label) == Labelled(t, label) @@ [val |-> mem[t]]
Rotated(label) == Append(Tail(label), Head(label))
Some(label) == {label, Reverse(label), Rotated(label)}
(* Labels of a tensor whose letters are all those of another, or some of   *)
(* them, in their reverse order, before or after new letters.              *)
LeafLabels(n, label) ==
    LET New(k) == [i \in 1 .. k |-> InOrder(1 .. Letters \ Range(label))[i]]
        Old(S) == Reverse(SelectSeq(label, LAMBDA x : x \in S))
        Mixed(S) == {Old(S) \o New(n - Cardinality(S)), New(n - Cardinality(S)) \o Old(S)}
        Fits(S) == Cardinality(S) < n /\ Len(label) + n - Cardinality(S) <= Letters
    IN  (IF n = Len(label) THEN Some(label) ELSE {}) \cup UNION {Mixed(S) : S \in {S \in SUBSET Range(label) : Fits(S)}}

Init == \E t \in Names :
    LET mem == [name \in Names \cup Results |-> Filled(name)]
    IN  s = [phase |-> "built", ops |-> 0, e |-> Leaf(mem, t, [i \in 1 .. t[2] |-> i]), mem |-> mem]
-----------------------------------------------------------------------------
E == s.e
Room(n) == n <= Letters /\ s.ops < MaxOps[n]
Build(e) == s' = [s EXCEPT !.e = e, !.ops = @ + 1]

(* What the transformations at the root of an expression permute.          *)
RootPerm(e) ==
    LET arg == transf_from_node(e.tree, e.tree.root)
    IN  IF Is(e.tree, arg.leaf, "add") THEN Identity(N(e)) ELSE arg.tr.perm
Plain(e) == AnyUse \/ RootPerm(e) = Identity(N(e))
OwnInverse(e) == AnyUse \/ Invert(RootPerm(e)) = RootPerm(e)

Scaling == \E x \in Scalars :
    \/ Build(Mean(Times(x, E), LAMBDA v : x * At(E, v)))
    \/ Build(Mean(Quotient(E, x), LAMBDA v : Inv(x) * At(E, v)))
    \/ Build(Mean(Negated(E), LAMBDA v : Minus1 * At(E, v)))

(* Index i of the stored tensor is that of the letter label[i].            *)
Storing ==
    LET label == Rotated(E.label)
        e == Stored(label, E, E.label)
    IN  Build(Mean(e, LAMBDA v : At(E, [x \in Range(label) |-> v[E.label[index_of(label, x) + 1]]])))

Diagonals(label) ==
    {<<<<label[1]>>, label>>}
    \cup {<<<<l[1]>>, <<l[1], l[2]>>>> : l \in Some(label)}
    \cup IF Len(label) < 4 THEN {} ELSE {<<<<l[1], l[3]>>, l>> : l \in Some(label)}
                                        \cup {<<<<l[3], l[1]>>, l>> : l \in Some(label)}
(* All letters of a diagonal have the value of the first one.              *)
Joined(l1, l2, v, x) ==
    IF ~contains(l2, x) THEN v[x]
    ELSE v[CHOOSE y \in Range(l1) : DiagonalOf(l1, l2, y) = DiagonalOf(l1, l2, x)]
Diagonalize == N(E) > 1 /\ \E d \in Diagonals(E.label) :
    /\ CanSplit(d[1], d[2], E)
    /\ Room(N(E) + Len(d[1]) - Len(d[2]))
    /\ Plain(E) /\ d[1][1] = d[2][1]
    /\ Build(Mean(Diag(d[1], d[2], E),
                  LAMBDA v : At(E, [x \in Range(E.label) |-> Joined(d[1], d[2], v, x)])))

Setting == \E x \in Scalars : Build(Mean(Set(x, E), LAMBDA v : x))
SettingDiagonal == N(E) > 1 /\ \E d \in Diagonals(E.label), x \in Scalars, add \in BOOLEAN :
    /\ CanSplit(d[1], d[2], E)
    /\ Build(Mean(SetDiagonal(d[1], d[2], x, E, add),
                  LAMBDA v : IF \A y \in Range(d[2]) : v[y] = Joined(d[1], d[2], v, y)
                             THEN IF add THEN At(E, v) + x ELSE x
                             ELSE At(E, v)))

(* ls: sets of letters that change places.                                 *)
Sets(label) ==
    {<<<<l[1]>>, <<l[2]>>>> : l \in Some(label)}
    \cup IF Len(label) = 3 THEN {<<<<l[1]>>, <<l[2]>>, <<l[3]>>>> : l \in Some(label)}
         ELSE IF Len(label) = 4 THEN {<<<<l[1], l[2]>>, <<l[3], l[4]>>>> : l \in Some(label)}
         ELSE {}
Exchanged(ls, p, v) ==
    [x \in DOMAIN v |->
        IF \E k \in DOMAIN ls : contains(ls[k], x)
        THEN LET k == CHOOSE k \in DOMAIN ls : contains(ls[k], x)
             IN  v[ls[p[k]][index_of(ls[k], x) + 1]]
        ELSE v[x]]
Odd(p) == Cardinality({k \in DOMAIN p : p[k] # k}) = 2
Symmetrizing == N(E) > 1 /\ \E ls \in Sets(E.label), symm \in BOOLEAN :
    LET e == IF symm THEN Symm(ls, E) ELSE Asymm(ls, E)
        Sign(p) == IF ~symm /\ Odd(p) THEN Minus1 ELSE 1
    IN  Build(Mean(e, LAMBDA v : Total(Bijection(DOMAIN ls, DOMAIN ls),
                                       LAMBDA p : Sign(p) * At(E, Exchanged(ls, p, v)))))
-----------------------------------------------------------------------------
(* Two expressions, one of them a tensor. *)
Together(a, b) ==
    LET common == SelectSeq(b.label, LAMBDA x : contains(a.label, x))
        n == N(a) + N(b) - Len(common)
    IN  \/ /\ Range(a.label) = Range(b.label) /\ Room(N(a))
           /\ \/ Build(Mean(Plus(a, b), LAMBDA v : At(a, v) + At(b, v)))
              \/ Build(Mean(Minus(a, b), LAMBDA v : At(a, v) + Minus1 * At(b, v)))
              \/ Build(Mean(Mult(a, b), LAMBDA v : At(a, v) * At(b, v)))
              \/ Build(Mean(Div(a, b), LAMBDA v : At(a, v) * Inv(At(b, v))))
        \/ /\ common = <<>> /\ Room(n)
           /\ \/ OwnInverse(a) /\ OwnInverse(b) /\ Build(Mean(Product(a, b), LAMBDA v : At(a, v) * At(b, v)))
              \/ Plain(a) /\ Plain(b) /\ Build(Mean(Dirsum(a, b), LAMBDA v : At(a, v) + At(b, v)))
        \/ /\ common # <<>> /\ n <= Letters /\ Range(a.label) # Range(b.label)
           /\ \/ /\ Room(n - Len(common)) /\ OwnInverse(a) /\ OwnInverse(b)
                 /\ Build(Mean(Contract(common, a, b),
                               LAMBDA v : Total([Range(common) -> 0 .. 1],
                                                LAMBDA w : At(a, v @@ w) * At(b, v @@ w))))
              \/ Room(n) /\ CanMultiply(common, a, b) /\ Build(Mean(Ewmult(common, a, b), LAMBDA v : At(a, v) * At(b, v)))

Joining == \E t \in {name \in Names : name[2] < 4} : \E label \in LeafLabels(t[2], E.label) :
    LET b == Leaf(s.mem, t, label)
    IN  \E pair \in {<<E, b>>, <<b, E>>} : Together(pair[1], pair[2])
-----------------------------------------------------------------------------
Run(tree, result, value) == s' = [phase |-> "given", tree |-> tree, mem |-> s.mem, result |-> result, value |-> value]
Assigning == \E add \in BOOLEAN :
    LET label == Rotated(E.label)
        r == <<"r", N(E)>>
        Value(i) == At(E, [x \in Range(label) |-> i[index_of(label, x)]]) + (IF add THEN s.mem[r][i] ELSE 0)
    IN  Run(Assign(r, label, E, add), r, [i \in Index(N(E)) |-> Value(i) % P])
Scaling1 == \E t \in Results, x \in Scalars :
    s.ops = 0 /\ Run(Scale(t, t[2], x), t, [i \in Index(t[2]) |-> (x * s.mem[t][i]) % P])
Tracing == N(E) \in {2, 4} /\ Plain(E) /\ \E l \in Some(E.label) :
    LET l1 == SubSeq(l, 1, N(E) \div 2)
        l2 == SubSeq(l, N(E) \div 2 + 1, N(E))
    IN  /\ CanTrace(l1, l2, E)
        /\ Run(Trace(l1, l2, E), <<"d", 0>>,
               Total([Range(l1) -> 0 .. 1],
                     LAMBDA v : At(E, v @@ [x \in Range(l2) |-> v[l1[index_of(l2, x) + 1]]])))
Multiplying == \E t \in Names : t[2] = N(E) /\
    LET label == Rotated(E.label)
        b == Leaf(s.mem, t, label)
    IN  \E tree \in {Dot(E, b), Dot(b, E)} :
            Run(tree, <<"d", 0>>, Total([Range(label) -> 0 .. 1], LAMBDA v : At(E, v) * At(b, v)))

Rewrite ==
    LET g == build(s.tree)
    IN  /\ s.phase = "given"
        /\ s' = [phase |-> "run", mem |-> s.mem, st |-> [g |-> g, mem |-> s.mem, failed |-> FALSE],
                 left |-> eval_order(g, g.root), result |-> s.result, value |-> s.value]
Step ==
    /\ s.phase = "run" /\ s.left # <<>> /\ ~s.st.failed
    /\ s' = [s EXCEPT !.st = EvaluateVertex(@, Head(s.left)), !.left = Tail(@)]

Built == s.phase = "built"
Next ==
    \/ Built /\ (Diagonalize \/ Joining)
    \/ Built /\ Room(N(E)) /\ (Scaling \/ Storing \/ Setting \/ SettingDiagonal \/ Symmetrizing)
    \/ Built /\ s.ops = MaxOps[N(E)] /\ Assigning
    \/ Built /\ s.ops = 1 /\ (Tracing \/ Multiplying)
    \/ Built /\ Scaling1
    \/ Rewrite
    \/ Step
Spec == Init /\ [][Next]_s
-----------------------------------------------------------------------------
Count(list, x) == Cardinality({i \in DOMAIN list : list[i] = x})
RECURSIVE Below(_, _)
Below(g, S) == LET more == S \cup UNION {Range(g.v[i].out) : i \in S} IN IF more = S THEN S ELSE Below(g, more)

(* Whatever the passes moved, merged and cut off: both ends of every edge  *)
(* know of it, everything is below the root and only tensors, which use    *)
(* nothing, are used by several, so that the order of evaluation is one    *)
(* (graph, expr_tree and the passes).                                      *)
GraphSound == s.phase = "run" =>
    LET g == s.st.g
        Known(i) == /\ Range(g.v[i].out) \cup Range(g.v[i].in) \subseteq DOMAIN g.v
                    /\ \A j \in Range(g.v[i].out) : Count(g.v[i].out, j) = Count(g.v[j].in, i)
                    /\ \A j \in Range(g.v[i].in) : Count(g.v[i].in, j) = Count(g.v[j].out, i)
        Used(i) == Len(g.v[i].in) = IF i = g.root THEN 0 ELSE 1
    IN  /\ \A i \in DOMAIN g.v : Known(i) /\ (Used(i) \/ (Is(g, i, "ident") /\ g.v[i].out = <<>>))
        /\ Below(g, {g.root}) = DOMAIN g.v

(* The result is what the formula says, nothing else has changed, and      *)
(* there was no exception.                                                 *)
ExpressionsExact == s.phase = "run" =>
    /\ ~s.st.failed
    /\ \A t \in (Names \cup Results) \ {s.result} : s.st.mem[t] = s.mem[t]
    /\ s.left = <<>> => s.st.mem[s.result] = s.value
=============================================================================
