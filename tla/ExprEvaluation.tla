---------------------------- MODULE ExprEvaluation ----------------------------
(***************************************************************************)
(* eval_btensor<double>: one assignment after the other, each with one     *)
(* operation on block tensors, whose arguments are tensors or, for sums    *)
(* and symmetrization, operations again.  A tensor is a function from its  *)
(* indexes, of which each is 0 or 1; mem has those that exist.             *)
(***************************************************************************)
EXTENDS Expressions

CONSTANT Inexact    \* coefficients c for which (1 / c) * c is not 1

Index(n) == [0 .. n - 1 -> 0 .. 1]
Order(t) == Cardinality(DOMAIN CHOOSE i \in DOMAIN t : TRUE)
Total(S, V(_)) == FoldSet(LAMBDA x, sum : (sum + V(x)) % P, 0, S)
Beside(a, b) == From0(From1(a) \o From1(b))
Piece(i, first, n) == [j \in 0 .. n - 1 |-> i[first + j]]

(* tensor_transf: a permutation, then a coefficient.                       *)
NoTransf(n) == [perm |-> Identity(n), coef |-> 1]
Then(tr, next) == [perm |-> Permute(tr.perm, next.perm), coef |-> (tr.coef * next.coef) % P]
Moved(perm, t) == [i \in DOMAIN t |-> t[Apply(Invert(perm), i)]]
Transf(tr, t) == [i \in DOMAIN t |-> (tr.coef * t[Apply(Invert(tr.perm), i)]) % P]
-----------------------------------------------------------------------------
(* The vertex below the transformations, and what they make of it.         *)
RECURSIVE transf_from_node(_, _)
transf_from_node(g, i) ==
    LET node == g.v[i].node
        below == transf_from_node(g, g.v[i].out[1])
    IN  IF node.op # "transform" THEN [leaf |-> i, tr |-> NoTransf(node.n)]
        ELSE [below EXCEPT !.tr = Then(@, [perm |-> permutation_builder(node.perm, Identity(node.n)),
                                           coef |-> node.coef])]
Arg(g, i, k) == transf_from_node(g, g.v[i].out[k])
Get(g, mem, arg) == mem[g.v[arg.leaf].node.t]
Scaled(g, mem, arg) == Transf(arg.tr, Get(g, mem, arg))

(* The tensors that an operation reads have to exist, as tensors.          *)
Tensor(g, mem, i) == g.v[i].node.op \in {"ident", "interm"} /\ g.v[i].node.t \in DOMAIN mem
RECURSIVE Evaluable(_, _, _)
Evaluable(g, mem, i) ==
    LET Leaf(k) == Tensor(g, mem, Arg(g, i, k).leaf)
        op == g.v[i].node.op
    IN  CASE op \in {"ident", "interm"} -> Tensor(g, mem, i)
          [] op \in {"add", "symm"} -> \A k \in DOMAIN g.v[i].out : Evaluable(g, mem, Arg(g, i, k).leaf)
          [] op = "set" -> Evaluable(g, mem, Arg(g, i, 1).leaf) /\ Is(g, g.v[i].out[2], "const")
          [] op \in {"contract", "dirsum", "div", "dot"} -> Len(g.v[i].out) = 2 /\ Leaf(1) /\ Leaf(2)
          [] op \in {"diag", "trace"} -> Leaf(1)
          [] OTHER -> FALSE
-----------------------------------------------------------------------------
(* One operator for each evaluator: node, arguments, transformation.       *)

Connected(c, a, b) ==
    LET inner == {i \in ASlots(c) : c.conn[i] \in BSlots(c)}
        At(i, k, slot) == LET j == c.conn[slot]
                          IN  IF slot \in inner THEN k[slot] ELSE IF j \in inner THEN k[j] ELSE i[j]
    IN  [i \in Index(NC(c)) |->
            Total([inner -> 0 .. 1], LAMBDA k : a[[j \in 0 .. NA(c) - 1 |-> At(i, k, NC(c) + j)]]
                                              * b[[j \in 0 .. NB(c) - 1 |-> At(i, k, NC(c) + NA(c) + j)]])]
init_contract(g, mem, node, x, y, tr) ==
    LET k == Cardinality(DOMAIN node.map)
        na == g.v[x.leaf].node.n
        nb == g.v[y.leaf].node.n
        c0 == FoldLeft(LAMBDA c, i : contract(c, i, node.map[i] - na),
                       NewContraction(na - k, nb - k, k, Identity(na + nb - 2 * k)), InOrder(DOMAIN node.map))
        c == permute_c(permute_b(permute_a(c0, x.tr.perm), y.tr.perm), tr.perm)
        coef == (x.tr.coef * y.tr.coef * tr.coef) % P
        value == Connected(c, Get(g, mem, x), Get(g, mem, y))
    IN  [i \in DOMAIN value |-> (coef * value[i]) % P]

(* The common indexes go last in both arguments and in the product, which  *)
(* has then those of the first argument in their order and the others.     *)
init_ewmult(g, mem, node, x, y, tr) ==
    LET na == g.v[x.leaf].node.n
        nb == g.v[y.leaf].node.n
        common == InOrder(DOMAIN node.map)
        k == Len(common)
        onlya == InOrder((0 .. na - 1) \ DOMAIN node.map)
        onlyb == InOrder((0 .. nb - 1) \ Range(node.map))
        second == [j \in DOMAIN onlyb |-> na + onlyb[j]]
        perma == Permute(x.tr.perm, From0(onlya \o common))
        permb == Permute(y.tr.perm, From0(onlyb \o [j \in DOMAIN common |-> node.map[common[j]]]))
        permc == permutation_builder(From0([j \in 1 .. na |-> j - 1] \o second), From0(onlya \o second \o common))
        trc == Then([perm |-> permc, coef |-> (x.tr.coef * y.tr.coef) % P], tr)
        a == Moved(perma, Get(g, mem, x))
        b == Moved(permb, Get(g, mem, y))
        Value(i) == a[Beside(Piece(i, 0, na - k), Piece(i, na + nb - 2 * k, k))] * b[Piece(i, na - k, nb)]
    IN  Transf(trc, [i \in Index(na + nb - k) |-> Value(i) % P])

Dirsummed(g, mem, x, y, tr) ==
    LET a == Get(g, mem, x)
        b == Get(g, mem, y)
    IN  Transf(tr, [i \in Index(Order(a) + Order(b)) |->
                       (x.tr.coef * a[Piece(i, 0, Order(a))] + y.tr.coef * b[Piece(i, Order(a), Order(b))]) % P])
Divided(g, mem, x, y, tr) ==
    LET a == Scaled(g, mem, x)
        b == Scaled(g, mem, y)
    IN  Transf(tr, [i \in DOMAIN a |-> (a[i] * Inv(b[i])) % P])

(* btod_diag takes the indexes with the same mark for one.                 *)
Diagonal(g, mem, node, x, tr) ==
    LET a == Get(g, mem, x)
        mark == [i \in DOMAIN node.idx |-> IF node.idx[i] \in DOMAIN node.didx THEN node.didx[node.idx[i]] + 1 ELSE 0]
        kept == {i \in DOMAIN mark : mark[i] = 0 \/ \A j \in 0 .. i - 1 : mark[j] # mark[i]}
        Place(i) == Cardinality({j \in kept : j < i})
        At(i) == [j \in DOMAIN mark |-> i[Place(IF mark[j] = 0 THEN j ELSE Min({l \in DOMAIN mark : mark[l] = mark[j]}))]]
        coef == [perm |-> tr.perm, coef |-> (x.tr.coef * tr.coef) % P]
    IN  Transf(coef, [i \in Index(Cardinality(kept)) |-> a[At(i)]])

(* perform_op: an index alone in its group is on no diagonal.              *)
SetTo(node, value, x) ==
    LET OnDiagonal(i) == \A j, k \in DOMAIN i : node.idx[j] = node.idx[k] => i[j] = i[k]
        none == Cardinality(Range(node.idx)) = node.n
    IN  [i \in DOMAIN value |->
            IF none \/ OnDiagonal(i) THEN (IF node.add THEN value[i] + x ELSE x) % P ELSE value[i]]

Swapped(n, pairs) == FoldLeft(LAMBDA p, x : SwapAt(p, x[1], x[2]), Identity(n), pairs)
Pairs(node, k) == [j \in 1 .. Len(node.sym) \div node.nsym |->
                        <<node.sym[node.nsym * (j - 1) + 1], node.sym[node.nsym * (j - 1) + k]>>]
(* A permutation of the indexes as it is after tr.                         *)
Conjugated(p, tr) == Permute(Permute(Invert(tr.perm), p), tr.perm)
is_symm(node, tr) == node.pair = 1 /\ tr.coef \notin Inexact
symmetrize2(node, value, tr) ==
    LET swapped == Moved(Conjugated(Swapped(node.n, Pairs(node, 2)), tr), value)
    IN  [i \in DOMAIN value |-> (value[i] + (IF is_symm(node, tr) THEN 1 ELSE Minus1) * swapped[i]) % P]
symmetrize3(node, value, tr) ==
    LET p1 == Conjugated(Swapped(node.n, Pairs(node, 2)), tr)
        p2 == Conjugated(Swapped(node.n, Pairs(node, 3)), tr)
        odd == {p1, p2, Permute(Permute(p1, p2), p1)}
        even == {Identity(node.n), Permute(p1, p2), Permute(p2, p1)}
        Sum(ps, i) == Total(ps, LAMBDA p : Moved(p, value)[i])
    IN  [i \in DOMAIN value |-> (Sum(even, i) + node.pair * Sum(odd, i)) % P]
-----------------------------------------------------------------------------
(* autoselect: the value of vertex i, with tr applied to it.               *)
RECURSIVE autoselect(_, _, _, _)
autoselect(g, mem, i, tr) ==
    LET node == g.v[i].node
        x == Arg(g, i, 1)
        y == Arg(g, i, 2)
        Sub(arg) == autoselect(g, mem, arg.leaf, Then(arg.tr, tr))
        Added(t, k) == LET u == Sub(Arg(g, i, k)) IN [j \in DOMAIN t |-> (t[j] + u[j]) % P]
    IN  CASE node.op \in {"ident", "interm"} -> Transf(tr, mem[node.t])
          [] node.op = "add" -> FoldLeft(Added, Sub(x), [k \in 1 .. Len(g.v[i].out) - 1 |-> k + 1])
          [] node.op = "contract" -> IF node.sum THEN init_contract(g, mem, node, x, y, tr)
                                     ELSE init_ewmult(g, mem, node, x, y, tr)
          [] node.op = "diag" -> Diagonal(g, mem, node, x, tr)
          [] node.op = "dirsum" -> Dirsummed(g, mem, x, y, tr)
          [] node.op = "div" -> Divided(g, mem, x, y, tr)
          [] node.op = "set" -> Transf(tr, SetTo(node, autoselect(g, mem, x.leaf, x.tr), g.v[g.v[i].out[2]].node.x))
          [] node.op = "symm" -> IF node.nsym = 2 THEN symmetrize2(node, Sub(x), tr)
                                 ELSE symmetrize3(node, Sub(x), tr)

dot_product(g, mem, node, x, y) ==
    LET n == g.v[x.leaf].node.n
        pb == permutation_builder(Piece(node.idx, 0, n), Piece(node.idx, n, n))
        a == Scaled(g, mem, x)
        b == Moved(pb, Scaled(g, mem, y))
    IN  Total(Index(n), LAMBDA i : a[i] * b[i])
trace(g, mem, node, x) ==
    LET n == Cardinality(DOMAIN node.cidx)
        Second(i) == \E j \in 0 .. i - 1 : node.idx[j] = node.idx[i]
        place == [i \in DOMAIN node.idx |-> (IF Second(i) THEN n ELSE 0) + node.idx[i]]
        perm == Permute(x.tr.perm, permutation_builder(Identity(2 * n), place))
        a == Moved(Invert(perm), Get(g, mem, x))    \* as tod_trace does
    IN  (x.tr.coef * Total(Index(n), LAMBDA i : a[Beside(i, i)])) % P
evaluate_scalar(g, mem, i) ==
    LET node == g.v[i].node
    IN  IF node.op = "dot" THEN dot_product(g, mem, node, Arg(g, i, 1), Arg(g, i, 2))
        ELSE trace(g, mem, node, Arg(g, i, 1))
-----------------------------------------------------------------------------
(* A state of evaluation: the graph g, the tensors mem, and whether there  *)
(* was an exception.                                                       *)
Failed(st) == [st EXCEPT !.failed = TRUE]

(* erase_subtree is called for the children that the list of edges still   *)
(* has: once the first is erased it is too short for the second.           *)
Assigned(g, i) == erase_subtree(ReplaceVertex(g, i, g.v[g.v[i].out[1]].node), g.v[i].out[1])
handle_assign(st, i) ==
    LET g == st.g
        lhs == g.v[g.v[i].out[1]].node
        rhs == Arg(g, i, 2)
        New == autoselect(g, st.mem, rhs.leaf, rhs.tr)
        Old == st.mem[lhs.t]
        value == IF g.v[i].node.add THEN [j \in DOMAIN New |-> (Old[j] + New[j]) % P] ELSE New
    IN  IF ~Evaluable(g, st.mem, rhs.leaf) THEN Failed(st)
        ELSE IF lhs.op = "scalar"
             THEN [st EXCEPT !.mem = (lhs.t :> evaluate_scalar(g, st.mem, rhs.leaf)) @@ @]
             ELSE [st EXCEPT !.mem = (lhs.t :> value) @@ @, !.g = Assigned(g, i)]

handle_scale(st, i) ==
    LET lhs == st.g.v[st.g.v[i].out[1]].node
        x == st.g.v[st.g.v[i].out[2]].node.x
    IN  [st EXCEPT !.mem[lhs.t] = [j \in DOMAIN @ |-> (x * @[j]) % P]]

EvaluateVertex(st, i) == IF Is(st.g, i, "scale") THEN handle_scale(st, i) ELSE handle_assign(st, i)
=============================================================================
