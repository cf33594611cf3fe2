----------------------------- MODULE Expressions ------------------------------
(***************************************************************************)
(* The graph of an expression, graph and expr_tree: vertexes numbered in   *)
(* the order they are made, each with a node (what it computes) and the    *)
(* lists of the vertexes its edges lead to and come from, which repeat a   *)
(* vertex that is used twice.                                              *)
(***************************************************************************)
EXTENDS Contractions

Vertex(n) == [node |-> n, out |-> <<>>, in |-> <<>>]
Tree(n) == [root |-> 0, v |-> (0 :> Vertex(n))]
InOrder(S) == From1(Sorted(S))
NextId(g) == 1 + Max(DOMAIN g.v)
Ids(g) == SelectSeq([i \in 1 .. NextId(g) |-> i - 1], LAMBDA i : i \in DOMAIN g.v)

AddVertex(g, n) == [g EXCEPT !.v = @ @@ (NextId(g) :> Vertex(n))]
AddEdge(g, i, j) == [g EXCEPT !.v[i].out = Append(@, j), !.v[j].in = Append(@, i)]
BugOneEnd(g, i, j) == [g EXCEPT !.v[i].out = RemoveFirst(@, j)]
EraseEdge(g, i, j) == [g EXCEPT !.v[i].out = RemoveFirst(@, j), !.v[j].in = RemoveFirst(@, i)]

EraseVertex(g, i) ==
    LET from == FoldLeft(LAMBDA h, j : [h EXCEPT !.v[j].out = RemoveFirst(@, i)], g, g.v[i].in)
        to == FoldLeft(LAMBDA h, j : [h EXCEPT !.v[j].in = RemoveFirst(@, i)], from, g.v[i].out)
    IN  [g EXCEPT !.v = Restrict(to.v, DOMAIN g.v \ {i})]
EraseAll(g, ids) == FoldLeft(EraseVertex, g, ids)

ReplaceVertex(g, i, n) == [g EXCEPT !.v[i].node = n]

(* The first edge i -> j becomes i -> k.                                   *)
ReplaceEdge(g, i, j, k) ==
    [g EXCEPT !.v[i].out = ReplaceAt(@, SelectInSeq(@, LAMBDA x : x = j), k),
              !.v[j].in = RemoveFirst(@, i), !.v[k].in = Append(@, i)]

(* Callers walk the list of edges into j while replace shortens it.        *)
RECURSIVE Redirected(_, _, _, _)
Redirected(g, j, k, at) ==
    IF at > Len(g.v[j].in) THEN g
    ELSE Redirected(ReplaceEdge(g, g.v[j].in[at], j, k), j, k, at + 1)
Redirect(g, j, k) == Redirected(g, j, k, 1)
-----------------------------------------------------------------------------
(* expr_tree *)

(* A copy of the tree t becomes the next child of i.                       *)
AddSubtree(g, i, t) ==
    LET first == NextId(g)
        id(j) == first + Cardinality({k \in DOMAIN t.v : k < j})
        nodes == FoldLeft(LAMBDA h, j : AddVertex(h, t.v[j].node), g, Ids(t))
        edges == FoldLeft(LAMBDA h, j : FoldLeft(LAMBDA f, k : AddEdge(f, id(j), id(k)), h, t.v[j].out),
                          nodes, Ids(t))
    IN  AddEdge(edges, i, id(t.root))

(* What is used elsewhere too is only cut off; the root stays.             *)
RECURSIVE erase_subtree(_, _)
erase_subtree(g, h) ==
    LET Cut(f, j) == IF Len(f.v[j].in) = 1 THEN erase_subtree(f, j) ELSE EraseEdge(f, h, j)
        rest == FoldLeft(Cut, g, g.v[h].out)
    IN  IF h = g.root THEN rest ELSE EraseVertex(rest, h)
-----------------------------------------------------------------------------
(* From the tree of an assignment to the graph that is evaluated: the      *)
(* passes opt_* and eval_tree_builder_btensor.  A node is a record; op     *)
(* says which.  A transformation multiplies by coef and gives index i of   *)
(* the result the place perm[i] of the argument.                           *)

CONSTANT P      \* elements and coefficients are numbers modulo this prime

Node(op, n) == [op |-> op, n |-> n]
node_ident(t, n) == [t |-> t] @@ Node("ident", n)
node_interm(id, n) == [t |-> <<"interm", id>>] @@ Node("interm", n)
node_transform(perm, coef) == [perm |-> perm, coef |-> coef] @@ Node("transform", Cardinality(DOMAIN perm))
node_assign(n, add) == [add |-> add] @@ Node("assign", n)

Is(g, i, op) == g.v[i].node.op = op
Only(g, i, op) == Len(g.v[i].out) = 1 /\ Is(g, g.v[i].out[1], op)
All(g, op) == SelectSeq(Ids(g), LAMBDA i : Is(g, i, op))
-----------------------------------------------------------------------------
(* One vertex for all uses of a tensor. *)
opt_merge_equiv_ident(g) ==
    LET tensors == All(g, "ident")
        first(i) == SelectSeq(tensors, LAMBDA j : g.v[j].node = g.v[i].node)[1]
        others == SelectSeq(tensors, LAMBDA i : first(i) # i)
    IN  EraseAll(FoldLeft(LAMBDA h, i : Redirect(h, i, first(i)), g, others), others)

(* Two transformations, one after the other, become one.                   *)
BugOuterFirst(outer, inner) ==
    node_transform([i \in DOMAIN outer.perm |-> outer.perm[inner.perm[i]]], (inner.coef * outer.coef) % P)
combine(outer, inner) ==
    node_transform([i \in DOMAIN outer.perm |-> inner.perm[outer.perm[i]]], (inner.coef * outer.coef) % P)

opt_merge_adjacent_transf(g) ==
    LET Merge(r, i) ==
            IF ~Only(r.g, i, "transform") THEN r
            ELSE LET j == r.g.v[i].out[1]
                     h == ReplaceVertex(r.g, j, combine(r.g.v[i].node, r.g.v[j].node))
                 IN  [g |-> Redirect(EraseEdge(h, i, j), i, j), erased |-> Append(r.erased, i)]
        done == FoldLeft(Merge, [g |-> g, erased |-> <<>>], All(g, "transform"))
    IN  EraseAll(done.g, done.erased)

(* The transformation of a sum becomes the sum of transformations.         *)
Distribute(g, i) ==
    LET sum == g.v[i].out[1]
        Wrap(h, j) == LET k == NextId(h)
                      IN  AddEdge(ReplaceEdge(AddVertex(h, h.v[i].node), sum, j, k), k, j)
        h0 == Redirect(EraseEdge(g, i, sum), i, sum)
    IN  FoldLeft(Wrap, h0, h0.v[sum].out)

RECURSIVE opt_add_before_transf(_)
opt_add_before_transf(g) ==
    LET match == SelectSeq(All(g, "transform"), LAMBDA i : Only(g, i, "add"))
    IN  IF match = <<>> THEN g
        ELSE opt_add_before_transf(EraseAll(FoldLeft(Distribute, g, match), match))

(* The terms of a sum within a sum become terms of the outer one.          *)
RECURSIVE Flatten(_, _)
Flatten(r, i) ==
    LET terms == r.g.v[i].out
        sums == SelectSeq(terms, LAMBDA j : Is(r.g, j, "add"))
        flat == FoldLeft(LAMBDA out, j : out \o (IF Is(r.g, j, "add") THEN r.g.v[j].out ELSE <<j>>), <<>>, terms)
        Cut(h, j) == FoldLeft(LAMBDA f, k : EraseEdge(f, j, k), h, h.v[j].out)
        free == Cut(FoldLeft(Cut, r.g, sums), i)
    IN  IF sums = <<>> THEN r
        ELSE Flatten([g |-> FoldLeft(LAMBDA h, j : AddEdge(h, i, j), free, flat),
                      erased |-> r.erased \o sums], i)
opt_merge_adjacent_add(g) ==
    LET done == FoldLeft(Flatten, [g |-> g, erased |-> <<>>], All(g, "add"))
    IN  EraseAll(done.g, done.erased)
-----------------------------------------------------------------------------
(* eval_tree_builder_btensor *)

interm_inserter(g, i) ==
    LET n == g.v[i].node.n
        a == NextId(g)
        h == AddVertex(AddVertex(g, node_assign(n, FALSE)), node_interm(a + 1, n))
        used == FoldLeft(LAMBDA f, j : ReplaceEdge(f, j, i, a), h, h.v[i].in)
    IN  AddEdge(AddEdge(used, a, a + 1), a, i)

(* q: vertexes with the number of operations above them that are evaluated *)
(* along with theirs; where it is 0 the result goes to an intermediate.    *)
Level(op, l) == CASE op = "transform" -> l
                  [] op \in {"add", "symm"} -> 1
                  [] OTHER -> IF l > 0 THEN l - 1 ELSE 0
Terminal == {"ident", "const", "scalar", "assign"}

RECURSIVE Inspect(_, _)
Inspect(g, q) ==
    IF q = <<>> THEN g
    ELSE LET i == Head(q)[1]
             l == Head(q)[2]
             op == g.v[i].node.op
             below == [j \in DOMAIN g.v[i].out |-> <<g.v[i].out[j], Level(op, l)>>]
         IN  IF op \in Terminal THEN Inspect(g, Tail(q))
             ELSE Inspect(IF op = "transform" \/ l # 0 THEN g ELSE interm_inserter(g, i), Tail(q) \o below)
insert_intermediates(g) ==
    IF Is(g, g.root, "scale") THEN g
    ELSE Inspect(g, [j \in 1 .. Len(g.v[g.root].out) - 1 |-> <<g.v[g.root].out[j + 1], 1>>])

RECURSIVE eval_order(_, _)
eval_order(g, i) ==
    FoldLeft(LAMBDA order, j : order \o eval_order(g, j), <<>>, g.v[i].out)
        \o (IF g.v[i].node.op \in {"assign", "scale"} THEN <<i>> ELSE <<>>)

Passes == <<"equiv_ident", "adjacent_transf", "add_before_transf", "adjacent_transf",
            "adjacent_add", "intermediates">>
build(tree) ==
    FoldLeft(LAMBDA g, pass :
                 CASE pass = "equiv_ident" -> opt_merge_equiv_ident(g)
                   [] pass = "adjacent_transf" -> opt_merge_adjacent_transf(g)
                   [] pass = "add_before_transf" -> opt_add_before_transf(g)
                   [] pass = "adjacent_add" -> opt_merge_adjacent_add(g)
                   [] pass = "intermediates" -> insert_intermediates(g),
             tree, Passes)
-----------------------------------------------------------------------------
(* The operators of expressions.  An expression is a tree and a label, the *)
(* letters of its indexes in their order.  What an operator cannot be used *)
(* for it throws an exception for: these are the operators Can*.           *)

Expr(tree, label) == [tree |-> tree, label |-> label]
index_of(label, x) == (CHOOSE i \in DOMAIN label : label[i] = x) - 1
contains(label, x) == x \in Range(label)
N(e) == Len(e.label)
permutation_of(label, other) == permutation_builder(From0(label), From0(other))

Inv(x) == IF x = 0 THEN 0 ELSE CHOOSE y \in 1 .. P - 1 : (x * y) % P = 1
Minus1 == P - 1

(* A tree whose root has the node n and the trees as children.             *)
Over(n, trees) == FoldLeft(LAMBDA g, t : AddSubtree(g, g.root, t), Tree(n), trees)
Transformed(perm, coef, e) == Over(node_transform(perm, coef), <<e.tree>>)
Matched(label, e) ==
    LET p == permutation_of(label, e.label)
    IN  IF p = Identity(N(e)) THEN e.tree ELSE Transformed(p, 1, e)
-----------------------------------------------------------------------------
Labelled(t, label) == Expr(Tree(node_ident(t, Len(label))), label)

Plus(a, b) == Expr(Over(Node("add", N(a)), <<a.tree, Matched(a.label, b)>>), a.label)
Minus(a, b) ==
    Expr(Over(Node("add", N(a)), <<a.tree, Transformed(permutation_of(a.label, b.label), Minus1, b)>>), a.label)
Times(x, a) == Expr(Transformed(Identity(N(a)), x, a), a.label)
Negated(a) == Times(Minus1, a)
Quotient(a, x) == Times(Inv(x), a)

(* map: an index of the one to that of the other, those of b counted on.   *)
node_contract(n, map, sum) == [map |-> map, sum |-> sum] @@ Node("contract", n)
Without(label, ls) == SelectSeq(label, LAMBDA x : ~contains(ls, x))
Product(a, b) == Expr(Over(node_contract(N(a) + N(b), <<>>, TRUE), <<a.tree, b.tree>>), a.label \o b.label)
Contract(ls, a, b) ==
    LET map == [i \in {index_of(a.label, x) : x \in Range(ls)} |-> N(a) + index_of(b.label, a.label[i + 1])]
        label == Without(a.label, ls) \o Without(b.label, ls)
    IN  Expr(Over(node_contract(Len(label), map, TRUE), <<a.tree, b.tree>>), label)
Dirsum(a, b) == Expr(Over(Node("dirsum", N(a) + N(b)), <<a.tree, b.tree>>), a.label \o b.label)

CanMultiply(ls, a, b) == \A x \in Range(ls) : contains(a.label, x) /\ contains(b.label, x)
Ewmult(ls, a, b) ==
    LET map == [i \in {index_of(a.label, x) : x \in Range(ls)} |-> index_of(b.label, a.label[i + 1])]
        label == a.label \o Without(b.label, ls)
    IN  Expr(Over(node_contract(Len(label), map, FALSE), <<a.tree, b.tree>>), label)
Mult(a, b) == Expr(Over(node_contract(N(a), permutation_of(a.label, b.label), FALSE), <<a.tree, b.tree>>), a.label)
Div(a, b) == Expr(Over(Node("div", N(a)), <<a.tree, Matched(a.label, b)>>), a.label)
-----------------------------------------------------------------------------
(* Diagonals: l2 lists their letters, each diagonal after its first letter,*)
(* which l1 holds.                                                         *)
Heads(l1, l2) == {i \in DOMAIN l2 : contains(l1, l2[i])}
DiagonalOf(l1, l2, x) == Cardinality({i \in Heads(l1, l2) : i <= index_of(l2, x) + 1}) - 1
CanSplit(l1, l2, a) ==
    /\ 1 \in Heads(l1, l2) /\ Cardinality(Heads(l1, l2)) = Len(l1)
    /\ \A i \in Heads(l1, l2) : i + 1 \notin Heads(l1, l2)
    /\ \A x \in Range(l2) : contains(a.label, x)

build_output_indices(idx) ==
    FoldLeft(LAMBDA out, x : IF contains(out, x) THEN out ELSE Append(out, x), <<>>, From1(idx))
Diag(l1, l2, a) ==
    LET k == Len(l1)
        heads == InOrder(Heads(l1, l2))
        didx == [j \in 0 .. k - 1 |-> IF j = 0 THEN 0 ELSE index_of(l1, l2[heads[j + 1]])]
        idx == [i \in 0 .. N(a) - 1 |-> LET x == a.label[i + 1]
                                        IN  IF contains(l2, x) THEN DiagonalOf(l1, l2, x) ELSE i + k]
        out == build_output_indices(idx)
        label == [j \in DOMAIN out |-> IF out[j] < k THEN l1[didx[out[j]] + 1] ELSE a.label[out[j] - k + 1]]
    IN  Expr(Over([idx |-> idx, didx |-> didx] @@ Node("diag", Len(out)), <<a.tree>>), label)

Const(x) == Tree([x |-> x] @@ Node("const", 0))
node_set(idx, add) == [idx |-> idx, add |-> add] @@ Node("set", Cardinality(DOMAIN idx))
Set(x, a) == Expr(Over(node_set(Identity(N(a)), FALSE), <<a.tree, Const(x)>>), a.label)
SetDiagonal(l1, l2, x, a, add) ==
    LET rest == Without(a.label, l2)
        idx == [i \in 0 .. N(a) - 1 |->
                    LET l == a.label[i + 1]
                    IN  IF contains(l2, l) THEN DiagonalOf(l1, l2, l) ELSE Len(l1) + index_of(rest, l)]
    IN  Expr(Over(node_set(idx, add), <<a.tree, Const(x)>>), a.label)

(* ls: two or three labels of one length.                                  *)
Symmetrized(ls, sign, a) ==
    LET sym == FoldLeft(LAMBDA s, i : s \o [k \in DOMAIN ls |-> index_of(a.label, ls[k][i])], <<>>,
                        [i \in DOMAIN ls[1] |-> i])
    IN  Expr(Over([sym |-> sym, nsym |-> Len(ls), pair |-> sign] @@ Node("symm", N(a)), <<a.tree>>), a.label)
Symm(ls, a) == Symmetrized(ls, 1, a)
Asymm(ls, a) == Symmetrized(ls, Minus1, a)
-----------------------------------------------------------------------------
(* What is done with an expression: the tree that is evaluated.            *)
Ident(t, n) == Tree(node_ident(t, n))
Assign(t, label, e, add) ==
    Over(node_assign(N(e), add), <<Ident(t, N(e)), Matched(label, e)>>)
Scale(t, n, x) == Over(Node("scale", n), <<Ident(t, n), Const(x)>>)

(* trace and dot_product return a number, here the element of a tensor d   *)
(* without indexes.                                                        *)
Number(tree) == Over(node_assign(0, FALSE), <<Tree([t |-> <<"d", 0>>] @@ Node("scalar", 0)), tree>>)
CanTrace(l1, l2, a) == Range(a.label) = Range(l1) \cup Range(l2)
Trace(l1, l2, a) ==
    LET idx == [i \in 0 .. N(a) - 1 |-> LET x == a.label[i + 1]
                                        IN  index_of(IF contains(l1, x) THEN l1 ELSE l2, x)]
    IN  Number(Over([idx |-> idx, cidx |-> Identity(Len(l1))] @@ Node("trace", 0), <<a.tree>>))
Dot(a, b) ==
    LET idx == [i \in 0 .. 2 * N(a) - 1 |->
                    IF i < N(a) THEN i ELSE index_of(a.label, b.label[i - N(a) + 1])]
    IN  Number(Over([idx |-> idx] @@ Node("dot", 0), <<a.tree, b.tree>>))

(* expr_tensor: the expression is kept, and gets a label where it is used. *)
Stored(label, e, used) == Expr(Matched(label, e), used)
===============================================================================
