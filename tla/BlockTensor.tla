----------------------------- MODULE BlockTensor ------------------------------
(***************************************************************************)
(* Orbits of blocks with the transformations between their members:        *)
(* abs_index, tensor_transf, orbit and short_orbit.  A symmetry is a       *)
(* sequence of elements; an element is a tensor_transf (se_perm) with the  *)
(* set of block indexes it forbids (se_label and se_part; empty for        *)
(* se_perm).  A block index is a function on 0 .. N - 1.                   *)
(*                                                                         *)
(* std::sort leaves open which of several candidate transformations to one *)
(* new block is kept; here it is the one of the first element.             *)
(***************************************************************************)
EXTENDS Contractions

Element(perm, coef, forbidden) ==
    [tr |-> [perm |-> perm, coef |-> coef], forbidden |-> forbidden]

Index(dims) == {x \in [DOMAIN dims -> 0 .. Max(Range(dims)) - 1] :
                    \A i \in DOMAIN dims : x[i] < dims[i]}
get_abs_index(idx, dims) ==
    FoldFunctionOnSet(+, 0, [i \in DOMAIN dims |-> idx[i] * get_increment(dims, i)],
                      DOMAIN dims)

Unit(n) == [perm |-> Identity(n), coef |-> 1]
Then(t, u) == [perm |-> Permute(t.perm, u.perm), coef |-> t.coef * u.coef]
Inverted(t) == [perm |-> Invert(t.perm), coef |-> t.coef]  \* coef is 1 or -1

(* The order of absolute indexes, whatever the dimensions. *)
Precedes(x, y) == \E i \in DOMAIN x : x[i] < y[i] /\ \A j \in 0 .. i - 1 : x[j] = y[j]
Smallest(S) == CHOOSE x \in S : \A y \in S \ {x} : Precedes(x, y)
InOrder(S) ==
    FoldSet(LAMBDA x, s : SelectSeq(s, LAMBDA y : Precedes(y, x)) \o <<x>>
                            \o SelectSeq(s, LAMBDA y : Precedes(x, y)), <<>>, S)

(* build_orbit from the stack q; tr[i] leads from the starter block to i.  *)
RECURSIVE Discover(_, _, _, _)

Discover(sym, dims, q, tr) ==
    IF q = <<>> THEN tr
    ELSE LET idx == Last(q)
             new == {Apply(sym[e].tr.perm, idx) : e \in DOMAIN sym} \ DOMAIN tr
             Via(i) == Min({e \in DOMAIN sym : Apply(sym[e].tr.perm, idx) = i})
         IN  Discover(sym, dims, Front(q) \o InOrder(new),
                      tr @@ [i \in new |-> Then(tr[idx], sym[Via(i)].tr)])

(* orbit: its blocks with the transformations from the canonical block,   *)
(* when found[i] leads to i from the block that the search started with.   *)
Rooted(found, can) ==
    [tr  |-> [i \in DOMAIN found |-> Inverted(Then(Inverted(found[i]), found[can]))],
     can |-> can]
FromSmallest(found) == Rooted(found, Smallest(DOMAIN found))
orbit(sym, dims, idx) ==
    FromSmallest(Discover(sym, dims, <<idx>>, idx :> Unit(Cardinality(DOMAIN idx))))

(* short_orbit: allowed if no element forbids a block that it is applied to. *)
ShortForm(sym, o) ==
    [can |-> o.can, allowed |-> \A i \in DOMAIN o.tr, e \in DOMAIN sym : i \notin sym[e].forbidden]
short_orbit(sym, dims, idx) == ShortForm(sym, orbit(sym, dims, idx))
-----------------------------------------------------------------------------
(* gen_block_tensor with its block_map, and the stream gen_bto_aux_copy    *)
(* that fills one.  A tensor is [dims, sym, map]; map has an entry for     *)
(* each block that is not zero.  Requests run under the lock of the        *)
(* tensor.  They are made here by controls of a tensor that is not yet     *)
(* immutable.                                                              *)

NewTensor(dims) == [dims |-> dims, sym |-> <<>>, map |-> <<>>]

(* The test of the release build: a block that is present passes without   *)
(* a look at the symmetry.                                                 *)
check_canonical_block(bt, i) ==
    \/ i \in DOMAIN bt.map
    \/ LET o == short_orbit(bt.sym, bt.dims, i) IN o.allowed /\ o.can = i

req_is_zero_block(bt, i) == i \notin DOMAIN bt.map
req_nonzero_blocks(bt) == InOrder(DOMAIN bt.map)

(* Whether get_block answers instead of throwing. *)
HasBlock(bt, i) == check_canonical_block(bt, i) /\ i \in DOMAIN bt.map
MayCreate(bt, i) == check_canonical_block(bt, i)

Written(bt, i, content) == [bt EXCEPT !.map = (i :> content) @@ bt.map]
req_zero_block(bt, i) == [bt EXCEPT !.map = Restrict(bt.map, DOMAIN bt.map \ {i})]
req_zero_all_blocks(bt) == [bt EXCEPT !.map = <<>>]
clear_symmetry(bt) == [bt EXCEPT !.sym = <<>>]
-----------------------------------------------------------------------------
(* gen_bto_aux_copy onto the tensor bt; blkstat says of each block that    *)
(* was put whether it has been written.  A put finds or makes the entry    *)
(* under the stream's mutex, then writes under the mutex of the block.     *)

BugKeepsBlocks(bt, sym) == [bt EXCEPT !.sym = sym]
open(bt, sym) == [req_zero_all_blocks(bt) EXCEPT !.sym = sym]

put_find(blkstat, i) == IF i \in DOMAIN blkstat THEN blkstat ELSE blkstat @@ (i :> FALSE)

(* sum is the content of a block that was written before, plus content. *)
put_write(bt, blkstat, i, content, sum) ==
    [bt |-> Written(bt, i, IF blkstat[i] THEN sum ELSE content),
     blkstat |-> [blkstat EXCEPT ![i] = TRUE]]
===============================================================================
