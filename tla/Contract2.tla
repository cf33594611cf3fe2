------------------------------- MODULE Contract2 -------------------------------
(***************************************************************************)
(* btod_contract2::perform, the contraction of two block tensors into a    *)
(* third: gen_bto_contract2_nzorb finds the blocks of C that are not zero, *)
(* gen_bto_contract2 runs over batches of A, B and C, gen_bto_copy with    *)
(* gen_bto_aux_copy fills the temporary tensors bta2 and btb2, and         *)
(* gen_bto_contract2_batch computes blocks of C and puts them to a second  *)
(* gen_bto_aux_copy, the output.  Every submission to the thread pool is a *)
(* set of tasks, any of which may make its next step (todo: not started).  *)
(*                                                                         *)
(* A block of A or B is a canonical block of the argument and the          *)
(* transformation applied to it; a block of C is a bag of products of two  *)
(* such blocks, each with its descriptor.                                  *)
(***************************************************************************)
EXTENDS ContractionLists, SymmetryOperations, Bags

CONSTANT Problems, batch_size

VARIABLES
    job,            \* the problem: c, dimsa, dimsb, dimsc, syma, symb, symc, blsta, blstb
    aligned,        \* the same with aligned arguments
    pc,             \* the submission or the sequential part under way
    todo, half,     \* tasks not started; tasks between two steps, with what they carry
    visited, nonzero,
    batches, at,    \* of A, B and C; the numbers of the current ones
    bta2, btb2,
    blax, blbx,     \* blocks of the current batches with their orbits
    lists,          \* the list of products of each block of the batch of C
    btc, blkstat    \* the output tensor and its stream

contracting == <<job, aligned, pc, todo, half, visited, nonzero, batches, at,
          bta2, btb2, blax, blbx, lists, btc, blkstat>>
problem == <<job, aligned>>
nzorb == <<visited, nonzero>>
args == <<bta2, btb2, blax, blbx>>
loops == <<batches, at>>
output == <<btc, blkstat>>
-----------------------------------------------------------------------------
(* The contraction as a product of matrices, and its arguments permuted by *)
(* p to suit it.                                                           *)
AlignedProblem(j, p) ==
    [p |-> p, c |-> permute_abc(j.c, p),
     syma |-> so_permute(j.syma, p.a), dimsa |-> Apply(p.a, j.dimsa),
     symb |-> so_permute(j.symb, p.b), dimsb |-> Apply(p.b, j.dimsb),
     symc |-> so_permute(j.symc, p.c), dimsc |-> Apply(p.c, j.dimsc)]

(* gen_bto_contract2_batching_policy, and a list cut into batches. *)
batch_length(nblk) ==
    LET bsz == Max({Min({batch_size \div 3, nblk}), 1})
        nbat == (nblk + bsz - 1) \div bsz
    IN  IF nbat > 0 THEN (nblk + nbat - 1) \div nbat ELSE 1
Batches(s) ==
    LET n == batch_length(Len(s))
    IN  [b \in 1 .. (Len(s) + n - 1) \div n |->
            SubSeq(s, (b - 1) * n + 1, Min({b * n, Len(s)}))]

(* A block list in the aligned order, each block replaced by the canonical *)
(* one of its new orbit.                                                   *)
AlignedList(s, p, sym, dims) ==
    [i \in DOMAIN s |-> IF p = Identity(Cardinality(DOMAIN p)) THEN s[i]
                        ELSE short_orbit(sym, dims, Apply(p, s[i])).can]
-----------------------------------------------------------------------------
(* gen_bto_contract2_nzorb::build; a task for each inner index that occurs *)
(* in A and in B.                                                          *)

Unfolded == [c |-> job.c, dimsa |-> job.dimsa, dimsb |-> job.dimsb,
             syma |-> job.syma, symb |-> job.symb,
             blka |-> unfold_block_list(job.syma, job.dimsa, job.blsta),
             blkb |-> unfold_block_list(job.symb, job.dimsb, job.blstb)]

InnerIndexes(ctx) == {KOfA(ctx.c, i) : i \in ctx.blka} \cap {KOfB(ctx.c, i) : i \in ctx.blkb}

Candidates(ctx, k) ==
    {ic \in {CIndex(ctx.c, p[1], p[2]) : p \in
                {p \in ctx.blka \X ctx.blkb : KOfA(ctx.c, p[1]) = k /\ KOfB(ctx.c, p[2]) = k}} :
        LET o == short_orbit(job.symc, job.dimsc, ic) IN o.allowed /\ o.can = ic}

ContractInit ==
    /\ job \in Problems
    /\ aligned = AlignedProblem(job, contraction2_align(job.c))
    /\ pc = "nzorb"
    /\ todo = InnerIndexes(Unfolded)
    /\ half = <<>>
    /\ visited = {} /\ nonzero = EmptyBag
    /\ batches = [a |-> <<>>, b |-> <<>>, c |-> <<>>]
    /\ at = [a |-> 1, b |-> 1, c |-> 1]
    /\ bta2 = NewTensor(aligned.dimsa) /\ btb2 = NewTensor(aligned.dimsb)
    /\ blax = {} /\ blbx = {}
    /\ lists = <<>>
    /\ btc = NewTensor(job.dimsc) /\ blkstat = <<>>

(* The section under m_vis_mtx. *)
BugClaimsAll(k) ==
    /\ pc = "nzorb" /\ k \in todo
    /\ todo' = todo \ {k}
    /\ half' = half @@ (k :> Candidates(Unfolded, k))
    /\ visited' = visited \cup Candidates(Unfolded, k)
    /\ UNCHANGED <<problem, pc, nonzero, loops, args, lists, output>>
Claim(k) ==
    /\ pc = "nzorb" /\ k \in todo
    /\ todo' = todo \ {k}
    /\ half' = half @@ (k :> Candidates(Unfolded, k) \ visited)
    /\ visited' = visited \cup Candidates(Unfolded, k)
    /\ UNCHANGED <<problem, pc, nonzero, loops, args, lists, output>>

(* The lists of the claimed blocks and the section under m_nz_mtx. *)
Publish(k) ==
    /\ pc = "nzorb" /\ k \in DOMAIN half
    /\ nonzero' = nonzero (+) SetToBag({ic \in half[k] : build_list_bl(Unfolded, ic) # <<>>})
    /\ half' = Restrict(half, DOMAIN half \ {k})
    /\ UNCHANGED <<problem, pc, todo, visited, loops, args, lists, output>>

NoTasks == todo = {} /\ half = <<>>

(* The constructor is done; perform opens the output and makes batches.    *)
StartBatches ==
    /\ pc = "nzorb" /\ NoTasks
    /\ btc' = open(btc, job.symc)
    /\ batches' =
        [a |-> Batches(AlignedList(InOrder(job.blsta), aligned.p.a, aligned.syma, aligned.dimsa)),
         b |-> Batches(AlignedList(InOrder(job.blstb), aligned.p.b, aligned.symb, aligned.dimsb)),
         c |-> Batches(AlignedList(InOrder(DOMAIN nonzero), aligned.p.c, aligned.symc, aligned.dimsc))]
    /\ pc' = IF job.blsta = {} \/ job.blstb = {} THEN "done" ELSE "open_a"
    /\ UNCHANGED <<problem, todo, half, nzorb, at, args, lists, blkstat>>
-----------------------------------------------------------------------------
(* Filling bta2 and btb2.                                                  *)

Submit(tasks, part) == pc' = part /\ todo' = tasks

(* gen_bto_part_copy_task for block i of the temporary tensor bt, from the *)
(* argument with symmetry sym and blocks blst; each task has a block of    *)
(* its own.                                                                *)
part_copy(bt, i, p, sym, dims, blst) ==
    LET ia == Apply(Invert(p), i)
        o  == orbit(sym, dims, ia)
        x  == [of |-> o.can, tr |-> Then(o.tr[ia], [perm |-> p, coef |-> 1])]
    IN  IF o.can \notin blst THEN bt ELSE put_write(bt, i :> FALSE, i, x, x).bt

OpenA ==
    /\ pc = "open_a"
    /\ bta2' = open(bta2, aligned.syma)
    /\ Submit(Range(batches.a[at.a]), "copy_a")
    /\ UNCHANGED <<problem, half, nzorb, loops, btb2, blax, blbx, lists, output>>

CopyA(i) ==
    /\ pc = "copy_a" /\ i \in todo
    /\ bta2' = part_copy(bta2, i, aligned.p.a, job.syma, job.dimsa, job.blsta)
    /\ todo' = todo \ {i}
    /\ UNCHANGED <<problem, pc, half, nzorb, loops, btb2, blax, blbx, lists, output>>

CloseA ==
    /\ pc = "copy_a" /\ NoTasks
    /\ bta2' = clear_symmetry(bta2)
    /\ blax' = unfold_block_list(aligned.syma, aligned.dimsa, DOMAIN bta2.map)
    /\ pc' = "open_b" /\ at' = [at EXCEPT !.b = 1]
    /\ UNCHANGED <<problem, todo, half, nzorb, batches, btb2, blbx, lists, output>>

OpenB ==
    /\ pc = "open_b"
    /\ btb2' = open(btb2, aligned.symb)
    /\ Submit(Range(batches.b[at.b]), "copy_b")
    /\ UNCHANGED <<problem, half, nzorb, loops, bta2, blax, blbx, lists, output>>

CopyB(i) ==
    /\ pc = "copy_b" /\ i \in todo
    /\ btb2' = part_copy(btb2, i, aligned.p.b, job.symb, job.dimsb, job.blstb)
    /\ todo' = todo \ {i}
    /\ UNCHANGED <<problem, pc, half, nzorb, loops, bta2, blax, blbx, lists, output>>

(* The end of a batch of C: on to the next one, of C, of B or of A.        *)
NextBatch(c) ==
    IF c < Len(batches.c) THEN pc' = "lists" /\ at' = [at EXCEPT !.c = c + 1]
    ELSE IF at.b < Len(batches.b) THEN pc' = "open_b" /\ at' = [at EXCEPT !.b = @ + 1]
    ELSE IF at.a < Len(batches.a) THEN pc' = "open_a" /\ at' = [at EXCEPT !.a = @ + 1]
    ELSE pc' = "done" /\ at' = at

CloseB ==
    /\ pc = "copy_b" /\ NoTasks
    /\ btb2' = clear_symmetry(btb2)
    /\ blbx' = unfold_block_list(aligned.symb, aligned.dimsb, DOMAIN btb2.map)
    /\ NextBatch(0)
    /\ UNCHANGED <<problem, todo, half, nzorb, batches, bta2, blax, lists, output>>
-----------------------------------------------------------------------------
(* gen_bto_contract2_batch::perform                                        *)

(* The lists, each made by a task that changes nothing else, and the first *)
(* call of gen_bto_unfold_symmetry.                                        *)
Lists ==
    /\ pc = "lists"
    /\ lists' = [ic \in Range(batches.c[at.c]) |->
                    build_list_bl([blka |-> blax, blkb |-> blbx] @@ aligned, ic)]
    /\ Submit(UNION {{p.ia : p \in Range(lists'[ic])} : ic \in DOMAIN lists'}, "unfold_a")
    /\ UNCHANGED <<problem, half, nzorb, loops, args, output>>

(* gen_bto_unfold_symmetry_task: block i from the canonical one. *)
unfold(bt, sym, i) ==
    LET o == orbit(sym, bt.dims, i)
        x == bt.map[o.can]
    IN  IF i # o.can /\ req_is_zero_block(bt, i) /\ ~req_is_zero_block(bt, o.can)
        THEN Written(bt, i, [of |-> x.of, tr |-> Then(x.tr, o.tr[i])])
        ELSE bt

UnfoldA(i) ==
    /\ pc = "unfold_a" /\ i \in todo
    /\ bta2' = unfold(bta2, aligned.syma, i)
    /\ todo' = todo \ {i}
    /\ UNCHANGED <<problem, pc, half, nzorb, loops, btb2, blax, blbx, lists, output>>

SubmitUnfoldB ==
    /\ pc = "unfold_a" /\ NoTasks
    /\ Submit(UNION {{p.ib : p \in Range(lists[ic])} : ic \in DOMAIN lists}, "unfold_b")
    /\ UNCHANGED <<problem, half, nzorb, loops, args, lists, output>>

UnfoldB(i) ==
    /\ pc = "unfold_b" /\ i \in todo
    /\ btb2' = unfold(btb2, aligned.symb, i)
    /\ todo' = todo \ {i}
    /\ UNCHANGED <<problem, pc, half, nzorb, loops, bta2, blax, blbx, lists, output>>

SubmitCompute ==
    /\ pc = "unfold_b" /\ NoTasks
    /\ Submit(DOMAIN lists, "compute")
    /\ UNCHANGED <<problem, half, nzorb, loops, args, lists, output>>

(* gen_bto_contract2_block::compute_block for one product, with the blocks *)
(* of bta2 and btb2 at the index itself (m_use_broken_sym); what the list  *)
(* says of their transformation is relative to the canonical block.  t is  *)
(* the transformation of the block of C.                                   *)
contract_products(x, y, tra, trb, t) ==
    [a |-> x.of, b |-> y.of, coef |-> tra.coef * trb.coef * t.coef,
     contr |-> permute_c(permute_b(permute_a(aligned.c, Invert(tra.perm)), Invert(trb.perm)), t.perm).conn]
Relative(tr, o, i, of) == Then(tr, Then(Inverted(o.tr[i]), of))
contract_blocks(p, t) ==
    contract_products(bta2.map[p.ia], btb2.map[p.ib],
        Relative(bta2.map[p.ia].tr, orbit(aligned.syma, aligned.dimsa, p.ia), p.ia, p.tra),
        Relative(btb2.map[p.ib].tr, orbit(aligned.symb, aligned.dimsb, p.ib), p.ib, p.trb), t)

(* gen_bto_aux_transform::put, back to the order of C: index and           *)
(* transformation.                                                         *)
BackTransform(p, i, o) == [to |-> o.can, tr |-> Then([perm |-> p, coef |-> 1], Inverted(o.tr[i]))]
PutBack(p, i) == BackTransform(p, i, orbit(job.symc, job.dimsc, i))
aux_transform(ic) == PutBack(Invert(aligned.p.c), Apply(Invert(aligned.p.c), ic))

(* gen_bto_contract2_task: compute the block, then put it to the output.   *)
Computed(ic, t) ==
    /\ half' = half @@ (ic :> [to |-> t.to, products |->
                    [j \in DOMAIN lists[ic] |-> contract_blocks(lists[ic][j], t.tr)]])
    /\ blkstat' = put_find(blkstat, t.to)
Compute(ic) ==
    /\ pc = "compute" /\ ic \in todo
    /\ IF \A p \in Range(lists[ic]) : HasBlock(bta2, p.ia) /\ HasBlock(btb2, p.ib)
       THEN Computed(ic, aux_transform(ic)) /\ pc' = pc
       ELSE pc' = "failed" /\ UNCHANGED <<half, blkstat>>
    /\ todo' = todo \ {ic}
    /\ UNCHANGED <<problem, nzorb, loops, args, lists, btc>>

Put(to, x) ==
    LET w == put_write(btc, blkstat, to, x, btc.map[to] \o x)
    IN  btc' = w.bt /\ blkstat' = w.blkstat
Write(ic) ==
    /\ pc = "compute" /\ ic \in DOMAIN half
    /\ Put(half[ic].to, half[ic].products)
    /\ half' = Restrict(half, DOMAIN half \ {ic})
    /\ UNCHANGED <<problem, pc, todo, nzorb, loops, args, lists>>

EndBatch ==
    /\ pc = "compute" /\ NoTasks
    /\ NextBatch(at.c)
    /\ lists' = <<>>
    /\ UNCHANGED <<problem, todo, half, nzorb, batches, args, output>>

Finished == pc \in {"done", "failed"} /\ UNCHANGED contracting

ContractNext ==
    \/ \E k \in todo : Claim(k) \/ CopyA(k) \/ CopyB(k) \/ UnfoldA(k) \/ UnfoldB(k) \/ Compute(k)
    \/ \E k \in DOMAIN half : Publish(k) \/ Write(k)
    \/ StartBatches \/ OpenA \/ CloseA \/ OpenB \/ CloseB \/ Lists
    \/ SubmitUnfoldB \/ SubmitCompute \/ EndBatch \/ Finished

ContractSpec == ContractInit /\ [][ContractNext]_contracting
-----------------------------------------------------------------------------
Canonical == {ic \in Index(job.dimsc) : LET o == short_orbit(job.symc, job.dimsc, ic)
                                       IN  o.allowed /\ o.can = ic}

(* When perform returns, a block of C is the sum of the products over all  *)
(* inner indexes, each once, of the blocks that A and B stand for by their *)
(* symmetry; and zero if there are none.  No task misses a block that its  *)
(* list of products names.                                                 *)
ResultComplete ==
    /\ pc # "failed"
    /\ pc = "done" =>
        \A ic \in Canonical :
            Value(job.c, job.syma, job.symb, IF ic \in DOMAIN btc.map THEN btc.map[ic] ELSE <<>>)
                = Value(job.c, job.syma, job.symb, AllProducts(Unfolded, ic))

(* The tasks of nzorb together schedule each canonical block of C that is  *)
(* not zero exactly once, whichever of them claims it.                     *)
ScheduleExact ==
    pc # "nzorb" =>
        nonzero = SetToBag({ic \in Canonical : build_list(Unfolded, ic, TRUE) # <<>>})

=============================================================================
