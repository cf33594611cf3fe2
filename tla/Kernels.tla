------------------------------- MODULE Kernels -------------------------------
(***************************************************************************)
(* The loops over the elements of dense tensors (loop_list_node,           *)
(* loop_list_runner) and the kernels that take the innermost of them.      *)
(* A kernel is matched greedily: it takes a loop out of the list if the    *)
(* steps fit, then kernels that need one loop more are tried.  It keeps    *)
(* some lengths and steps in registers and takes the others for 0 or 1.    *)
(*                                                                         *)
(* A loop has a length w and steps in the two sources and the result.  A   *)
(* kernel holds the loops that are left (in), those it has taken as i and  *)
(* p, and the loops la that its routine of linear algebra runs.            *)
(***************************************************************************)
EXTENDS Integers, Sequences, SequencesExt

Row(w, a, b, c) == [w |-> w, a |-> a, b |-> b, c |-> c]
Swapped(rows) == [r \in DOMAIN rows |-> [rows[r] EXCEPT !.a = rows[r].b, !.b = rows[r].a]]
-----------------------------------------------------------------------------
(* linalg_generic: the loops of each routine. *)

copy_i_i(ni, sia)                == <<Row(ni, sia, 0, 1)>>
copy_ij_ij_x(ni, nj, sia, sic)   == <<Row(ni, sia, 0, sic), Row(nj, 1, 0, 1)>>
copy_ij_ji_x(ni, nj, sja, sic)   == <<Row(nj, sja, 0, 1), Row(ni, 1, 0, sic)>>
add1_ij_ij_x(ni, nj, sia, sic)   == <<Row(ni, sia, 0, sic), Row(nj, 1, 0, 1)>>
add1_ij_ji_x(ni, nj, sja, sic)   == <<Row(nj, sja, 0, 1), Row(ni, 1, 0, sic)>>
div1_i_i_x(ni, sia, sic)         == <<Row(ni, sia, 0, sic)>>
add_i_i_x_x(ni, sia, sic)        == <<Row(ni, sia, 0, sic)>>
mul2_i_i_x(ni, sia, sic)         == <<Row(ni, sia, 0, sic)>>
mul2_x_p_p(np, spa, spb)         == <<Row(np, spa, spb, 0)>>
mul2_i_i_i_x(ni, sia, sib, sic)  == <<Row(ni, sia, sib, sic)>>
mul2_i_ip_p_x(ni, np, sia, spb, sic) == <<Row(ni, sia, 0, sic), Row(np, 1, spb, 0)>>
mul2_i_pi_p_x(ni, np, spa, spb, sic) == <<Row(np, spa, spb, 0), Row(ni, 1, 0, sic)>>
mul2_ij_i_j_x(ni, nj, sia, sjb, sic) == <<Row(ni, sia, 0, sic), Row(nj, 0, sjb, 1)>>
mul2_x_pq_pq(np, nq, spa, spb)   == <<Row(np, spa, spb, 0), Row(nq, 1, 1, 0)>>
mul2_x_pq_qp(np, nq, spa, sqb)   == <<Row(np, spa, 1, 0), Row(nq, 1, sqb, 0)>>
mul2_ij_ip_jp_x(ni, nj, np, sia, sjb, sic) ==
    <<Row(ni, sia, 0, sic), Row(nj, 0, sjb, 1), Row(np, 1, 1, 0)>>
mul2_ij_ip_pj_x(ni, nj, np, sia, spb, sic) ==
    <<Row(ni, sia, 0, sic), Row(np, 1, spb, 0), Row(nj, 0, 1, 1)>>
mul2_ij_pi_jp_x(ni, nj, np, spa, sjb, sic) ==
    <<Row(ni, 1, 0, sic), Row(nj, 0, sjb, 1), Row(np, spa, 1, 0)>>
mul2_ij_pi_pj_x(ni, nj, np, spa, spb, sic) ==
    <<Row(np, spa, spb, 0), Row(ni, 1, 0, sic), Row(nj, 0, 1, 1)>>
-----------------------------------------------------------------------------
(* Matching.  The result is {} where the code returns 0.                   *)

(* The first of the loops at K with the smallest step. *)
Least(in, K, step) ==
    {k \in K : \A j \in K : in[k][step] < in[j][step] \/ (in[k][step] = in[j][step] /\ k <= j)}
Or(A, B) == IF A # {} THEN A ELSE B

TakeI(z, k, la) == [z EXCEPT !.in = RemoveAt(z.in, k), !.i = z.in[k], !.la = la]
TakeP(z, k, la) == [z EXCEPT !.in = RemoveAt(z.in, k), !.p = z.in[k], !.la = la]
Scalar(loops) == [in |-> loops, i |-> Row(0, 0, 0, 0), p |-> Row(0, 0, 0, 0), la |-> <<>>]

(* kern_dcopy and kern_dadd1 *)
dcopy_ij_ij_x(z) ==
    {TakeI(z, k, copy_ij_ij_x(z.in[k].w, z.i.w, z.in[k].a, z.in[k].c)) :
        k \in Least(z.in, {k \in DOMAIN z.in : z.i.a = 1 /\ z.in[k].a > 0 /\ z.in[k].c > 0}, "a")}
dcopy_ij_ji_x(z) ==
    {TakeI(z, k, copy_ij_ji_x(z.in[k].w, z.i.w, z.i.a, z.in[k].c)) :
        k \in Least(z.in, {k \in DOMAIN z.in : z.in[k].a = 1 /\ z.in[k].c > 0}, "c")}
dcopy_next(z) == Or(dcopy_ij_ij_x(z), Or(dcopy_ij_ji_x(z), {z}))
dcopy_i_i_x(z) ==
    UNION {dcopy_next(TakeI(z, k, copy_i_i(z.in[k].w, z.in[k].a))) :
        k \in Least(z.in, {k \in DOMAIN z.in : z.in[k].a > 0 /\ z.in[k].c = 1}, "a")}
match_dcopy(z) == Or(dcopy_i_i_x(z), {z})

dadd1_ij_ij_x(z) ==
    {TakeI(z, k, add1_ij_ij_x(z.in[k].w, z.i.w, z.in[k].a, z.in[k].c)) :
        k \in Least(z.in, {k \in DOMAIN z.in : z.i.a = 1 /\ z.in[k].a > 0 /\ z.in[k].c > 0}, "a")}
dadd1_ij_ji_x(z) ==
    {TakeI(z, k, add1_ij_ji_x(z.in[k].w, z.i.w, z.i.a, z.in[k].c)) :
        k \in Least(z.in, {k \in DOMAIN z.in : z.in[k].a = 1 /\ z.in[k].c > 0}, "c")}
dadd1_next(z) == Or(dadd1_ij_ij_x(z), Or(dadd1_ij_ji_x(z), {z}))
dadd1_i_i_x(z) ==
    UNION {dadd1_next(TakeI(z, k, mul2_i_i_x(z.in[k].w, z.in[k].a, 1))) :
        k \in Least(z.in, {k \in DOMAIN z.in : z.in[k].a > 0 /\ z.in[k].c = 1}, "a")}
match_dadd1(z) == Or(dadd1_i_i_x(z), {z})

(* kern_ddiv1, kern_dadd2; kern_dmul1, kern_dmuladd1, kern_ddivadd1 and    *)
(* kern_ddiv2 match no loop. *)
ddiv1_i_i_x(z) ==
    {TakeI(z, k, div1_i_i_x(z.in[k].w, z.in[k].a, 1)) :
        k \in Least(z.in, {k \in DOMAIN z.in : z.in[k].a > 0 /\ z.in[k].c = 1}, "a")}
match_ddiv1(z) == Or(ddiv1_i_i_x(z), {z})

dadd2_i_i_x_x(z) ==
    {TakeI(z, k, add_i_i_x_x(z.in[k].w, 1, z.in[k].c)) :
        k \in Least(z.in, {k \in DOMAIN z.in : z.in[k].a = 1 /\ z.in[k].b = 0 /\ z.in[k].c > 0}, "c")}
dadd2_i_x_i_x(z) ==
    {TakeI(z, k, Swapped(add_i_i_x_x(z.in[k].w, 1, z.in[k].c))) :
        k \in Least(z.in, {k \in DOMAIN z.in : z.in[k].a = 0 /\ z.in[k].b = 1 /\ z.in[k].c > 0}, "c")}
match_dadd2(z) == Or(dadd2_i_i_x_x(z), Or(dadd2_i_x_i_x(z), {z}))
-----------------------------------------------------------------------------
(* kern_dmul2: the letters are the indexes of c, a and b.  A kernel of two *)
(* outer indexes that calls the loop it found i renames the older one j.   *)

ij_pi_jp(z) ==
    {TakeI(z, k, mul2_ij_pi_jp_x(z.i.w, z.in[k].w, z.p.w, z.p.a, z.in[k].b, z.i.c)) :
        k \in Least(z.in, {k \in DOMAIN z.in :
                /\ z.p.b = 1
                /\ z.in[k].a = 0 /\ z.in[k].b > 0 /\ z.in[k].c = 1
                /\ z.in[k].b % z.p.w = 0 /\ z.i.c % z.in[k].w = 0}, "b")}
ij_pi_pj(z) ==
    {TakeI(z, k, mul2_ij_pi_pj_x(z.i.w, z.in[k].w, z.p.w, z.p.a, z.p.b, z.i.c)) :
        k \in Least(z.in, {k \in DOMAIN z.in :
                /\ z.in[k].a = 0 /\ z.in[k].b = 1 /\ z.in[k].c = 1
                /\ z.i.c % z.in[k].w = 0}, "b")}
ij_pj_ip(z) ==
    {TakeI(z, k, Swapped(mul2_ij_ip_pj_x(z.in[k].w, z.i.w, z.p.w, z.in[k].b, z.p.a, z.in[k].c))) :
        k \in Least(z.in, {k \in DOMAIN z.in :
                /\ z.p.b = 1 /\ z.i.c = 1
                /\ z.in[k].a = 0 /\ z.in[k].b > 0 /\ z.in[k].c > 0
                /\ z.in[k].b % z.p.w = 0 /\ z.in[k].c % z.i.w = 0}, "b")}
ij_pj_pi(z) ==
    {TakeI(z, k, Swapped(mul2_ij_pi_pj_x(z.in[k].w, z.i.w, z.p.w, z.p.b, z.p.a, z.in[k].c))) :
        k \in Least(z.in, {k \in DOMAIN z.in :
                /\ z.i.c = 1
                /\ z.in[k].a = 0 /\ z.in[k].b = 1 /\ z.in[k].c > 0
                /\ z.p.b % z.in[k].w = 0 /\ z.in[k].c % z.i.w = 0}, "c")}
i_pi_p_next(z) == Or(ij_pi_jp(z), Or(ij_pi_pj(z), Or(ij_pj_ip(z), Or(ij_pj_pi(z), {z}))))
i_pi_p(z) ==
    UNION {i_pi_p_next(TakeP(z, k, mul2_i_pi_p_x(z.i.w, z.in[k].w, z.in[k].a, z.in[k].b, z.i.c))) :
        k \in Least(z.in, {k \in DOMAIN z.in :
                /\ z.in[k].a > 0 /\ z.in[k].b > 0 /\ z.in[k].c = 0
                /\ z.in[k].a % z.i.w = 0}, "b")}
ij_i_j(z) ==
    {TakeI(z, k, mul2_ij_i_j_x(z.i.w, z.in[k].w, 1, z.in[k].b, z.i.c)) :
        k \in Least(z.in, {k \in DOMAIN z.in :
                /\ z.in[k].a = 0 /\ z.in[k].b > 0 /\ z.in[k].c = 1
                /\ z.i.c % (z.in[k].w * z.in[k].c) = 0}, "b")}
ij_j_i(z) ==
    {TakeI(z, k, Swapped(mul2_ij_i_j_x(z.in[k].w, z.i.w, z.in[k].b, 1, z.in[k].c))) :
        k \in Least(z.in, {k \in DOMAIN z.in :
                /\ z.i.c = 1
                /\ z.in[k].a = 0 /\ z.in[k].b > 0 /\ z.in[k].c > 0
                /\ z.in[k].c % z.i.w = 0}, "b")}
i_i_x_next(z) == Or(i_pi_p(z), Or(ij_i_j(z), Or(ij_j_i(z), {z})))
i_i_x(z) ==
    UNION {i_i_x_next(TakeI(z, k, mul2_i_i_x(z.in[k].w, 1, z.in[k].c))) :
        k \in Least(z.in, {k \in DOMAIN z.in : z.in[k].a = 1 /\ z.in[k].b = 0 /\ z.in[k].c > 0}, "c")}

ij_jp_pi(z) ==
    {TakeI(z, k, Swapped(mul2_ij_pi_jp_x(z.i.w, z.in[k].w, z.p.w, z.p.b, z.in[k].a, z.i.c))) :
        k \in Least(z.in, {k \in DOMAIN z.in :
                /\ z.p.a = 1
                /\ z.in[k].a > 0 /\ z.in[k].b = 0 /\ z.in[k].c = 1
                /\ z.in[k].a % z.p.w = 0 /\ z.i.c % z.in[k].w = 0}, "a")}
ij_ip_pj(z) ==
    {TakeI(z, k, mul2_ij_ip_pj_x(z.in[k].w, z.i.w, z.p.w, z.in[k].a, z.p.b, z.in[k].c)) :
        k \in Least(z.in, {k \in DOMAIN z.in :
                /\ z.p.a = 1 /\ z.i.c = 1
                /\ z.in[k].a > 0 /\ z.in[k].b = 0 /\ z.in[k].c > 0
                /\ z.in[k].a % z.p.w = 0 /\ z.in[k].c % z.i.w = 0}, "a")}
ij_pi_pj_from_pi(z) ==
    {TakeI(z, k, mul2_ij_pi_pj_x(z.in[k].w, z.i.w, z.p.w, z.p.a, z.p.b, z.in[k].c)) :
        k \in Least(z.in, {k \in DOMAIN z.in :
                /\ z.i.c = 1
                /\ z.in[k].a = 1 /\ z.in[k].b = 0 /\ z.in[k].c > 0
                /\ z.in[k].c % z.i.w = 0 /\ z.p.a % z.in[k].w = 0}, "c")}
i_p_pi_next(z) == Or(ij_jp_pi(z), Or(ij_ip_pj(z), Or(ij_pi_pj_from_pi(z), {z})))
i_p_pi(z) ==
    UNION {i_p_pi_next(TakeP(z, k, Swapped(mul2_i_pi_p_x(z.i.w, z.in[k].w, z.in[k].b, z.in[k].a, z.i.c)))) :
        k \in Least(z.in, {k \in DOMAIN z.in :
                /\ z.in[k].a > 0 /\ z.in[k].b > 0 /\ z.in[k].c = 0
                /\ z.in[k].b % z.i.w = 0}, "a")}
i_x_i_next(z) == Or(i_p_pi(z), {z})
i_x_i(z) ==
    UNION {i_x_i_next(TakeI(z, k, Swapped(mul2_i_i_x(z.in[k].w, 1, z.in[k].c)))) :
        k \in Least(z.in, {k \in DOMAIN z.in : z.in[k].a = 0 /\ z.in[k].b = 1 /\ z.in[k].c > 0}, "c")}

ij_jp_ip(z) ==
    {TakeI(z, k, Swapped(mul2_ij_ip_jp_x(z.in[k].w, z.i.w, z.p.w, z.in[k].b, z.i.a, z.in[k].c))) :
        k \in Least(z.in, {k \in DOMAIN z.in :
                /\ z.p.b = 1 /\ z.i.c = 1
                /\ z.in[k].a = 0 /\ z.in[k].b > 0 /\ z.in[k].c > 0
                /\ z.in[k].b % z.p.w = 0 /\ z.in[k].c % z.i.w = 0}, "b")}
i_ip_p_next(z) == Or(ij_jp_ip(z), {z})
i_ip_p(z) ==
    UNION {i_ip_p_next(TakeI(z, k, mul2_i_ip_p_x(z.in[k].w, z.p.w, z.in[k].a, 1, z.in[k].c))) :
        k \in Least(z.in, {k \in DOMAIN z.in :
                /\ z.p.a = 1
                /\ z.in[k].a > 0 /\ z.in[k].b = 0 /\ z.in[k].c = 1
                /\ z.in[k].a % z.p.w = 0}, "a")}
ij_ip_jp(z) ==
    {TakeI(z, k, mul2_ij_ip_jp_x(z.in[k].w, z.i.w, z.p.w, z.in[k].a, z.i.b, z.in[k].c)) :
        k \in Least(z.in, {k \in DOMAIN z.in :
                /\ z.p.a = 1 /\ z.i.c = 1
                /\ z.in[k].a > 0 /\ z.in[k].b = 0 /\ z.in[k].c > 0
                /\ z.in[k].a % z.p.w = 0 /\ z.in[k].c % z.i.w = 0}, "a")}
i_p_ip_next(z) == Or(ij_ip_jp(z), {z})
i_p_ip(z) ==
    UNION {i_p_ip_next(TakeI(z, k, Swapped(mul2_i_ip_p_x(z.in[k].w, z.p.w, z.in[k].b, z.p.a, z.in[k].c)))) :
        k \in Least(z.in, {k \in DOMAIN z.in :
                /\ z.p.a = 1
                /\ z.in[k].a = 0 /\ z.in[k].b > 0 /\ z.in[k].c = 1
                /\ z.in[k].b % z.p.w = 0}, "b")}
x_pq_pq(z) ==
    {TakeP(z, k, mul2_x_pq_pq(z.in[k].w, z.p.w, z.in[k].a, z.in[k].b)) :
        k \in Least(z.in, {k \in DOMAIN z.in :
                /\ z.p.a = 1
                /\ z.in[k].a > 0 /\ z.in[k].b > 0 /\ z.in[k].c = 0
                /\ z.in[k].a % z.p.w = 0 /\ z.in[k].b % z.p.w = 0}, "a")}
x_pq_qp(z) ==
    {TakeP(z, k, mul2_x_pq_qp(z.p.w, z.in[k].w, z.p.a, z.in[k].b)) :
        k \in Least(z.in, {k \in DOMAIN z.in :
                /\ z.in[k].a = 1 /\ z.in[k].b > 0 /\ z.in[k].c = 0
                /\ z.in[k].b % z.p.w = 0}, "b")}
x_p_p_next(z) == Or(i_ip_p(z), Or(i_p_ip(z), Or(x_pq_pq(z), Or(x_pq_qp(z), {z}))))
x_p_p(z) ==
    UNION {x_p_p_next(TakeP(z, k, mul2_x_p_p(z.in[k].w, z.in[k].a, 1))) :
        k \in Least(z.in, {k \in DOMAIN z.in : z.in[k].a > 0 /\ z.in[k].b = 1 /\ z.in[k].c = 0}, "a")}
i_i_i(z) ==
    {TakeI(z, k, mul2_i_i_i_x(z.in[k].w, 1, 1, z.in[k].c)) :
        k \in Least(z.in, {k \in DOMAIN z.in : z.in[k].a = 1 /\ z.in[k].b = 1 /\ z.in[k].c > 0}, "c")}
match_dmul2(z) == Or(i_i_x(z), Or(i_x_i(z), Or(x_p_p(z), Or(i_i_i(z), {z}))))
-----------------------------------------------------------------------------
match(name, loops) ==
    CHOOSE kern \in CASE name = "dcopy" -> match_dcopy(Scalar(loops))
                      [] name = "dadd1" -> match_dadd1(Scalar(loops))
                      [] name = "ddiv1" -> match_ddiv1(Scalar(loops))
                      [] name = "dadd2" -> match_dadd2(Scalar(loops))
                      [] name = "dmul2" -> match_dmul2(Scalar(loops))
                      [] OTHER          -> {Scalar(loops)} : TRUE

(* What a kernel does to an element of the result. *)
Combine(name, a, b, c) ==
    CASE name = "dcopy"    -> a
      [] name = "dadd1"    -> c + a
      [] name = "dmul1"    -> c * a
      [] name = "dmuladd1" -> c + a * c
      [] name = "ddiv1"    -> c \div a
      [] name = "ddivadd1" -> c + c \div a
      [] name = "dmul2"    -> c + a * b
      [] name = "ddiv2"    -> c + a \div b
      [] name = "dadd2"    -> c + a + b

(* run_loop: the remaining loops from the outermost, the kernel within;    *)
(* the pointers r move by the steps. *)
Pointers(r, loops) ==
    FoldLeft(LAMBDA rs, l :
                [x \in 1 .. Len(rs) * l.w |->
                    LET at == rs[((x - 1) \div l.w) + 1]
                        j == (x - 1) % l.w
                    IN  <<at[1] + j * l.a, at[2] + j * l.b, at[3] + j * l.c>>],
             <<r>>, loops)

run(name, kern, r, a, b, c) ==
    FoldLeft(LAMBDA arr, at : [arr EXCEPT ![at[3]] = Combine(name, a[at[1]], b[at[2]], @)],
             c, Pointers(r, kern.in \o kern.la))

loop_list_runner(name, loops, r, a, b, c) == run(name, match(name, loops), r, a, b, c)
=============================================================================
