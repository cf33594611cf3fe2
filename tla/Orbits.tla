------------------------------- MODULE Orbits -------------------------------
(***************************************************************************)
(* The orbit algorithms of libtensor/core that addition_schedule is built  *)
(* from: subgroup_orbits and combined_orbits.  A symmetry group is given   *)
(* by a set of generators, functions on the absolute block indexes Idx     *)
(* (symmetry_element_i::apply).  A vector that is kept sorted and free of  *)
(* duplicates is a set here; its back is the maximum, its front the        *)
(* minimum.  A loop is a recursive function of what it changes.            *)
(***************************************************************************)
EXTENDS Naturals, Sequences, FiniteSetsExt

CONSTANT Idx
ASSUME IdxAssumption == Idx \subseteq Nat /\ IsFiniteSet(Idx)

(* build_orbit: take an index from the queue q, apply every element, queue *)
(* what was not visited (v).  The queue is not sorted; the order of the    *)
(* visits is left open here.                                               *)
Visit(sym, x) ==
    LET i == CHOOSE i \in x.q : TRUE
        new == {g[i] : g \in sym} \ x.v
    IN  [v |-> x.v \cup new, q |-> (x.q \ {i}) \cup new]
build_orbit(sym, i) ==
    LET visit[x \in [v : SUBSET Idx, q : SUBSET Idx]] ==
          IF x.q = {} THEN x.v ELSE visit[Visit(sym, x)]
    IN  visit[[v |-> {i}, q |-> {i}]]

(* The smallest index of each orbit of the subgroup within the set o. *)
PickOne(sym, x) ==
    [rest |-> x.rest \ build_orbit(sym, Min(x.rest)), orb |-> Append(x.orb, Min(x.rest))]
Representatives(sym, o) ==
    LET pick[x \in [rest : SUBSET Idx, orb : Seq(Idx)]] ==
          IF x.rest = {} THEN x.orb ELSE pick[PickOne(sym, x)]
    IN  pick[[rest |-> o, orb |-> <<>>]]

subgroup_orbits(sym1, sym2, i) == Representatives(sym2, build_orbit(sym1, i))

(* One half of the loop body of combined_orbits for one group: take an     *)
(* index from its queue q, and queue the unvisited indexes of its orbit    *)
(* for the other group (queue q2, visited w2).                             *)
BugForgetsQueue(sym, q, q2, w2) ==
    LET o == build_orbit(sym, Max(q))
    IN  IF q = {} THEN [q |-> q, q2 |-> q2, w2 |-> w2]
        ELSE [q |-> q \ o, q2 |-> q2, w2 |-> w2 \cup o]
Half(sym, q, q2, w2) ==
    LET o == build_orbit(sym, Max(q))
    IN  IF q = {} THEN [q |-> q, q2 |-> q2, w2 |-> w2]
        ELSE [q  |-> (q \ {Max(q)}) \ o,
              q2 |-> q2 \cup (o \ w2),
              w2 |-> w2 \cup o]

(* w1 and w2 hold the indexes queued for group 1 and 2 so far. *)
Exchange(sym1, sym2, x) ==
    LET a == Half(sym1, x.q1, x.q2, x.w2)
        b == Half(sym2, a.q2, a.q, x.w1)
    IN  [q1 |-> b.q2, w1 |-> b.w2, q2 |-> b.q, w2 |-> a.w2]
combined_orbits(sym1, sym2, sym3, i) ==
    LET close[x \in [q1 : SUBSET Idx, w1 : SUBSET Idx, q2 : SUBSET Idx, w2 : SUBSET Idx]] ==
          IF x.q1 = {} /\ x.q2 = {} THEN x.w1 ELSE close[Exchange(sym1, sym2, x)]
    IN  Representatives(sym3, close[[q1 |-> {i}, w1 |-> {i}, q2 |-> {}, w2 |-> {}]])

-----------------------------------------------------------------------------
(* What the results should be, by definition. *)

Closed(sym, s) == \A g \in sym, j \in s : g[j] \in s
OrbitOf(sym, i) ==
    {j \in Idx : \A s \in SUBSET Idx : i \in s /\ Closed(sym, s) => j \in s}
Canonical(sym, i) == \A j \in OrbitOf(sym, i) : i <= j
Ascending(s) == \A i, j \in DOMAIN s : i < j => s[i] < s[j]
=============================================================================
