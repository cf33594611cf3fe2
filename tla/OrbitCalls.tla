------------------------------ MODULE OrbitCalls ------------------------------
(***************************************************************************)
(* The orbit algorithms from any index, for any two symmetries and one     *)
(* that both have in common.                                               *)
(***************************************************************************)
EXTENDS Orbits, Functions

CONSTANT Triples    \* <<sym1, sym2, sym3>>

ASSUME TriplesAssumption == \A x \in Triples :
    /\ x[1] \cup x[2] \cup x[3] \subseteq Bijection(Idx, Idx)
    /\ \A i \in Idx : OrbitOf(x[3], i) \subseteq OrbitOf(x[1], i) \cap OrbitOf(x[2], i)

VARIABLE call       \* a triple sym and an index i

OrbitInit == \E x \in Triples, i \in Idx : call = [sym |-> x, i |-> i]
OtherIndex == \E i \in Idx : call' = [call EXCEPT !.i = i]
OrbitSpec == OrbitInit /\ [][OtherIndex]_call
-----------------------------------------------------------------------------
(* The indexes listed by combined_orbits: exactly the canonical indexes of *)
(* the subgroup that both groups together reach, in ascending order        *)
(* ("the output set J is sorted"), from whichever index it starts; and     *)
(* those of subgroup_orbits the same for one group.                        *)
OrbitsComplete ==
    LET both == combined_orbits(call.sym[1], call.sym[2], call.sym[3], call.i)
        one  == subgroup_orbits(call.sym[2], call.sym[3], call.i)
        CanonicalIn(o) == {j \in o : Canonical(call.sym[3], j)}
    IN  /\ Range(both) = CanonicalIn(OrbitOf(call.sym[1] \cup call.sym[2], call.i))
        /\ Range(one) = CanonicalIn(OrbitOf(call.sym[2], call.i))
        /\ Ascending(both) /\ Ascending(one)
=============================================================================
