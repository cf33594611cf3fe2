------------------------- MODULE MCAdditionSchedule -------------------------
(* Blocks 1 to 4 are one combined orbit, which neither group connects; A   *)
(* and B share the symmetry of 3 and 4; 5 and 6 are related in B only.     *)
EXTENDS AdditionSchedule

Swap(i, j) == [k \in Idx |-> IF k = i THEN j ELSE IF k = j THEN i ELSE k]

MCSymA == {Swap(1, 2), Swap(3, 4)}
MCSymB == {Swap(2, 3), Swap(3, 4), Swap(5, 6)}
MCSymC == {Swap(3, 4)}
=============================================================================
