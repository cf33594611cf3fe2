------------------------------ MODULE MCAuxAdd ------------------------------
EXTENDS AuxAdd, FiniteSets

N(c, a, b) == [cic |-> c, cia |-> a, cib |-> b]

\* Blocks 1, 2, 3 are one orbit of B; block 1 of A enters two of them.
\* Block 5 gets nothing from A, but is touched; blocks 6, 7 are left to
\* close().
MCSchedule ==
    {{N(1, 1, 1), N(2, 1, 1), N(3, 3, 1)},
     {N(4, 4, 4), N(5, NoBlock, 4)},
     {N(6, NoBlock, 6), N(7, NoBlock, 6)}}
=============================================================================
