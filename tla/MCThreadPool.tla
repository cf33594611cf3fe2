---------------------------- MODULE MCThreadPool ----------------------------
(* Small client programs for the thread pool.                              *)
EXTENDS ThreadPool, TLC

CONSTANTS t1, t2, t3, r1, r2, n1

OneRoot == <<r1>>
TwoRoots == <<r1, r2>>

(* The first task of the root makes a nested call. *)
NestTaskSeq == r1 :> <<t1, t2>> @@ n1 :> <<t3>>
LiveTaskSeq == r1 :> <<t1>> @@ n1 :> <<t2>> @@ r2 :> <<t3>>
NestCall == [t \in Task |-> IF t = t1 THEN n1 ELSE NoSource]

UnitCost == [t \in Task |-> 1]
Symmetric == Permutations(Workers)
=============================================================================
