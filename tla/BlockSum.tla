------------------------------ MODULE BlockSum ------------------------------
(***************************************************************************)
(* What gen_bto_aux_add promises (gen_block_stream_i): after open, blocks  *)
(* of A arrive in any order and from any thread, and are added one by one  *)
(* to blocks of C that already hold B; when the stream is closed every     *)
(* block of C is the complete sum.  Content is the set of terms a block is *)
(* the sum of.                                                             *)
(***************************************************************************)
EXTENDS ScheduleNodes

CONSTANT Nodes  \* the nodes of all groups of the schedule

VARIABLES sum, closed,
          failed  \* some put() has thrown: nothing is promised any more

Init ==
    /\ sum = [n \in Nodes |-> PartB(n)]
    /\ closed = FALSE
    /\ failed = FALSE

AddTerm(n) ==
    /\ ~closed
    /\ sum[n] = PartB(n) /\ PartA(n) # {}
    /\ sum' = [sum EXCEPT ![n] = PartB(n) \cup PartA(n)]
    /\ UNCHANGED closed

Close ==
    /\ ~closed
    /\ \A n \in Nodes : sum[n] = PartB(n) \cup PartA(n)
    /\ closed' = TRUE
    /\ UNCHANGED sum

Next == \/ ~failed /\ (Close \/ \E n \in Nodes : AddTerm(n)) /\ UNCHANGED failed
        \/ failed'
Spec == Init /\ [][Next]_<<sum, closed, failed>>
=============================================================================
