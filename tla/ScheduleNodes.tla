---------------------------- MODULE ScheduleNodes ----------------------------
(***************************************************************************)
(* What an addition schedule is: a collection of groups of nodes.  A node  *)
(* (addition_schedule::node) says that the block cic of C is made from the *)
(* canonical block cia of A (unless zeroa) and the canonical block cib of  *)
(* B (unless zerob).  addition_schedule builds schedules, gen_bto_aux_add  *)
(* consumes them: the formulas below are what the one promises and the     *)
(* other relies on.  The index of an absent block is NoBlock.              *)
(***************************************************************************)
EXTENDS Naturals

NoBlock == 0

Node(Blocks) ==
    {n \in [cic : Blocks, cia : Blocks \cup {NoBlock},
            cib : Blocks \cup {NoBlock}] :
        n.cia # NoBlock \/ n.cib # NoBlock}

zeroa(n) == n.cia = NoBlock
zerob(n) == n.cib = NoBlock

(* A node whose block of C is the canonical block of B itself: nothing     *)
(* needs to be copied to it ("cib == cic").                                *)
OwnsB(n) == n.cib = n.cic

(* The terms a block of C is the sum of: a block of A as it enters the    *)
(* block n.cic, and a block of B.                                          *)
TermA(n) == [of |-> "A", blk |-> n.cia, at |-> n.cic]
TermB(b) == [of |-> "B", blk |-> b, at |-> b]

PartB(n) == IF zerob(n) THEN {} ELSE {TermB(n.cib)}
PartA(n) == IF zeroa(n) THEN {} ELSE {TermA(n)}

(* Every block of C is made by one node of one group. *)
DisjointGroups(groups) ==
    \A g, h \in groups : \A n \in g, m \in h :
        n.cic = m.cic => n = m /\ g = h

(* All the nodes that use one block of A, or one block of B, are in one    *)
(* group.                                                                  *)
UsersTogether(groups) ==
    \A g, h \in groups : \A n \in g, m \in h :
        \/ ~zeroa(n) /\ n.cia = m.cia
        \/ ~zerob(n) /\ n.cib = m.cib
        => g = h

(* The block of B that a node copies is itself made by a node of the same  *)
(* group, the one that owns it.                                            *)
SourceInGroup(groups) ==
    \A g \in groups : \A n \in g :
        ~zerob(n) => \E m \in g : m.cic = n.cib /\ OwnsB(m)

WellFormed(groups) ==
    DisjointGroups(groups) /\ UsersTogether(groups) /\ SourceInGroup(groups)
=============================================================================
