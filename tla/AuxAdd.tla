------------------------------- MODULE AuxAdd -------------------------------
(***************************************************************************)
(* gen_bto_aux_add: the output stream that adds the blocks it is given (A) *)
(* to a block tensor (B, which becomes C).  Tasks of the thread pool call  *)
(* put() concurrently, once for every non-zero canonical block of A.  The  *)
(* first put() into a group of the schedule touches the group: it copies B *)
(* from the blocks that are canonical in B to the blocks that are          *)
(* canonical in C only.  A mutex per group, created locked by the toucher, *)
(* keeps the other put()s into the group out until then.  close() touches  *)
(* the groups that received no block.                                      *)
(*                                                                         *)
(* A block is the set of terms it is the sum of (see BlockSum); the copy   *)
(* of a block takes two steps, the read of the source and the write of the *)
(* target.  Loops over the nodes of a group take them in any order, the    *)
(* order of the list included.                                             *)
(***************************************************************************)
EXTENDS ScheduleNodes, Sequences

CONSTANTS
    Blocks,     \* absolute block indexes
    Schedule,   \* m_asch: a set of groups, each a set of nodes
    Threads,    \* threads that call put()
    MayFail     \* whether put() may throw (out of memory, I/O)

ASSUME BlocksAssumption == Blocks \subseteq Nat \ {NoBlock}
ASSUME ScheduleAssumption ==
    Schedule \subseteq SUBSET Node(Blocks) /\ WellFormed(Schedule)
ASSUME ThreadsAssumption == NoBlock \notin Threads
ASSUME MayFailAssumption == MayFail \in BOOLEAN

VARIABLES
    stream,  \* "new", "open", "closed": m_open and whether it was ever set
    todo,    \* blocks of A that no task has put yet
    grpmap,  \* m_grpmap: block of A -> group number
    grpmtx,  \* m_grpmtx: the thread that holds each group's mutex
    content, \* the block tensor
    th,      \* what each thread does
    failed   \* whether some put() has thrown

vars == <<stream, todo, grpmap, grpmtx, content, th, failed>>

Free == NoBlock
Nodes == UNION Schedule
ABlocks == {n.cia : n \in {m \in Nodes : ~zeroa(m)}}

NoNode == [cic |-> NoBlock, cia |-> NoBlock, cib |-> NoBlock]
NoOne == [at |-> "idle", blk |-> NoBlock, num |-> 0, nodes |-> {},
          node |-> NoNode, src |-> {}]

(* m_schgrp, the table open() prepares: the group a block of A belongs to. *)
GroupOf(a) == CHOOSE g \in Schedule : \E n \in g : n.cia = a

(* The nodes of a group whose block a touch has to copy from B. *)
BugSkipsB(g) == {n \in g : ~zerob(n) /\ ~OwnsB(n) /\ ~zeroa(n)}
ToCopy(g) == {n \in g : ~zerob(n) /\ ~OwnsB(n)}

(* The blocks of A of a group: they all get the group's number at once. *)
BugNumbersOne(a) == {a}
Siblings(a) == {n.cia : n \in {m \in GroupOf(a) : ~zeroa(m)}}

(* The nodes that a block of A is added to. *)
Users(a) == {n \in GroupOf(a) : n.cia = a}

NoNumbers == [a \in {} |-> 0]

Init ==
    /\ stream = "new"
    /\ todo = ABlocks
    /\ grpmap = NoNumbers /\ grpmtx = <<>>
    /\ content = [b \in Blocks |->
          IF \E n \in Nodes : n.cic = b /\ OwnsB(n) THEN {TermB(b)} ELSE {}]
    /\ th = [t \in Threads |-> NoOne]
    /\ failed = FALSE

Open ==
    /\ stream = "new"
    /\ stream' = "open"
    /\ UNCHANGED <<todo, grpmap, grpmtx, content, th, failed>>

-----------------------------------------------------------------------------
(* put() *)

(* The section under m_mtx: the first put() of a group creates the group's *)
(* mutex and locks it.                                                     *)
Put(t) == \E a \in todo :
    /\ stream = "open"
    /\ th[t].at = "idle"
    /\ todo' = todo \ {a}
    /\ \/ /\ a \notin DOMAIN grpmap
          /\ grpmap' = [b \in DOMAIN grpmap \cup Siblings(a) |->
                IF b \in Siblings(a) THEN Len(grpmtx) + 1 ELSE grpmap[b]]
          /\ grpmtx' = Append(grpmtx, t)
          /\ th' = [th EXCEPT ![t] = [NoOne EXCEPT !.at = "touch", !.blk = a,
                       !.num = Len(grpmtx) + 1, !.nodes = ToCopy(GroupOf(a))]]
       \/ /\ a \in DOMAIN grpmap
          /\ th' = [th EXCEPT ![t] = [NoOne EXCEPT !.at = "lock", !.blk = a,
                       !.num = grpmap[a]]]
          /\ UNCHANGED <<grpmap, grpmtx>>
    /\ UNCHANGED <<stream, content, failed>>

(* Touching: req_const_block and the read of the block of B ... *)
TouchRead(t) == \E n \in th[t].nodes :
    /\ th[t].at = "touch"
    /\ th' = [th EXCEPT ![t].at = "copy", ![t].node = n, ![t].src = content[n.cib]]
    /\ UNCHANGED <<stream, todo, grpmap, grpmtx, content, failed>>

(* ... and the write of the block of C. *)
TouchWrite(t) ==
    /\ th[t].at = "copy"
    /\ content' = [content EXCEPT ![th[t].node.cic] = th[t].src]
    /\ th' = [th EXCEPT ![t].at = "touch", ![t].nodes = @ \ {th[t].node},
                        ![t].node = NoNode, ![t].src = {}]
    /\ UNCHANGED <<stream, todo, grpmap, grpmtx, failed>>

(* What the toucher leaves in the mutex. *)
BugKeepsMutex(t) == t
Unlocked(t) == Free

TouchDone(t) ==
    /\ th[t].at = "touch" /\ th[t].nodes = {}
    /\ grpmtx' = [grpmtx EXCEPT ![th[t].num] = Unlocked(t)]
    /\ th' = [th EXCEPT ![t].at = "lock"]
    /\ UNCHANGED <<stream, todo, grpmap, content, failed>>

(* catch(...): the mutex is released, the exception leaves put(). *)
TouchThrows(t) ==
    /\ MayFail
    /\ th[t].at \in {"touch", "copy"} /\ th[t].nodes # {}
    /\ grpmtx' = [grpmtx EXCEPT ![th[t].num] = Unlocked(t)]
    /\ th' = [th EXCEPT ![t] = NoOne]
    /\ failed' = TRUE
    /\ UNCHANGED <<stream, todo, grpmap, content>>

BugIgnoresMutex(t) == TRUE
MayEnter(t) == grpmtx[th[t].num] = Free

(* Adding the block of A to the nodes that use it. *)
Lock(t) ==
    /\ th[t].at = "lock"
    /\ MayEnter(t)
    /\ grpmtx' = [grpmtx EXCEPT ![th[t].num] = t]
    /\ th' = [th EXCEPT ![t].at = "add",
                        ![t].nodes = Users(th[t].blk)]
    /\ UNCHANGED <<stream, todo, grpmap, content, failed>>

(* req_is_zero_block and req_block: an empty block is overwritten, any     *)
(* other is added to.                                                      *)
AddRead(t) == \E n \in th[t].nodes :
    /\ th[t].at = "add"
    /\ th' = [th EXCEPT ![t].at = "write", ![t].node = n, ![t].src = content[n.cic]]
    /\ UNCHANGED <<stream, todo, grpmap, grpmtx, content, failed>>

AddWrite(t) ==
    /\ th[t].at = "write"
    /\ content' = [content EXCEPT
                     ![th[t].node.cic] = th[t].src \cup {TermA(th[t].node)}]
    /\ th' = [th EXCEPT ![t].at = "add", ![t].nodes = @ \ {th[t].node},
                        ![t].node = NoNode, ![t].src = {}]
    /\ UNCHANGED <<stream, todo, grpmap, grpmtx, failed>>

(* The scope of the lock is left, the block of A is lost. *)
AddThrows(t) ==
    /\ MayFail
    /\ th[t].at \in {"add", "write"} /\ th[t].nodes # {}
    /\ grpmtx' = [grpmtx EXCEPT ![th[t].num] = Free]
    /\ th' = [th EXCEPT ![t] = NoOne]
    /\ failed' = TRUE
    /\ UNCHANGED <<stream, todo, grpmap, content>>

PutReturns(t) ==
    /\ th[t].at = "add" /\ th[t].nodes = {}
    /\ grpmtx' = [grpmtx EXCEPT ![th[t].num] = Free]
    /\ th' = [th EXCEPT ![t] = NoOne]
    /\ UNCHANGED <<stream, todo, grpmap, content, failed>>

-----------------------------------------------------------------------------
(* close() *)

(* The group is skipped when one of its blocks of A has been put. *)
Touched(g) == \E n \in g : ~zeroa(n) /\ n.cia \in DOMAIN grpmap

(* Called when all put()s have returned, also by the destructor after one  *)
(* of them has thrown.  Blocks that are copied from are never copied to,   *)
(* so the order does not matter.                                           *)
Close ==
    /\ stream = "open"
    /\ \A t \in Threads : th[t].at = "idle"
    /\ todo = {} \/ failed
    /\ LET late == UNION {ToCopy(g) : g \in {h \in Schedule : ~Touched(h)}}
       IN  content' = [b \in Blocks |->
              IF \E n \in late : n.cic = b
              THEN content[(CHOOSE n \in late : n.cic = b).cib]
              ELSE content[b]]
    /\ grpmap' = NoNumbers /\ grpmtx' = <<>>
    /\ stream' = "closed"
    /\ UNCHANGED <<todo, th, failed>>

Step(t) ==
    \/ TouchRead(t) \/ TouchWrite(t) \/ TouchDone(t) \/ TouchThrows(t)
    \/ Lock(t) \/ AddRead(t) \/ AddWrite(t) \/ AddThrows(t) \/ PutReturns(t)

Done == stream = "closed" /\ UNCHANGED vars

Next == Open \/ Close \/ Done \/ \E t \in Threads : Put(t) \/ Step(t)

Spec == Init /\ [][Next]_vars

(* Threads run.  Weak fairness is enough for the mutexes: put() is called  *)
(* once per block, so each mutex is taken finitely often.                  *)
FairSpec ==
    /\ Spec
    /\ WF_vars(Open) /\ WF_vars(Close) /\ WF_vars(\E t \in Threads : Put(t))
    /\ \A t \in Threads : WF_vars(Step(t))

-----------------------------------------------------------------------------
Terms == [of : {"A", "B"}, blk : Blocks \cup {NoBlock}, at : Blocks]

ThreadState ==
    [at : {"idle", "touch", "copy", "lock", "add", "write"},
     blk : ABlocks \cup {NoBlock}, num : Nat, nodes : SUBSET Nodes,
     node : Nodes \cup {NoNode}, src : SUBSET Terms]

TypeOK ==
    /\ stream \in {"new", "open", "closed"}
    /\ todo \subseteq ABlocks
    /\ DOMAIN grpmap \subseteq ABlocks
    /\ \A a \in DOMAIN grpmap : grpmap[a] \in 1..Len(grpmtx)
    /\ grpmtx \in Seq(Threads \cup {Free})
    /\ content \in [Blocks -> SUBSET Terms]
    /\ th \in [Threads -> ThreadState]
    /\ failed \in BOOLEAN

Inside(t) == th[t].at \in {"touch", "copy", "add", "write"}

(* "Touch the group if necessary; group mutex is locked already": two      *)
(* threads never work on the blocks of one group at the same time, the     *)
(* toucher and the first add included.                                     *)
GroupExclusive ==
    \A t, u \in Threads :
        Inside(t) /\ Inside(u) /\ GroupOf(th[t].blk) = GroupOf(th[u].blk) => t = u

(* A block of B is copied before anything is added to it, although its     *)
(* owner's block is overwritten with the sum by another put().             *)
ReadsPlainB ==
    \A t \in Threads : th[t].at = "copy" => th[t].src = {TermB(th[t].node.cib)}

(* No contribution is lost, and none enters a block twice: when the stream *)
(* is closed, every block that a node makes is the sum of exactly the      *)
(* terms the node names.                                                   *)
SumComplete ==
    stream = "closed" /\ ~failed =>
        \A n \in Nodes : content[n.cic] = PartB(n) \cup PartA(n)

(* The nodes whose block still lacks its part of B. *)
Untouched(n) ==
    /\ ~zerob(n) /\ ~OwnsB(n)
    /\ \/ \E t \in Threads : th[t].at \in {"touch", "copy"} /\ n \in th[t].nodes
       \/ \A g \in Schedule : n \in g => ~Touched(g) /\ stream # "closed"

Sum == INSTANCE BlockSum WITH
    sum <- [n \in Nodes |-> IF Untouched(n) THEN PartB(n) ELSE content[n.cic]],
    closed <- stream = "closed"

(* The stream implements the addition of one term after another to blocks  *)
(* that hold B from the start, until a put() throws.                       *)
SumSpec == Sum!Spec

(* Every put() returns and the stream is closed, also when touching fails: *)
(* the mutex that the toucher holds is released on each path.              *)
Closes == <>(stream = "closed")
=============================================================================
