---------------------------- MODULE AuxAdd_proofs ----------------------------
(***************************************************************************)
(* The safety of gen_bto_aux_add for every schedule that is well formed,   *)
(* any number of threads, and whether or not touching fails.               *)
(***************************************************************************)
EXTENDS AuxAdd, TLAPS

(* What a thread inside put() relies on. *)
ThreadOK(t) ==
    /\ th[t].at # "idle" =>
          th[t].blk \in DOMAIN grpmap /\ th[t].num = grpmap[th[t].blk]
    /\ Inside(t) => grpmtx[th[t].num] = t
    /\ th[t].at \in {"touch", "copy"} => th[t].nodes \subseteq ToCopy(GroupOf(th[t].blk))
    /\ th[t].at \in {"add", "write"} => th[t].nodes \subseteq Users(th[t].blk)
    /\ th[t].at \in {"copy", "write"} => th[t].node \in th[t].nodes

(* One number per group, and all the blocks of A of a group have it. *)
Numbers ==
    /\ \A a, b \in DOMAIN grpmap : grpmap[a] = grpmap[b] <=> GroupOf(a) = GroupOf(b)
    /\ \A a \in DOMAIN grpmap, b \in ABlocks :
          GroupOf(a) = GroupOf(b) => b \in DOMAIN grpmap

LockInv ==
    /\ TypeOK
    /\ Numbers
    /\ \A t \in Threads : ThreadOK(t)

(* What a block holds: never a term its node does not name; the block that *)
(* B owns keeps its part of B; and nothing is added to the blocks of a     *)
(* group before the group is touched.                                      *)
Adding(t, n) ==
    /\ th[t].blk = n.cia
    /\ \/ th[t].at \in {"touch", "copy", "lock"}
       \/ th[t].at \in {"add", "write"} /\ n \in th[t].nodes

Content ==
    /\ \A n \in Nodes : content[n.cic] \subseteq PartB(n) \cup PartA(n)
    /\ \A n \in Nodes : OwnsB(n) => PartB(n) \subseteq content[n.cic]
    /\ \A n \in Nodes : TermA(n) \in content[n.cic] /\ stream # "closed" =>
          n.cia \in DOMAIN grpmap \/ zeroa(n)
    /\ \A t \in Threads : \A n \in GroupOf(th[t].blk) :
          th[t].at \in {"touch", "copy"} => TermA(n) \notin content[n.cic]

(* What a thread has read is still there. *)
Reads ==
    \A t \in Threads :
        /\ th[t].at = "copy" => th[t].src = content[th[t].node.cib]
        /\ th[t].at = "write" => th[t].src = content[th[t].node.cic]

(* Without failures, what is missing from a block is somebody's work. *)
Complete ==
    ~failed =>
        /\ \A n \in Nodes : Untouched(n) \/ PartB(n) \subseteq content[n.cic]
        /\ \A n \in Nodes : ~zeroa(n) =>
              \/ TermA(n) \in content[n.cic]
              \/ n.cia \in todo
              \/ \E t \in Threads : Adding(t, n)
        /\ stream = "closed" => todo = {}

Quiet == stream # "open" => \A t \in Threads : th[t].at = "idle"

SumInv == Content /\ Reads /\ Complete /\ Quiet

-----------------------------------------------------------------------------
(* The schedule. *)

(* The fields of a node.                                                   *)
LEMMA NodeType ==
    ASSUME NEW n \in Nodes
    PROVE  /\ n = [cic |-> n.cic, cia |-> n.cia, cib |-> n.cib]
           /\ n.cic \in Blocks /\ n.cia \in Blocks \cup {NoBlock}
           /\ n.cib \in Blocks \cup {NoBlock}
  BY ScheduleAssumption DEF Nodes, Node

(* open() finds for a block of A the one group that uses it. *)
LEMMA GroupOfUser ==
    ASSUME NEW g \in Schedule, NEW n \in g, ~zeroa(n)
    PROVE  n.cia \in ABlocks /\ GroupOf(n.cia) = g
<1>1. n \in Nodes
  BY DEF Nodes
<1>2. n.cia \in ABlocks
  BY <1>1 DEF ABlocks
<1>3. \E h \in Schedule : \E m \in h : m.cia = n.cia
  OBVIOUS
<1>4. GroupOf(n.cia) \in Schedule /\ \E m \in GroupOf(n.cia) : m.cia = n.cia
  BY <1>3 DEF GroupOf
<1>5. PICK m \in GroupOf(n.cia) : m.cia = n.cia
  BY <1>4
<1>6. GroupOf(n.cia) = g
  BY <1>4, <1>5, ScheduleAssumption DEF WellFormed, UsersTogether
<1> QED
  BY <1>2, <1>6

(* A block of A that is put has its group.                                 *)
LEMMA GroupOfBlock ==
    ASSUME NEW a \in ABlocks
    PROVE  /\ a \in Blocks
           /\ GroupOf(a) \in Schedule
           /\ a \in Siblings(a)
           /\ \A b \in Siblings(a) : b \in ABlocks /\ GroupOf(b) = GroupOf(a)
           /\ \A b \in ABlocks : GroupOf(b) = GroupOf(a) => b \in Siblings(a)
<1>1. PICK n \in Nodes : ~zeroa(n) /\ n.cia = a
  BY DEF ABlocks
<1>2. PICK g \in Schedule : n \in g
  BY DEF Nodes
<1>3. GroupOf(a) = g
  BY <1>1, <1>2, GroupOfUser
<1>4. a \in Siblings(a)
  BY <1>1, <1>2, <1>3 DEF Siblings
<1>5. ASSUME NEW b \in Siblings(a)
      PROVE  b \in ABlocks /\ GroupOf(b) = GroupOf(a)
  BY <1>2, <1>3, GroupOfUser DEF Siblings
<1>6. ASSUME NEW b \in ABlocks, GroupOf(b) = g
      PROVE  b \in Siblings(a)
  <2>1. PICK m \in Nodes : ~zeroa(m) /\ m.cia = b
    BY DEF ABlocks
  <2>2. PICK h \in Schedule : m \in h
    BY DEF Nodes
  <2>3. h = g
    BY <1>6, <2>1, <2>2, GroupOfUser
  <2> QED
    BY <1>3, <2>1, <2>2, <2>3 DEF Siblings
<1>7. a \in Blocks
  BY <1>1, NodeType DEF zeroa
<1> QED
  BY <1>2, <1>3, <1>4, <1>5, <1>6, <1>7

-----------------------------------------------------------------------------
(* Locks. *)

(* At first nobody is in a group.                                          *)
LEMMA LockInit == Init => LockInv
<1> SUFFICES ASSUME Init PROVE LockInv
  OBVIOUS
<1> USE DEF Init
<1>1. NoNode \in Nodes \cup {NoNode} /\ NoOne \in ThreadState
  BY DEF NoOne, ThreadState, NoBlock
<1>2. \A n \in Nodes : OwnsB(n) => TermB(n.cic) \in Terms
  BY NodeType DEF TermB, Terms
<1>3. TypeOK
  <2>1. DOMAIN grpmap = {}
    BY DEF NoNumbers
  <2>2. content \in [Blocks -> SUBSET Terms]
    BY <1>2
  <2>3. th \in [Threads -> ThreadState]
    BY <1>1
  <2>4. grpmtx \in Seq(Threads \cup {Free})
    OBVIOUS
  <2>5. /\ stream \in {"new", "open", "closed"} /\ failed \in BOOLEAN
        /\ todo \subseteq ABlocks /\ DOMAIN grpmap \subseteq ABlocks
        /\ \A a \in DOMAIN grpmap : grpmap[a] \in 1..Len(grpmtx)
    BY <2>1
  <2> QED
    BY <2>2, <2>3, <2>4, <2>5 DEF TypeOK
<1>4. Numbers
  BY DEF Numbers, NoNumbers
<1>5. \A t \in Threads : ThreadOK(t)
  BY DEF ThreadOK, NoOne, Inside
<1> QED
  BY <1>3, <1>4, <1>5 DEF LockInv

(* The first put() of a group makes its mutex and goes in, later ones wait *)
(* for it.                                                                 *)
LEMMA LockPut ==
    ASSUME LockInv, NEW t \in Threads, Put(t)
    PROVE  LockInv'
<1> USE DEF LockInv
<1>1. PICK a \in todo : Put(t)!(a)
  BY DEF Put
<1>2. a \in ABlocks
  BY <1>1 DEF TypeOK
<1>3. CASE a \notin DOMAIN grpmap
  <2> DEFINE k == Len(grpmtx) + 1
  <2>1. /\ grpmap' = [b \in DOMAIN grpmap \cup Siblings(a) |->
                        IF b \in Siblings(a) THEN k ELSE grpmap[b]]
        /\ grpmtx' = Append(grpmtx, t)
        /\ th' = [th EXCEPT ![t] = [NoOne EXCEPT !.at = "touch", !.blk = a,
                    !.num = k, !.nodes = ToCopy(GroupOf(a))]]
        /\ todo' = todo \ {a}
        /\ UNCHANGED <<stream, content, failed>>
    BY <1>1, <1>3
  <2>2. k \in Nat /\ \A b \in DOMAIN grpmap : grpmap[b] # k /\ grpmap[b] \in 1..Len(grpmtx)
    BY DEF TypeOK
  <2>3. /\ grpmtx' \in Seq(Threads \cup {Free})
        /\ Len(grpmtx') = k
        /\ grpmtx'[k] = t
        /\ \A i \in 1..Len(grpmtx) : grpmtx'[i] = grpmtx[i]
    BY <2>1 DEF TypeOK
  <2>4. \A b \in Siblings(a) : b \notin DOMAIN grpmap
    BY <1>2, <1>3, GroupOfBlock DEF Numbers, TypeOK
  <2>5. ToCopy(GroupOf(a)) \in SUBSET Nodes
    BY <1>2, GroupOfBlock DEF ToCopy, Nodes
  <2>6. TypeOK'
    <3>1. th' \in [Threads -> ThreadState]
      BY <1>2, <2>1, <2>2, <2>5 DEF TypeOK, ThreadState, NoOne
    <3>2. DOMAIN grpmap' \subseteq ABlocks /\ \A b \in DOMAIN grpmap' : grpmap'[b] \in 1..Len(grpmtx')
      BY <1>2, <2>1, <2>2, <2>3, GroupOfBlock DEF TypeOK
    <3> QED
      BY <2>1, <2>3, <3>1, <3>2 DEF TypeOK
  <2>7. Numbers'
    BY <1>2, <2>1, <2>2, <2>4, GroupOfBlock DEF Numbers, TypeOK
  <2>8. ASSUME NEW u \in Threads PROVE ThreadOK(u)'
    <3>1. CASE u = t
      <4>1. th'[t] = [NoOne EXCEPT !.at = "touch", !.blk = a,
                    !.num = k, !.nodes = ToCopy(GroupOf(a))]
        BY <2>1 DEF TypeOK
      <4>2. grpmap'[a] = k /\ a \in DOMAIN grpmap'
        BY <1>2, <2>1, GroupOfBlock
      <4> QED
        BY <2>3, <3>1, <4>1, <4>2 DEF ThreadOK, Inside, NoOne
    <3>2. CASE u # t
      <4>1. th'[u] = th[u]
        BY <2>1, <3>2 DEF TypeOK
      <4>2. th[u].blk \in DOMAIN grpmap => th[u].blk \in DOMAIN grpmap' /\ grpmap'[th[u].blk] = grpmap[th[u].blk]
        BY <2>1, <2>4
      <4> QED
        BY <2>2, <2>3, <3>2, <4>1, <4>2 DEF ThreadOK, Inside
    <3> QED
      BY <3>1, <3>2
  <2> QED
    BY <2>6, <2>7, <2>8
<1>4. CASE a \in DOMAIN grpmap
  <2>1. /\ th' = [th EXCEPT ![t] = [NoOne EXCEPT !.at = "lock", !.blk = a,
                       !.num = grpmap[a]]]
        /\ todo' = todo \ {a}
        /\ UNCHANGED <<stream, grpmap, grpmtx, content, failed>>
    BY <1>1, <1>4
  <2>2. TypeOK'
    <3>1. grpmap[a] \in Nat
      BY <1>4 DEF TypeOK
    <3> QED
      BY <1>2, <2>1, <3>1 DEF TypeOK, ThreadState, NoOne
  <2>3. \A u \in Threads : ThreadOK(u)'
    BY <1>4, <2>1 DEF TypeOK, ThreadOK, Inside, NoOne
  <2> QED
    BY <2>1, <2>2, <2>3 DEF Numbers
<1> QED
  BY <1>3, <1>4

(* The steps that move one thread on and leave the numbers alone. *)
LEMMA LockStep ==
    ASSUME LockInv, NEW t \in Threads, Step(t)
    PROVE  LockInv'
<1> USE DEF LockInv
<1>1. UNCHANGED <<stream, todo, grpmap>>
  BY DEF Step, TouchRead, TouchWrite, TouchDone, TouchThrows, AddThrows, Lock, AddRead, AddWrite, PutReturns
<1>2. Numbers'
  BY <1>1 DEF Numbers
<1>3. /\ th[t] \in ThreadState
      /\ \A u \in Threads : th[u].at # "idle" =>
            /\ th[u].num \in 1..Len(grpmtx) /\ th[u].blk \in ABlocks
            /\ GroupOf(th[u].blk) \in Schedule
  BY GroupOfBlock DEF TypeOK, ThreadOK
<1>4. ASSUME NEW n \in th[t].nodes
      PROVE  n \in Nodes
  BY <1>3 DEF ThreadState
<1>5. CASE TouchRead(t)
  <2>1. PICK n \in th[t].nodes :
          th' = [th EXCEPT ![t].at = "copy", ![t].node = n, ![t].src = content[n.cib]]
    BY <1>5 DEF TouchRead
  <2>2. n \in Nodes /\ n.cib \in Blocks
    BY <1>4, <1>5, <2>1, NodeType DEF TouchRead, ThreadOK, ToCopy, zerob
  <2>3. content[n.cib] \in SUBSET Terms
    BY <2>2 DEF TypeOK
  <2>4. TypeOK'
    <3>1. th' \in [Threads -> ThreadState]
      BY <1>3, <2>1, <2>2, <2>3 DEF TypeOK, ThreadState
    <3>2. UNCHANGED <<stream, todo, grpmap, grpmtx, content, failed>>
      BY <1>5 DEF TouchRead
    <3> QED
      BY <3>1, <3>2 DEF TypeOK
  <2>5. ASSUME NEW u \in Threads PROVE ThreadOK(u)'
    <3>1. CASE u = t
      <4>1. /\ th[t].at = "touch" /\ th'[t].at = "copy" /\ th'[t].node \in th[t].nodes
            /\ th'[t].blk = th[t].blk /\ th'[t].num = th[t].num
            /\ th'[t].nodes = th[t].nodes
        BY <1>3, <1>5, <2>1 DEF TouchRead, TypeOK, ThreadState
      <4>2. UNCHANGED <<grpmap, grpmtx>>
        BY <1>5 DEF TouchRead
      <4> QED
        BY <3>1, <4>1, <4>2 DEF ThreadOK, Inside
    <3>2. CASE u # t
      BY <1>1, <1>3, <1>5, <2>1, <3>2 DEF TouchRead, TypeOK, ThreadOK, Inside, ThreadState
    <3> QED
      BY <3>1, <3>2
  <2> QED
    BY <1>2, <2>4, <2>5
<1>6. CASE TouchWrite(t)
  <2>1. th[t].node \in Nodes /\ th[t].src \in SUBSET Terms
    BY <1>3, <1>4, <1>6 DEF TouchWrite, ThreadOK, ThreadState
  <2>2. content' \in [Blocks -> SUBSET Terms]
    BY <1>6, <2>1 DEF TouchWrite, TypeOK
  <2>3. th' \in [Threads -> ThreadState]
    <3>1. th' = [th EXCEPT ![t].at = "touch", ![t].nodes = @ \ {th[t].node},
                           ![t].node = NoNode, ![t].src = {}]
      BY <1>6 DEF TouchWrite
    <3>2. th[t].nodes \ {th[t].node} \in SUBSET Nodes
      BY <1>4
    <3> QED
      BY <1>3, <3>1, <3>2 DEF TypeOK, ThreadState
  <2>4. TypeOK'
    BY <1>1, <1>6, <2>2, <2>3 DEF TouchWrite, TypeOK
  <2>5. ASSUME NEW u \in Threads PROVE ThreadOK(u)'
    <3>1. CASE u = t
      BY <1>1, <1>3, <1>6, <3>1 DEF TouchWrite, TypeOK, ThreadOK, Inside, ThreadState
    <3>2. CASE u # t
      BY <1>1, <1>3, <1>6, <3>2 DEF TouchWrite, TypeOK, ThreadOK, Inside, ThreadState
    <3> QED
      BY <3>1, <3>2
  <2> QED
    BY <1>2, <2>4, <2>5
<1>7. CASE TouchDone(t)
  <2>1. th' \in [Threads -> ThreadState]
    BY <1>3, <1>7 DEF TouchDone, TypeOK, ThreadState
  <2>2. grpmtx' \in Seq(Threads \cup {Free}) /\ Len(grpmtx') = Len(grpmtx)
    BY <1>3, <1>7 DEF TouchDone, TypeOK, Unlocked
  <2>3. TypeOK'
    BY <1>1, <1>7, <2>1, <2>2 DEF TouchDone, TypeOK
  <2>4. ASSUME NEW u \in Threads PROVE ThreadOK(u)'
    <3>1. CASE u = t
      BY <1>1, <1>3, <1>7, <3>1 DEF TouchDone, TypeOK, ThreadOK, Inside, ThreadState
    <3>2. CASE u # t
      BY <1>1, <1>3, <1>7, <3>2 DEF TouchDone, TypeOK, ThreadOK, Inside, ThreadState
    <3> QED
      BY <3>1, <3>2
  <2> QED
    BY <1>2, <2>3, <2>4
<1>8. CASE TouchThrows(t)
  <2>1. th' \in [Threads -> ThreadState]
    BY <1>3, <1>8 DEF TouchThrows, TypeOK, ThreadState, NoOne
  <2>2. grpmtx' \in Seq(Threads \cup {Free}) /\ Len(grpmtx') = Len(grpmtx)
    BY <1>3, <1>8 DEF TouchThrows, TypeOK, Unlocked
  <2>3. TypeOK'
    BY <1>1, <1>8, <2>1, <2>2 DEF TouchThrows, TypeOK
  <2>4. ASSUME NEW u \in Threads PROVE ThreadOK(u)'
    <3>1. CASE u = t
      BY <1>1, <1>3, <1>8, <3>1 DEF TouchThrows, TypeOK, ThreadOK, Inside, NoOne
    <3>2. CASE u # t
      BY <1>1, <1>3, <1>8, <3>2 DEF TouchThrows, TypeOK, ThreadOK, Inside, ThreadState
    <3> QED
      BY <3>1, <3>2
  <2> QED
    BY <1>2, <2>3, <2>4
<1>9. CASE Lock(t)
  <2>1. Users(th[t].blk) \in SUBSET Nodes
    BY <1>3, <1>9 DEF Lock, Users, Nodes
  <2>2. th' \in [Threads -> ThreadState]
    BY <1>3, <1>9, <2>1 DEF Lock, TypeOK, ThreadState
  <2>3. grpmtx' \in Seq(Threads \cup {Free}) /\ Len(grpmtx') = Len(grpmtx)
    BY <1>3, <1>9 DEF Lock, TypeOK
  <2>4. TypeOK'
    BY <1>1, <1>9, <2>2, <2>3 DEF Lock, TypeOK
  <2>5. ASSUME NEW u \in Threads PROVE ThreadOK(u)'
    <3>1. CASE u = t
      BY <1>1, <1>3, <1>9, <3>1 DEF Lock, TypeOK, ThreadOK, Inside, ThreadState
    <3>2. CASE u # t
      BY <1>1, <1>3, <1>9, <3>2, ThreadsAssumption DEF Lock, MayEnter, TypeOK, ThreadOK, Inside, ThreadState, Free
    <3> QED
      BY <3>1, <3>2
  <2> QED
    BY <1>2, <2>4, <2>5
<1>10. CASE AddRead(t)
  <2>1. PICK n \in th[t].nodes :
          th' = [th EXCEPT ![t].at = "write", ![t].node = n, ![t].src = content[n.cic]]
    BY <1>10 DEF AddRead
  <2>2. n \in Nodes /\ content[n.cic] \in SUBSET Terms
    BY <1>4, <2>1, NodeType DEF TypeOK
  <2>3. TypeOK'
    <3>1. th' \in [Threads -> ThreadState]
      BY <1>3, <2>1, <2>2 DEF TypeOK, ThreadState
    <3>2. UNCHANGED <<stream, todo, grpmap, grpmtx, content, failed>>
      BY <1>10 DEF AddRead
    <3> QED
      BY <3>1, <3>2 DEF TypeOK
  <2>4. ASSUME NEW u \in Threads PROVE ThreadOK(u)'
    <3>1. CASE u = t
      <4>1. /\ th[t].at = "add" /\ th'[t].at = "write" /\ th'[t].node \in th[t].nodes
            /\ th'[t].blk = th[t].blk /\ th'[t].num = th[t].num
            /\ th'[t].nodes = th[t].nodes
        BY <1>3, <1>10, <2>1 DEF AddRead, TypeOK, ThreadState
      <4>2. UNCHANGED <<grpmap, grpmtx>>
        BY <1>10 DEF AddRead
      <4> QED
        BY <3>1, <4>1, <4>2 DEF ThreadOK, Inside
    <3>2. CASE u # t
      BY <1>1, <1>3, <1>10, <2>1, <3>2 DEF AddRead, TypeOK, ThreadOK, Inside, ThreadState
    <3> QED
      BY <3>1, <3>2
  <2> QED
    BY <1>2, <2>3, <2>4
<1>11. CASE AddWrite(t)
  <2>1. th[t].node \in Nodes /\ th[t].src \in SUBSET Terms
    BY <1>3, <1>4, <1>11 DEF AddWrite, ThreadOK, ThreadState
  <2>2. TermA(th[t].node) \in Terms
    BY <2>1, NodeType DEF TermA, Terms
  <2>3. content' \in [Blocks -> SUBSET Terms]
    BY <1>11, <2>1, <2>2 DEF AddWrite, TypeOK
  <2>4. th' \in [Threads -> ThreadState]
    <3>1. th' = [th EXCEPT ![t].at = "add", ![t].nodes = @ \ {th[t].node},
                           ![t].node = NoNode, ![t].src = {}]
      BY <1>11 DEF AddWrite
    <3>2. th[t].nodes \ {th[t].node} \in SUBSET Nodes
      BY <1>4
    <3> QED
      BY <1>3, <3>1, <3>2 DEF TypeOK, ThreadState
  <2>5. TypeOK'
    BY <1>1, <1>11, <2>3, <2>4 DEF AddWrite, TypeOK
  <2>6. ASSUME NEW u \in Threads PROVE ThreadOK(u)'
    <3>1. CASE u = t
      BY <1>1, <1>3, <1>11, <3>1 DEF AddWrite, TypeOK, ThreadOK, Inside, ThreadState
    <3>2. CASE u # t
      BY <1>1, <1>3, <1>11, <3>2 DEF AddWrite, TypeOK, ThreadOK, Inside, ThreadState
    <3> QED
      BY <3>1, <3>2
  <2> QED
    BY <1>2, <2>5, <2>6
<1>12. CASE PutReturns(t)
  <2>1. th' \in [Threads -> ThreadState]
    BY <1>3, <1>12 DEF PutReturns, TypeOK, ThreadState, NoOne
  <2>2. grpmtx' \in Seq(Threads \cup {Free}) /\ Len(grpmtx') = Len(grpmtx)
    BY <1>3, <1>12 DEF PutReturns, TypeOK
  <2>3. TypeOK'
    BY <1>1, <1>12, <2>1, <2>2 DEF PutReturns, TypeOK
  <2>4. ASSUME NEW u \in Threads PROVE ThreadOK(u)'
    <3>1. CASE u = t
      BY <1>1, <1>3, <1>12, <3>1 DEF PutReturns, TypeOK, ThreadOK, Inside, NoOne
    <3>2. CASE u # t
      BY <1>1, <1>3, <1>12, <3>2 DEF PutReturns, TypeOK, ThreadOK, Inside, ThreadState
    <3> QED
      BY <3>1, <3>2
  <2> QED
    BY <1>2, <2>3, <2>4
<1>13. CASE AddThrows(t)
  <2>1. th' \in [Threads -> ThreadState]
    BY <1>3, <1>13 DEF AddThrows, TypeOK, ThreadState, NoOne
  <2>2. grpmtx' \in Seq(Threads \cup {Free}) /\ Len(grpmtx') = Len(grpmtx)
    BY <1>3, <1>13 DEF AddThrows, TypeOK
  <2>3. TypeOK'
    BY <1>1, <1>13, <2>1, <2>2 DEF AddThrows, TypeOK
  <2>4. ASSUME NEW u \in Threads PROVE ThreadOK(u)'
    <3>1. CASE u = t
      BY <1>1, <1>3, <1>13, <3>1 DEF AddThrows, TypeOK, ThreadOK, Inside, NoOne
    <3>2. CASE u # t
      BY <1>1, <1>3, <1>13, <3>2 DEF AddThrows, TypeOK, ThreadOK, Inside, ThreadState
    <3> QED
      BY <3>1, <3>2
  <2> QED
    BY <1>2, <2>3, <2>4
<1> QED
  BY <1>5, <1>6, <1>7, <1>8, <1>9, <1>10, <1>11, <1>12, <1>13 DEF Step

(* Every step keeps the order of the threads in a group.                   *)
LEMMA LockNext == LockInv /\ [Next]_vars => LockInv'
<1> SUFFICES ASSUME LockInv, [Next]_vars PROVE LockInv'
  OBVIOUS
<1> USE DEF LockInv
<1>1. CASE Open
  BY <1>1 DEF Open, TypeOK, Numbers, ThreadOK, Inside
<1>2. ASSUME NEW t \in Threads, Put(t) PROVE LockInv'
  BY <1>2, LockPut
<1>3. ASSUME NEW t \in Threads, Step(t) PROVE LockInv'
  BY <1>3, LockStep
<1>4. CASE Close
  <2>1. DOMAIN grpmap' = {} /\ grpmtx' = <<>>
    BY <1>4 DEF Close, NoNumbers
  <2>2. content' \in [Blocks -> SUBSET Terms]
    <3> DEFINE late == UNION {ToCopy(g) : g \in {h \in Schedule : ~Touched(h)}}
               source(b) == (CHOOSE n \in late : n.cic = b).cib
    <3>1. content' = [b \in Blocks |-> IF \E n \in late : n.cic = b
                        THEN content[source(b)] ELSE content[b]]
      BY <1>4 DEF Close
    <3>2. ASSUME NEW b \in Blocks, \E n \in late : n.cic = b
          PROVE  source(b) \in Blocks
      <4>1. PICK n \in late : n = CHOOSE m \in late : m.cic = b
        BY <3>2
      <4>2. n \in Nodes /\ ~zerob(n)
        BY DEF ToCopy, Nodes
      <4> QED
        BY <4>1, <4>2, NodeType DEF zerob
    <3> HIDE DEF late, source
    <3> QED
      BY <3>1, <3>2 DEF TypeOK
  <2>3. grpmtx' \in Seq(Threads \cup {Free})
    BY <2>1
  <2>4. TypeOK'
    BY <1>4, <2>1, <2>2, <2>3 DEF Close, TypeOK
  <2>5. Numbers'
    BY <2>1 DEF Numbers
  <2>6. \A u \in Threads : ThreadOK(u)'
    BY <1>4 DEF Close, ThreadOK, Inside
  <2> QED
    BY <2>4, <2>5, <2>6
<1>5. CASE UNCHANGED vars
  BY <1>5 DEF vars, TypeOK, Numbers, ThreadOK, Inside
<1> QED
  BY <1>1, <1>2, <1>3, <1>4, <1>5 DEF Next, Done

(* The variables have their types, in every state of every instance. *)
THEOREM TypeCorrect == Spec => []TypeOK
<1>1. LockInv => TypeOK
  BY DEF LockInv
<1> QED
  BY LockInit, LockNext, <1>1, PTL DEF Spec

(* The mutexes of gen_bto_aux_add keep two threads from working on the     *)
(* blocks of one group at the same time: the number a thread got under     *)
(* m_mtx names the mutex of its group, and whoever is inside holds it.     *)
LEMMA Exclusive == LockInv => GroupExclusive
<1> SUFFICES ASSUME LockInv, NEW t \in Threads, NEW u \in Threads,
                    Inside(t), Inside(u), GroupOf(th[t].blk) = GroupOf(th[u].blk)
             PROVE  t = u
  BY DEF GroupExclusive
<1>1. th[t].blk \in DOMAIN grpmap /\ th[u].blk \in DOMAIN grpmap
  BY DEF LockInv, ThreadOK, Inside
<1>2. th[t].num = th[u].num
  BY <1>1 DEF LockInv, ThreadOK, Inside, Numbers
<1> QED
  BY <1>2 DEF LockInv, ThreadOK

(* gen_bto_aux_add: the lock of a group lets one put() at a time into its  *)
(* blocks.                                                                 *)
THEOREM MutualExclusion == Spec => []GroupExclusive
BY LockInit, LockNext, Exclusive, PTL DEF Spec

-----------------------------------------------------------------------------
(* Contents. *)

(* A block of C has one node.                                              *)
LEMMA NodeUnique ==
    ASSUME NEW n \in Nodes, NEW m \in Nodes, n.cic = m.cic
    PROVE  n = m
  BY ScheduleAssumption DEF WellFormed, DisjointGroups, Nodes

(* A node is in one group.                                                 *)
LEMMA NodeGroup ==
    ASSUME NEW g \in Schedule, NEW h \in Schedule, NEW n \in g, n \in h
    PROVE  g = h
  BY ScheduleAssumption DEF WellFormed, DisjointGroups

(* A term of A is none of B.                                               *)
LEMMA TermsDiffer ==
    \A n, b : TermA(n) # TermB(b)
  BY DEF TermA, TermB

(* The block a node copies from is owned by a node of the same group, and  *)
(* as long as nothing was added in the group it is plain B.                *)
LEMMA PlainSource ==
    ASSUME Content, NEW g \in Schedule, NEW n \in g, ~zerob(n),
           \A m \in g : TermA(m) \notin content[m.cic]
    PROVE  content[n.cib] = {TermB(n.cib)}
<1>1. PICK m \in g : m.cic = n.cib /\ OwnsB(m)
  BY ScheduleAssumption DEF WellFormed, SourceInGroup
<1>2. m \in Nodes /\ n \in Nodes
  BY DEF Nodes
<1>3. ~zerob(m) /\ PartB(m) = {TermB(n.cib)}
  BY <1>1, <1>2, NodeType, BlocksAssumption DEF OwnsB, zerob, PartB
<1>4. PartB(m) \subseteq content[m.cic] /\ content[m.cic] \subseteq PartB(m) \cup PartA(m)
  BY <1>1, <1>2 DEF Content
<1>5. PartA(m) \subseteq {TermA(m)} /\ TermA(m) \notin content[m.cic]
  BY DEF PartA
<1> QED
  BY <1>1, <1>3, <1>4, <1>5

(* A thread works on nodes of the group of its block.                      *)
LEMMA ReadNodes ==
    ASSUME LockInv, NEW t \in Threads, Inside(t)
    PROVE  /\ GroupOf(th[t].blk) \in Schedule
           /\ th[t].blk \in ABlocks
           /\ th[t].nodes \subseteq GroupOf(th[t].blk)
           /\ \A n \in th[t].nodes : n \in Nodes
           /\ th[t].at \in {"copy", "write"} => th[t].node \in th[t].nodes
           /\ th[t].at \in {"touch", "copy"} =>
                 \A n \in th[t].nodes : ~zerob(n) /\ ~OwnsB(n)
           /\ th[t].at \in {"add", "write"} =>
                 \A n \in th[t].nodes : n.cia = th[t].blk /\ ~zeroa(n)
<1>1. th[t].blk \in ABlocks
  BY DEF LockInv, TypeOK, ThreadOK, Inside
<1>2. GroupOf(th[t].blk) \in Schedule /\ th[t].blk # NoBlock
  BY <1>1, GroupOfBlock, BlocksAssumption
<1>3. th[t].nodes \subseteq GroupOf(th[t].blk)
  BY DEF LockInv, ThreadOK, Inside, ToCopy, Users
<1> QED
  BY <1>1, <1>2, <1>3 DEF LockInv, ThreadOK, Inside, ToCopy, Users, Nodes, zeroa

(* The block that a node is copied from holds nothing else.                *)
LEMMA PlainRead ==
    ASSUME LockInv, Content, NEW t \in Threads, th[t].at \in {"touch", "copy"},
           NEW n \in th[t].nodes
    PROVE  content[n.cib] = {TermB(n.cib)}
<1>1. Inside(t)
  BY DEF Inside
<1> QED
  BY <1>1, ReadNodes, PlainSource DEF Content

(* At first every block holds nothing.                                     *)
LEMMA SumInit == Init => SumInv
<1> SUFFICES ASSUME Init PROVE SumInv
  OBVIOUS
<1> USE DEF Init
<1>1. ASSUME NEW n \in Nodes
      PROVE  content[n.cic] = IF OwnsB(n) THEN {TermB(n.cic)} ELSE {}
  BY NodeType, NodeUnique
<1>2. ASSUME NEW n \in Nodes, OwnsB(n) PROVE PartB(n) = {TermB(n.cic)}
  BY <1>2, NodeType, BlocksAssumption DEF OwnsB, PartB, zerob
<1>3. \A t \in Threads : th[t].at = "idle"
  BY DEF NoOne
<1> HIDE DEF Init
<1>4. Content
  <2>1. ASSUME NEW n \in Nodes
        PROVE  content[n.cic] \subseteq PartB(n) /\ TermA(n) \notin content[n.cic]
    <3>1. CASE OwnsB(n)
      <4>1. content[n.cic] = {TermB(n.cic)} /\ PartB(n) = {TermB(n.cic)}
        BY <1>1, <1>2, <3>1
      <4>2. TermA(n) # TermB(n.cic)
        BY TermsDiffer
      <4> QED
        BY <4>1, <4>2
    <3>2. CASE ~OwnsB(n)
      <4>1. content[n.cic] = {}
        BY <1>1, <3>2
      <4> QED
        BY <4>1
    <3> QED
      BY <3>1, <3>2
  <2>2. \A n \in Nodes : OwnsB(n) => PartB(n) \subseteq content[n.cic]
    BY <1>1, <1>2
  <2> QED
    BY <2>1, <2>2, <1>3 DEF Content
<1>5. Reads
  BY <1>3 DEF Reads
<1>6. ASSUME NEW n \in Nodes PROVE Untouched(n) \/ PartB(n) \subseteq content[n.cic]
  BY <1>1, <1>2 DEF Init, Untouched, Touched, NoNumbers, PartB
<1>7. \A n \in Nodes : ~zeroa(n) => n.cia \in todo
  BY DEF Init, ABlocks
<1>8. Complete
  BY <1>6, <1>7 DEF Init, Complete
<1> QED
  BY <1>3, <1>4, <1>5, <1>8 DEF SumInv, Quiet

(* What put() leaves the thread to do. *)
LEMMA PutBegins ==
    ASSUME LockInv, NEW t \in Threads, NEW a \in todo, Put(t)!(a)
    PROVE  /\ th'[t].blk = a
           /\ \A u \in Threads : u # t => th'[u] = th[u]
           /\ \/ /\ a \notin DOMAIN grpmap
                 /\ th'[t].at = "touch" /\ th'[t].nodes = ToCopy(GroupOf(a))
              \/ /\ a \in DOMAIN grpmap /\ grpmap' = grpmap
                 /\ th'[t].at = "lock"
<1>1. DOMAIN th = Threads
  BY DEF LockInv, TypeOK
<1>2. CASE a \notin DOMAIN grpmap
  <2>1. th' = [th EXCEPT ![t] = [NoOne EXCEPT !.at = "touch", !.blk = a,
                   !.num = Len(grpmtx) + 1, !.nodes = ToCopy(GroupOf(a))]]
    BY <1>2
  <2> QED
    BY <1>1, <1>2, <2>1 DEF NoOne
<1>3. CASE a \in DOMAIN grpmap
  <2>1. /\ th' = [th EXCEPT ![t] = [NoOne EXCEPT !.at = "lock", !.blk = a,
                      !.num = grpmap[a]]]
        /\ grpmap' = grpmap
    BY <1>3
  <2> QED
    BY <1>1, <1>3, <2>1 DEF NoOne
<1> QED
  BY <1>2, <1>3

(* The first put() into a group finds nothing added to it. *)
LEMMA SumPut ==
    ASSUME LockInv, SumInv, NEW t \in Threads, Put(t)
    PROVE  SumInv'
<1> USE DEF SumInv
<1>1. PICK a \in todo : Put(t)!(a)
  BY DEF Put
<1>2. /\ a \in ABlocks /\ stream = "open" /\ th[t].at = "idle"
      /\ todo' = todo \ {a} /\ UNCHANGED <<stream, content, failed>>
  BY <1>1 DEF LockInv, TypeOK
<1>3. /\ th'[t].blk = a /\ th'[t].at \in {"touch", "lock"}
      /\ \A u \in Threads : u # t => th'[u] = th[u]
  BY <1>1, PutBegins
<1>4. DOMAIN grpmap \subseteq DOMAIN grpmap'
  BY <1>1
<1>5. Reads'
  BY <1>2, <1>3 DEF Reads
<1>6. Quiet'
  BY <1>2 DEF Quiet
<1>7. ASSUME NEW n \in Nodes, ~failed, ~zeroa(n)
      PROVE  TermA(n) \in content[n.cic] \/ n.cia \in todo' \/ \E u \in Threads : Adding(u, n)'
  <2>1. CASE n.cia = a
    BY <1>3, <2>1 DEF Adding
  <2>2. CASE n.cia # a
    BY <1>2, <1>3, <1>7, <2>2 DEF Complete, Adding
  <2> QED
    BY <2>1, <2>2
<1>8. CASE a \notin DOMAIN grpmap
  <2>1. th'[t].at = "touch" /\ th'[t].nodes = ToCopy(GroupOf(a))
    BY <1>1, <1>8, PutBegins
  <2>2. DOMAIN grpmap' = DOMAIN grpmap \cup Siblings(a)
    BY <1>1, <1>8
  <2>3. ASSUME NEW n \in GroupOf(a) PROVE TermA(n) \notin content[n.cic]
    <3>1. n \in Nodes
      BY <1>2, GroupOfBlock DEF Nodes
    <3>2. zeroa(n) => TermA(n) \notin content[n.cic]
      BY <3>1, TermsDiffer DEF Content, PartA, PartB
    <3>3. ~zeroa(n) => n.cia \notin DOMAIN grpmap
      BY <1>2, <1>8, GroupOfBlock, GroupOfUser DEF LockInv, Numbers
    <3> QED
      BY <1>2, <3>1, <3>2, <3>3 DEF Content
  <2>4. Content'
    BY <1>2, <1>3, <1>4, <2>3 DEF Content
  <2>5. ASSUME NEW g \in Schedule, g # GroupOf(a), ~Touched(g)
        PROVE  ~Touched(g)'
    BY <1>2, <2>2, <2>5, GroupOfBlock, GroupOfUser DEF Touched
  <2>6. ASSUME NEW n \in Nodes, Untouched(n) PROVE Untouched(n)'
    <3>1. CASE n \in GroupOf(a)
      BY <2>1, <2>6, <3>1 DEF Untouched, ToCopy
    <3>2. CASE n \notin GroupOf(a)
      BY <1>2, <1>3, <2>5, <2>6, <3>2 DEF Untouched
    <3> QED
      BY <3>1, <3>2
  <2>7. Complete'
    BY <1>2, <1>7, <2>6 DEF Complete
  <2> QED
    BY <1>5, <1>6, <2>4, <2>7
<1>9. CASE a \in DOMAIN grpmap
  <2>1. grpmap' = grpmap /\ th'[t].at = "lock"
    BY <1>1, <1>9, PutBegins
  <2>2. Content'
    BY <1>2, <1>3, <2>1 DEF Content
  <2>3. ASSUME NEW n \in Nodes, Untouched(n) PROVE Untouched(n)'
    BY <1>2, <1>3, <2>1, <2>3 DEF Untouched, Touched
  <2>4. Complete'
    BY <1>2, <1>7, <2>3 DEF Complete
  <2> QED
    BY <1>5, <1>6, <2>2, <2>4
<1> QED
  BY <1>8, <1>9

(* Steps of a thread that change no block. *)
LEMMA SumLocal ==
    ASSUME LockInv, SumInv, NEW t \in Threads,
           TouchRead(t) \/ TouchDone(t) \/ TouchThrows(t) \/ Lock(t)
             \/ AddRead(t) \/ AddThrows(t) \/ PutReturns(t)
    PROVE  SumInv'
<1> USE DEF SumInv
<1>1. /\ UNCHANGED <<stream, todo, grpmap, content>>
      /\ th[t].at # "idle" /\ (~failed' => ~failed)
      /\ \A u \in Threads : u # t => th'[u] = th[u]
      /\ th[t] \in ThreadState
  BY DEF TouchRead, TouchDone, TouchThrows, AddThrows, Lock, AddRead, PutReturns, LockInv, TypeOK, ThreadState
<1>2. Quiet'
  BY <1>1 DEF Quiet
<1> DEFINE Moves ==
        /\ th'[t].at \in {"touch", "copy"} =>
              th[t].at \in {"touch", "copy"} /\ th'[t].blk = th[t].blk
        /\ th'[t].at = "copy" => th'[t].src = content[th'[t].node.cib]
        /\ th'[t].at = "write" => th'[t].src = content[th'[t].node.cic]
        /\ ~failed' => \A n \in Nodes :
              /\ th[t].at \in {"touch", "copy"} /\ n \in th[t].nodes =>
                    th'[t].at \in {"touch", "copy"} /\ n \in th'[t].nodes
              /\ n \in Users(n.cia) /\ Adding(t, n) => Adding(t, n)'
<1>3. Moves
  <2>1. CASE TouchRead(t)
    <3>1. PICK n \in th[t].nodes :
            th' = [th EXCEPT ![t].at = "copy", ![t].node = n, ![t].src = content[n.cib]]
      BY <2>1 DEF TouchRead
    <3>2. th[t].at = "touch" /\ th'[t].at = "copy" /\ th'[t].blk = th[t].blk
          /\ th'[t].nodes = th[t].nodes /\ th'[t].node = n /\ th'[t].src = content[n.cib]
      BY <1>1, <2>1, <3>1 DEF TouchRead, LockInv, TypeOK, ThreadState
    <3> QED
      BY <3>2 DEF Adding
  <2>2. CASE TouchDone(t)
    <3>1. th[t].at = "touch" /\ th[t].nodes = {} /\ th'[t].at = "lock" /\ th'[t].blk = th[t].blk
      BY <1>1, <2>2 DEF TouchDone, LockInv, TypeOK, ThreadState
    <3> QED
      BY <3>1 DEF Adding
  <2>3. CASE TouchThrows(t)
    <3>1. th'[t].at = "idle" /\ failed'
      BY <2>3 DEF TouchThrows, LockInv, TypeOK, NoOne
    <3> QED
      BY <3>1
  <2>4. CASE Lock(t)
    <3>1. th[t].at = "lock" /\ th'[t].at = "add" /\ th'[t].blk = th[t].blk
          /\ th'[t].nodes = Users(th[t].blk)
      BY <1>1, <2>4 DEF Lock, LockInv, TypeOK, ThreadState
    <3> QED
      BY <3>1 DEF Adding
  <2>5. CASE AddRead(t)
    <3>1. PICK n \in th[t].nodes :
            th' = [th EXCEPT ![t].at = "write", ![t].node = n, ![t].src = content[n.cic]]
      BY <2>5 DEF AddRead
    <3>2. th[t].at = "add" /\ th'[t].at = "write" /\ th'[t].blk = th[t].blk
          /\ th'[t].nodes = th[t].nodes /\ th'[t].node = n /\ th'[t].src = content[n.cic]
      BY <1>1, <2>5, <3>1 DEF AddRead, LockInv, TypeOK, ThreadState
    <3> QED
      BY <3>2 DEF Adding
  <2>6. CASE PutReturns(t)
    <3>1. th[t].at = "add" /\ th[t].nodes = {} /\ th'[t].at = "idle"
      BY <1>1, <2>6 DEF PutReturns, LockInv, TypeOK, NoOne
    <3> QED
      BY <3>1 DEF Adding
  <2>7. CASE AddThrows(t)
    <3>1. th'[t].at = "idle" /\ failed'
      BY <2>7 DEF AddThrows, LockInv, TypeOK, NoOne
    <3> QED
      BY <3>1
  <2> QED
    BY <2>1, <2>2, <2>3, <2>4, <2>5, <2>6, <2>7
<1>4. Content'
  BY <1>1, <1>3 DEF Content
<1>6. Reads'
  BY <1>1, <1>3 DEF Reads
<1>7. ASSUME ~failed', NEW n \in Nodes, Untouched(n)
      PROVE  Untouched(n)'
  BY <1>1, <1>3, <1>7 DEF Untouched, Touched
<1>8. ASSUME ~failed', NEW n \in Nodes, ~zeroa(n), Adding(t, n)
      PROVE  Adding(t, n)'
  <2>1. PICK g \in Schedule : n \in g
    BY DEF Nodes
  <2>2. n \in Users(n.cia)
    BY <1>8, <2>1, GroupOfUser DEF Users
  <2> QED
    BY <1>3, <1>8, <2>2
<1>9. ASSUME NEW n \in Nodes, NEW u \in Threads, u # t, Adding(u, n)
      PROVE  Adding(u, n)'
  BY <1>1, <1>9 DEF Adding
<1>10. Complete'
  BY <1>1, <1>7, <1>8, <1>9 DEF Complete
<1> QED
  BY <1>2, <1>4, <1>6, <1>10

(* The block that a touch writes is nobody's source. *)
LEMMA SumTouchWrite ==
    ASSUME LockInv, SumInv, NEW t \in Threads, TouchWrite(t)
    PROVE  SumInv'
<1> USE DEF SumInv
<1> DEFINE n == th[t].node
<1>1. /\ th[t].at = "copy" /\ UNCHANGED <<stream, todo, grpmap, failed>>
      /\ \A u \in Threads : u # t => th'[u] = th[u]
      /\ th'[t].at = "touch" /\ th'[t].blk = th[t].blk /\ th'[t].nodes = th[t].nodes \ {n}
  BY DEF TouchWrite, LockInv, TypeOK, ThreadState
<1>2. /\ n \in th[t].nodes /\ n \in GroupOf(th[t].blk) /\ n \in Nodes
      /\ ~zerob(n) /\ ~OwnsB(n) /\ GroupOf(th[t].blk) \in Schedule
  BY <1>1, ReadNodes DEF Inside
<1>3. content[n.cib] = {TermB(n.cib)} /\ th[t].src = content[n.cib]
  BY <1>1, <1>2, PlainRead DEF Reads
<1>4. content'[n.cic] = {TermB(n.cib)} /\ PartB(n) = {TermB(n.cib)}
  BY <1>2, <1>3, NodeType DEF TouchWrite, PartB, LockInv, TypeOK
<1>5. ASSUME NEW b \in Blocks, b # n.cic PROVE content'[b] = content[b]
  BY <1>5 DEF TouchWrite, LockInv, TypeOK
<1>6. ASSUME NEW m \in Nodes, m # n PROVE content'[m.cic] = content[m.cic]
  BY <1>2, <1>5, <1>6, NodeType, NodeUnique
<1>7. TermA(n) \notin content[n.cic] /\ TermA(n) \notin content'[n.cic]
  BY <1>1, <1>2, <1>4, TermsDiffer DEF Content
<1> HIDE DEF n
<1>8. Content'
  <2>1. \A m \in Nodes : content'[m.cic] \subseteq PartB(m) \cup PartA(m)
    BY <1>4, <1>6 DEF Content
  <2>2. \A m \in Nodes : OwnsB(m) => PartB(m) \subseteq content'[m.cic]
    BY <1>2, <1>6 DEF Content
  <2>3. \A m \in Nodes : TermA(m) \in content'[m.cic] => TermA(m) \in content[m.cic]
    BY <1>6, <1>7
  <2>4. ASSUME NEW u \in Threads, NEW m \in GroupOf(th'[u].blk), th'[u].at \in {"touch", "copy"}
        PROVE  TermA(m) \notin content'[m.cic]
    <3>1. th'[u].blk = th[u].blk /\ th[u].at \in {"touch", "copy"}
      BY <1>1, <2>4
    <3>2. m \in Nodes
      BY <3>1, ReadNodes DEF Inside, Nodes
    <3> QED
      BY <2>3, <2>4, <3>1, <3>2 DEF Content
  <2> QED
    BY <1>1, <2>1, <2>2, <2>3, <2>4 DEF Content
<1>9. Reads'
  <2>1. ASSUME NEW u \in Threads, u # t, th[u].at = "copy"
        PROVE  content'[th[u].node.cib] = content[th[u].node.cib]
    <3>1. th[u].node \in GroupOf(th[u].blk) /\ GroupOf(th[u].blk) \in Schedule
          /\ ~zerob(th[u].node) /\ th[u].node \in Nodes
      BY <2>1, ReadNodes DEF Inside
    <3>2. PICK m \in GroupOf(th[u].blk) : m.cic = th[u].node.cib /\ OwnsB(m)
      BY <3>1, ScheduleAssumption DEF WellFormed, SourceInGroup
    <3>3. m \in Nodes /\ m # n
      BY <1>2, <3>1, <3>2 DEF Nodes
    <3> QED
      BY <1>6, <3>2, <3>3
  <2>2. ASSUME NEW u \in Threads, u # t, th[u].at = "write"
        PROVE  content'[th[u].node.cic] = content[th[u].node.cic]
    <3>1. /\ th[u].node \in GroupOf(th[u].blk) /\ GroupOf(th[u].blk) \in Schedule
          /\ th[u].node \in Nodes /\ Inside(u) /\ Inside(t)
      BY <1>1, <2>2, ReadNodes DEF Inside
    <3>2. th[u].node # n
      BY <1>2, <2>2, <3>1, NodeGroup, Exclusive DEF GroupExclusive
    <3> QED
      BY <1>6, <3>1, <3>2
  <2> QED
    BY <1>1, <2>1, <2>2 DEF Reads
<1>10. Complete'
  <2>1. ASSUME ~failed, NEW m \in Nodes
        PROVE  Untouched(m)' \/ PartB(m) \subseteq content'[m.cic]
    <3>1. CASE m = n
      BY <1>4, <3>1
    <3>2. CASE m # n
      <4>1. Untouched(m) => Untouched(m)'
        BY <1>1, <3>2 DEF Untouched, Touched
      <4> QED
        BY <1>6, <2>1, <3>2, <4>1 DEF Complete
    <3> QED
      BY <3>1, <3>2
  <2>2. ASSUME ~failed, NEW m \in Nodes, ~zeroa(m)
        PROVE  TermA(m) \in content'[m.cic] \/ m.cia \in todo' \/ \E u \in Threads : Adding(u, m)'
    <3>1. \A u \in Threads : Adding(u, m) => Adding(u, m)'
      BY <1>1 DEF Adding
    <3>2. TermA(m) \in content[m.cic] => TermA(m) \in content'[m.cic]
      BY <1>6, <1>7
    <3> QED
      BY <1>1, <2>2, <3>1, <3>2 DEF Complete
  <2> QED
    BY <1>1, <2>1, <2>2 DEF Complete
<1>11. Quiet'
  BY <1>1 DEF Quiet
<1> QED
  BY <1>8, <1>9, <1>10, <1>11

(* Adding to a block disturbs nobody else's read of it. *)
LEMMA SumAddWrite ==
    ASSUME LockInv, SumInv, NEW t \in Threads, AddWrite(t)
    PROVE  SumInv'
<1> USE DEF SumInv
<1> DEFINE n == th[t].node
<1>1. /\ th[t].at = "write" /\ UNCHANGED <<stream, todo, grpmap, failed>>
      /\ \A u \in Threads : u # t => th'[u] = th[u]
      /\ th'[t].at = "add" /\ th'[t].blk = th[t].blk /\ th'[t].nodes = th[t].nodes \ {n}
  BY DEF AddWrite, LockInv, TypeOK, ThreadState
<1>2. /\ n \in th[t].nodes /\ n \in GroupOf(th[t].blk) /\ n \in Nodes
      /\ ~zeroa(n) /\ n.cia = th[t].blk /\ GroupOf(th[t].blk) \in Schedule
      /\ n.cia \in DOMAIN grpmap
  BY <1>1, ReadNodes DEF Inside, LockInv, ThreadOK
<1>3. content'[n.cic] = content[n.cic] \cup {TermA(n)} /\ PartA(n) = {TermA(n)}
  BY <1>1, <1>2, NodeType DEF AddWrite, PartA, Reads, LockInv, TypeOK
<1>4. ASSUME NEW b \in Blocks, b # n.cic PROVE content'[b] = content[b]
  BY <1>4 DEF AddWrite, LockInv, TypeOK
<1>5. ASSUME NEW m \in Nodes, m # n PROVE content'[m.cic] = content[m.cic]
  BY <1>2, <1>4, <1>5, NodeType, NodeUnique
<1> HIDE DEF n
<1>6. \A m \in Nodes : content[m.cic] \subseteq content'[m.cic]
  BY <1>3, <1>5
<1>7. ASSUME NEW u \in Threads, u # t, Inside(u)
      PROVE  n \notin GroupOf(th[u].blk)
  <2>1. Inside(t) /\ GroupOf(th[u].blk) \in Schedule
    BY <1>1, <1>7, ReadNodes DEF Inside
  <2> QED
    BY <1>2, <1>7, <2>1, NodeGroup, Exclusive DEF GroupExclusive
<1>8. Content'
  <2>1. \A m \in Nodes : content'[m.cic] \subseteq PartB(m) \cup PartA(m)
    BY <1>2, <1>3, <1>5 DEF Content
  <2>2. \A m \in Nodes : OwnsB(m) => PartB(m) \subseteq content'[m.cic]
    BY <1>6 DEF Content
  <2>3. \A m \in Nodes : TermA(m) \in content'[m.cic] /\ stream' # "closed" =>
          m.cia \in DOMAIN grpmap' \/ zeroa(m)
    BY <1>1, <1>2, <1>5 DEF Content
  <2>4. ASSUME NEW u \in Threads, NEW m \in GroupOf(th'[u].blk), th'[u].at \in {"touch", "copy"}
        PROVE  TermA(m) \notin content'[m.cic]
    <3>1. u # t /\ th'[u] = th[u] /\ Inside(u)
      BY <1>1, <2>4 DEF Inside
    <3>2. m \in Nodes /\ m # n
      BY <1>7, <2>4, <3>1, ReadNodes DEF Nodes
    <3> QED
      BY <1>5, <2>4, <3>1, <3>2 DEF Content
  <2> QED
    BY <2>1, <2>2, <2>3, <2>4 DEF Content
<1>9. Reads'
  <2>1. ASSUME NEW u \in Threads, u # t, th[u].at = "copy"
        PROVE  content'[th[u].node.cib] = content[th[u].node.cib]
    <3>1. th[u].node \in GroupOf(th[u].blk) /\ GroupOf(th[u].blk) \in Schedule
          /\ ~zerob(th[u].node) /\ Inside(u)
      BY <2>1, ReadNodes DEF Inside
    <3>2. PICK m \in GroupOf(th[u].blk) : m.cic = th[u].node.cib /\ OwnsB(m)
      BY <3>1, ScheduleAssumption DEF WellFormed, SourceInGroup
    <3>3. m \in Nodes /\ m # n
      BY <1>7, <2>1, <3>1, <3>2 DEF Nodes
    <3> QED
      BY <1>5, <3>2, <3>3
  <2>2. ASSUME NEW u \in Threads, u # t, th[u].at = "write"
        PROVE  content'[th[u].node.cic] = content[th[u].node.cic]
    <3>1. /\ th[u].node \in GroupOf(th[u].blk) /\ th[u].node \in Nodes /\ Inside(u)
      BY <2>2, ReadNodes DEF Inside
    <3>2. th[u].node # n
      BY <1>7, <2>2, <3>1
    <3> QED
      BY <1>5, <3>1, <3>2
  <2> QED
    BY <1>1, <2>1, <2>2 DEF Reads
<1>10. Complete'
  <2>1. ASSUME NEW m \in Nodes, Untouched(m) PROVE Untouched(m)'
    BY <1>1, <2>1 DEF Untouched, Touched
  <2>2. ASSUME ~failed, NEW m \in Nodes, ~zeroa(m)
        PROVE  TermA(m) \in content'[m.cic] \/ m.cia \in todo' \/ \E u \in Threads : Adding(u, m)'
    <3>1. CASE m = n
      BY <1>3, <3>1
    <3>2. CASE m # n
      <4>1. \A u \in Threads : Adding(u, m) => Adding(u, m)'
        BY <1>1, <3>2 DEF Adding
      <4> QED
        BY <1>1, <1>6, <2>2, <4>1 DEF Complete
    <3> QED
      BY <3>1, <3>2
  <2> QED
    BY <1>1, <1>6, <2>1, <2>2 DEF Complete
<1>11. Quiet'
  BY <1>1 DEF Quiet
<1> QED
  BY <1>8, <1>9, <1>10, <1>11

(* close() touches exactly the groups to which nothing was added. *)
LEMMA SumClose ==
    ASSUME LockInv, SumInv, Close
    PROVE  SumInv'
<1> USE DEF SumInv
<1> DEFINE late == UNION {ToCopy(g) : g \in {h \in Schedule : ~Touched(h)}}
<1>1. /\ stream = "open" /\ stream' = "closed" /\ UNCHANGED <<todo, th, failed>>
      /\ \A t \in Threads : th[t].at = "idle"
      /\ ~failed => todo = {}
      /\ content' = [b \in Blocks |-> IF \E n \in late : n.cic = b
            THEN content[(CHOOSE n \in late : n.cic = b).cib] ELSE content[b]]
  BY DEF Close
<1>2. ASSUME NEW n \in late
      PROVE  /\ n \in Nodes /\ ~OwnsB(n)
             /\ TermA(n) \notin content[n.cic]
             /\ content[n.cib] = PartB(n)
  <2>1. PICK g \in Schedule : n \in g /\ ~Touched(g) /\ ~zerob(n) /\ ~OwnsB(n)
    BY DEF ToCopy
  <2>2. ASSUME NEW m \in g PROVE TermA(m) \notin content[m.cic]
    <3>1. m \in Nodes
      BY DEF Nodes
    <3>2. zeroa(m) => TermA(m) \notin content[m.cic]
      BY <3>1, TermsDiffer DEF Content, PartA, PartB
    <3> QED
      BY <1>1, <2>1, <3>1, <3>2 DEF Content, Touched
  <2>3. content[n.cib] = {TermB(n.cib)}
    BY <2>1, <2>2, PlainSource
  <2> QED
    BY <2>1, <2>2, <2>3 DEF Nodes, PartB
<1>3. ASSUME NEW n \in Nodes
      PROVE  content'[n.cic] = IF n \in late THEN PartB(n) ELSE content[n.cic]
  <2>1. n.cic \in Blocks
    BY NodeType
  <2>2. CASE n \in late
    <3>1. (CHOOSE m \in late : m.cic = n.cic) \in late
          /\ (CHOOSE m \in late : m.cic = n.cic).cic = n.cic
      BY <2>2
    <3>2. (CHOOSE m \in late : m.cic = n.cic) = n
      BY <1>2, <3>1, NodeUnique
    <3> HIDE DEF late
    <3> QED
      BY <1>1, <1>2, <2>1, <2>2, <3>2
  <2>3. CASE n \notin late
    <3>1. ~\E m \in late : m.cic = n.cic
      BY <1>2, <2>3, NodeUnique
    <3> HIDE DEF late
    <3> QED
      BY <1>1, <2>1, <2>3, <3>1
  <2> QED
    BY <2>2, <2>3
<1>4. ASSUME NEW n \in Nodes, Untouched(n) PROVE n \in late
  <2>1. PICK g \in Schedule : n \in g
    BY DEF Nodes
  <2>2. ~zerob(n) /\ ~OwnsB(n) /\ ~Touched(g)
    BY <1>1, <1>4, <2>1 DEF Untouched
  <2> QED
    BY <2>1, <2>2 DEF ToCopy
<1> HIDE DEF late
<1>5. Content'
  <2>1. \A n \in Nodes : content'[n.cic] \subseteq PartB(n) \cup PartA(n)
    BY <1>3 DEF Content
  <2>2. \A n \in Nodes : OwnsB(n) => PartB(n) \subseteq content'[n.cic]
    BY <1>2, <1>3 DEF Content
  <2> QED
    BY <1>1, <2>1, <2>2 DEF Content
<1>6. Reads'
  BY <1>1 DEF Reads
<1>7. Complete'
  <2>1. ASSUME ~failed, NEW n \in Nodes PROVE PartB(n) \subseteq content'[n.cic]
    BY <1>3, <1>4, <2>1 DEF Complete
  <2>2. ASSUME ~failed, NEW n \in Nodes, ~zeroa(n) PROVE TermA(n) \in content'[n.cic]
    <3>1. TermA(n) \in content[n.cic]
      BY <1>1, <2>2 DEF Complete, Adding
    <3> QED
      BY <1>2, <1>3, <3>1
  <2> QED
    BY <1>1, <2>1, <2>2 DEF Complete
<1>8. Quiet'
  BY <1>1 DEF Quiet
<1> QED
  BY <1>5, <1>6, <1>7, <1>8

(* Every step keeps the sums.                                              *)
LEMMA SumNext == LockInv /\ SumInv /\ [Next]_vars => SumInv'
<1> SUFFICES ASSUME LockInv, SumInv, [Next]_vars PROVE SumInv'
  OBVIOUS
<1> USE DEF SumInv
<1>1. CASE Open
  <2>1. \A n \in Nodes : Untouched(n) => Untouched(n)'
    BY <1>1 DEF Open, Untouched, Touched
  <2>2. \A n \in Nodes, t \in Threads : Adding(t, n) => Adding(t, n)'
    BY <1>1 DEF Open, Adding
  <2>3. Content' /\ Reads' /\ Quiet'
    BY <1>1 DEF Open, Content, Reads, Quiet
  <2>4. Complete'
    BY <1>1, <2>1, <2>2 DEF Open, Complete
  <2> QED
    BY <2>3, <2>4
<1>2. ASSUME NEW t \in Threads, Put(t) PROVE SumInv'
  BY <1>2, SumPut
<1>3. ASSUME NEW t \in Threads, Step(t) PROVE SumInv'
  BY <1>3, SumLocal, SumTouchWrite, SumAddWrite DEF Step
<1>4. CASE Close
  BY <1>4, SumClose
<1>5. CASE UNCHANGED vars
  <2>1. \A n \in Nodes : Untouched(n) => Untouched(n)'
    BY <1>5 DEF vars, Untouched, Touched
  <2>2. \A n \in Nodes, t \in Threads : Adding(t, n) => Adding(t, n)'
    BY <1>5 DEF vars, Adding
  <2>3. Content' /\ Reads' /\ Quiet'
    BY <1>5 DEF vars, Content, Reads, Quiet
  <2>4. Complete'
    BY <1>5, <2>1, <2>2 DEF vars, Complete
  <2> QED
    BY <2>3, <2>4
<1> QED
  BY <1>1, <1>2, <1>3, <1>4, <1>5 DEF Next, Done

(* Both invariants hold in every reachable state.                          *)
LEMMA Invariance == Spec => [](LockInv /\ SumInv)
BY LockInit, LockNext, SumInit, SumNext, PTL DEF Spec

(* Whatever put() copies from a block of B is B's own content: no other    *)
(* thread has added to the block yet, in any schedule that is well formed. *)
THEOREM CopiesPlainB == Spec => []ReadsPlainB
<1>1. LockInv /\ SumInv => ReadsPlainB
  <2> SUFFICES ASSUME LockInv, SumInv, NEW t \in Threads, th[t].at = "copy"
               PROVE  th[t].src = {TermB(th[t].node.cib)}
    BY DEF ReadsPlainB
  <2> QED
    BY PlainRead, ReadNodes DEF SumInv, Reads, Inside
<1> QED
  BY Invariance, <1>1, PTL

(* When the stream is closed and no put() has thrown, each block of C is   *)
(* the sum of exactly the terms its node names: nothing lost, nothing      *)
(* foreign, in every order of put()s and with any number of threads.       *)
THEOREM CompleteSum == Spec => []SumComplete
<1>1. LockInv /\ SumInv => SumComplete
  <2> SUFFICES ASSUME LockInv, SumInv, stream = "closed", ~failed, NEW n \in Nodes
               PROVE  content[n.cic] = PartB(n) \cup PartA(n)
    BY DEF SumComplete
  <2>1. \A t \in Threads : th[t].at = "idle"
    BY DEF SumInv, Quiet
  <2>2. PartB(n) \subseteq content[n.cic]
    <3>1. PICK g \in Schedule : n \in g
      BY DEF Nodes
    <3> QED
      BY <2>1, <3>1 DEF SumInv, Complete, Untouched
  <2>3. PartA(n) \subseteq content[n.cic]
    BY <2>1 DEF SumInv, Complete, Adding, PartA
  <2> QED
    BY <2>2, <2>3 DEF SumInv, Content
<1> QED
  BY Invariance, <1>1, PTL

-----------------------------------------------------------------------------
(* Refinement. *)

SumSoFar == [n \in Nodes |-> IF Untouched(n) THEN PartB(n) ELSE content[n.cic]]

Inv == LockInv /\ SumInv /\ ~failed

(* A step after which a block has its part of B if it lacked it before,    *)
(* and is the same otherwise, is no step of the sum.                       *)
LEMMA SumUnchanged ==
    ASSUME \A n \in Nodes : Untouched(n)' => Untouched(n),
           \A n \in Nodes : ~Untouched(n) => content'[n.cic] = content[n.cic],
           \A n \in Nodes : Untouched(n) => Untouched(n)' \/ content'[n.cic] = PartB(n)
    PROVE  UNCHANGED SumSoFar
<1>1. ASSUME NEW n \in Nodes
      PROVE  (IF Untouched(n)' THEN PartB(n) ELSE content'[n.cic])
                = (IF Untouched(n) THEN PartB(n) ELSE content[n.cic])
  BY <1>1
<1> QED
  BY <1>1 DEF SumSoFar

(* The terms of the abstract sum are those of the stream.                  *)
LEMMA SameTerms ==
    \A n : Sum!PartA(n) = PartA(n) /\ Sum!PartB(n) = PartB(n)
  BY DEF Sum!PartA, Sum!PartB, PartA, PartB, Sum!TermA, TermA, Sum!TermB, TermB,
         Sum!zeroa, zeroa, Sum!zerob, zerob, Sum!NoBlock, NoBlock

(* The start of put() adds nothing to the blocks.                          *)
LEMMA RefinePut ==
    ASSUME LockInv, NEW t \in Threads, Put(t)
    PROVE  UNCHANGED SumSoFar
<1>1. PICK a \in todo : Put(t)!(a)
  BY DEF Put
<1>2. /\ a \in ABlocks /\ stream = "open" /\ th[t].at = "idle"
      /\ UNCHANGED <<stream, content, failed>>
      /\ \A u \in Threads : u # t => th'[u] = th[u]
  BY <1>1, PutBegins DEF LockInv, TypeOK
<1>3. CASE a \notin DOMAIN grpmap
  <2>1. th'[t].at = "touch" /\ th'[t].nodes = ToCopy(GroupOf(a))
    BY <1>1, <1>3, PutBegins
  <2>2. DOMAIN grpmap' = DOMAIN grpmap \cup Siblings(a)
    BY <1>1, <1>3
  <2>3. ~Touched(GroupOf(a)) /\ GroupOf(a) \in Schedule
    BY <1>2, <1>3, GroupOfBlock, GroupOfUser DEF Touched, LockInv, Numbers
  <2>4. ASSUME NEW g \in Schedule, g # GroupOf(a)
        PROVE  Touched(g)' <=> Touched(g)
    BY <1>2, <2>2, <2>4, GroupOfBlock, GroupOfUser DEF Touched
  <2>5. ASSUME NEW n \in Nodes PROVE Untouched(n)' <=> Untouched(n)
    <3>1. CASE n \in GroupOf(a)
      <4>1. \A g \in Schedule : n \in g => g = GroupOf(a)
        BY <2>3, <3>1, NodeGroup
      <4>2. Untouched(n) <=> ~zerob(n) /\ ~OwnsB(n)
        BY <1>2, <2>3, <4>1 DEF Untouched
      <4>3. Untouched(n)' <=> ~zerob(n) /\ ~OwnsB(n)
        BY <2>1, <3>1 DEF Untouched, ToCopy
      <4> QED
        BY <4>2, <4>3
    <3>2. CASE n \notin GroupOf(a)
      <4>1. n \notin th'[t].nodes /\ th[t].at = "idle"
        BY <1>2, <2>1, <3>2 DEF ToCopy
      <4>2. (\E u \in Threads : th'[u].at \in {"touch", "copy"} /\ n \in th'[u].nodes)
              <=> \E u \in Threads : th[u].at \in {"touch", "copy"} /\ n \in th[u].nodes
        BY <1>2, <4>1
      <4> QED
        BY <1>2, <2>4, <3>2, <4>2 DEF Untouched
    <3> QED
      BY <3>1, <3>2
  <2> QED
    BY <1>2, <2>5, SumUnchanged
<1>4. CASE a \in DOMAIN grpmap
  <2>1. grpmap' = grpmap /\ th'[t].at = "lock"
    BY <1>1, <1>4, PutBegins
  <2>2. ASSUME NEW n \in Nodes PROVE Untouched(n)' <=> Untouched(n)
    BY <1>2, <2>1 DEF Untouched, Touched
  <2> QED
    BY <1>2, <2>2, SumUnchanged
<1> QED
  BY <1>3, <1>4

(* A step inside adds the term of one node, or none.                       *)
LEMMA RefineStep ==
    ASSUME Inv, NEW t \in Threads, Step(t), ~failed'
    PROVE  UNCHANGED SumSoFar \/ \E n \in Nodes : Sum!AddTerm(n)
<1> USE DEF Inv, SumInv
<1> DEFINE Lacks(u, n) == th[u].at \in {"touch", "copy"} /\ n \in th[u].nodes
<1>1. /\ UNCHANGED <<stream, grpmap>> /\ stream = "open"
      /\ \A u \in Threads : u # t => th'[u] = th[u]
      /\ th[t] \in ThreadState
  <2>1. th[t].at # "idle"
    BY DEF Step, TouchRead, TouchWrite, TouchDone, TouchThrows, AddThrows, Lock, AddRead, AddWrite, PutReturns
  <2> QED
    BY <2>1 DEF Quiet, Step, TouchRead, TouchWrite, TouchDone, TouchThrows, AddThrows, Lock,
                AddRead, AddWrite, PutReturns, LockInv, TypeOK
<1>2. ASSUME NEW n \in Nodes, Lacks(t, n)' <=> Lacks(t, n)
      PROVE  Untouched(n)' <=> Untouched(n)
  <2>1. (\E u \in Threads : Lacks(u, n)') <=> \E u \in Threads : Lacks(u, n)
    BY <1>1, <1>2
  <2>2. \A g \in Schedule : Touched(g)' <=> Touched(g)
    BY <1>1 DEF Touched
  <2> QED
    BY <1>1, <2>1, <2>2 DEF Untouched
<1>3. CASE content' = content /\ \A n \in Nodes : Lacks(t, n)' <=> Lacks(t, n)
  <2>1. \A n \in Nodes : Untouched(n)' <=> Untouched(n)
    BY <1>2, <1>3
  <2> QED
    BY <1>3, <2>1, SumUnchanged
<1>4. CASE TouchRead(t)
  <2>1. th'[t].at = "copy" /\ th[t].at = "touch" /\ th'[t].nodes = th[t].nodes /\ content' = content
    BY <1>1, <1>4 DEF TouchRead, LockInv, TypeOK, ThreadState
  <2> QED
    BY <1>3, <2>1
<1>5. CASE TouchWrite(t)
  <2> DEFINE n == th[t].node
  <2>1. /\ th[t].at = "copy" /\ th'[t].at = "touch" /\ th'[t].nodes = th[t].nodes \ {n}
    BY <1>1, <1>5 DEF TouchWrite, LockInv, TypeOK, ThreadState
  <2>2. n \in th[t].nodes /\ n \in Nodes /\ ~zerob(n) /\ ~OwnsB(n)
    BY <2>1, ReadNodes DEF Inside
  <2>3. th[t].src = PartB(n)
    BY <2>1, <2>2, PlainRead DEF Reads, PartB
  <2>4. content'[n.cic] = PartB(n)
    BY <1>5, <2>2, <2>3, NodeType DEF TouchWrite, LockInv, TypeOK
  <2>5. ASSUME NEW b \in Blocks, b # n.cic PROVE content'[b] = content[b]
    BY <1>5, <2>5 DEF TouchWrite, LockInv, TypeOK
  <2> HIDE DEF n
  <2>6. ASSUME NEW m \in Nodes, m # n
        PROVE  content'[m.cic] = content[m.cic] /\ (Untouched(m)' <=> Untouched(m))
    <3>1. Lacks(t, m)' <=> Lacks(t, m)
      BY <2>1, <2>6
    <3> QED
      BY <1>2, <2>2, <2>5, <2>6, <3>1, NodeType, NodeUnique
  <2>7. Untouched(n)
    BY <2>1, <2>2 DEF Untouched
  <2>8. UNCHANGED SumSoFar
    BY <2>4, <2>6, <2>7, SumUnchanged
  <2> QED
    BY <2>8
<1>6. CASE TouchDone(t)
  <2>1. th'[t].at = "lock" /\ th[t].nodes = {} /\ content' = content
    BY <1>1, <1>6 DEF TouchDone, LockInv, TypeOK, ThreadState
  <2> QED
    BY <1>3, <2>1
<1>7. CASE Lock(t)
  <2>1. th'[t].at = "add" /\ th[t].at = "lock" /\ content' = content
    BY <1>1, <1>7 DEF Lock, LockInv, TypeOK, ThreadState
  <2> QED
    BY <1>3, <2>1
<1>8. CASE AddRead(t)
  <2>1. th'[t].at = "write" /\ th[t].at = "add" /\ content' = content
    BY <1>1, <1>8 DEF AddRead, LockInv, TypeOK, ThreadState
  <2> QED
    BY <1>3, <2>1
<1>9. CASE PutReturns(t)
  <2>1. th'[t].at = "idle" /\ th[t].at = "add" /\ content' = content
    BY <1>1, <1>9 DEF PutReturns, LockInv, TypeOK, NoOne
  <2> QED
    BY <1>3, <2>1
<1>10. CASE AddWrite(t)
  <2> DEFINE n == th[t].node
  <2>1. th[t].at = "write" /\ th'[t].at = "add"
    BY <1>1, <1>10 DEF AddWrite, LockInv, TypeOK, ThreadState
  <2>2. /\ n \in th[t].nodes /\ n \in GroupOf(th[t].blk) /\ n \in Nodes
        /\ ~zeroa(n) /\ n.cia = th[t].blk /\ GroupOf(th[t].blk) \in Schedule
        /\ n.cia \in DOMAIN grpmap
    BY <2>1, ReadNodes DEF Inside, LockInv, ThreadOK
  <2>3. content'[n.cic] = content[n.cic] \cup {TermA(n)} /\ PartA(n) = {TermA(n)}
    BY <1>10, <2>1, <2>2, NodeType DEF AddWrite, PartA, Reads, LockInv, TypeOK
  <2>4. ASSUME NEW b \in Blocks, b # n.cic PROVE content'[b] = content[b]
    BY <1>10, <2>4 DEF AddWrite, LockInv, TypeOK
  <2>5. \A m \in Nodes : Untouched(m)' <=> Untouched(m)
    BY <1>2, <2>1
  <2>6. ~Untouched(n)
    <3>1. Touched(GroupOf(th[t].blk))
      BY <2>2 DEF Touched
    <3>2. ASSUME NEW u \in Threads, Lacks(u, n) PROVE FALSE
      <4>1. Inside(u) /\ Inside(t) /\ u # t
        BY <2>1, <3>2 DEF Inside
      <4>2. n \in GroupOf(th[u].blk) /\ GroupOf(th[u].blk) \in Schedule
        BY <3>2, <4>1, ReadNodes
      <4> QED
        BY <2>2, <4>1, <4>2, NodeGroup, Exclusive DEF GroupExclusive
    <3> QED
      BY <2>2, <3>1, <3>2 DEF Untouched
  <2> HIDE DEF n
  <2>7. ASSUME NEW m \in Nodes, m # n PROVE content'[m.cic] = content[m.cic]
    BY <2>2, <2>4, <2>7, NodeType, NodeUnique
  <2>8. CASE TermA(n) \in content[n.cic]
    <3>1. content'[n.cic] = content[n.cic]
      BY <2>3, <2>8
    <3> QED
      BY <2>5, <2>7, <3>1, SumUnchanged
  <2>9. CASE TermA(n) \notin content[n.cic]
    <3>1. content[n.cic] = PartB(n)
      <4>1. PartB(n) \subseteq content[n.cic]
        BY <2>2, <2>6 DEF Complete
      <4>2. content[n.cic] \subseteq PartB(n) \cup {TermA(n)}
        BY <2>2, <2>3 DEF Content
      <4> QED
        BY <2>9, <4>1, <4>2
    <3>2. SumSoFar[n] = PartB(n) /\ SumSoFar'[n] = PartB(n) \cup PartA(n)
      BY <2>2, <2>3, <2>5, <2>6, <3>1 DEF SumSoFar
    <3>3. \A m \in Nodes : m # n => SumSoFar'[m] = SumSoFar[m]
      BY <2>5, <2>7 DEF SumSoFar
    <3>4. SumSoFar' = [SumSoFar EXCEPT ![n] = PartB(n) \cup PartA(n)]
      BY <2>2, <3>2, <3>3 DEF SumSoFar
    <3>5. /\ ~(stream = "closed") /\ UNCHANGED (stream = "closed")
          /\ SumSoFar[n] = Sum!PartB(n) /\ Sum!PartA(n) # {}
          /\ SumSoFar' = [SumSoFar EXCEPT ![n] = Sum!PartB(n) \cup Sum!PartA(n)]
      BY <1>1, <2>3, <3>2, <3>4, SameTerms
    <3> QED
      BY <2>2, <3>5 DEF Sum!AddTerm, SumSoFar
  <2> QED
    BY <2>8, <2>9
<1> QED
  BY <1>4, <1>5, <1>6, <1>7, <1>8, <1>9, <1>10 DEF Step, TouchThrows, AddThrows

(* close() copies the groups that no put() has touched.                    *)
LEMMA RefineClose ==
    ASSUME Inv, Close
    PROVE  Sum!Close
<1> USE DEF Inv, SumInv
<1>1. /\ stream = "open" /\ stream' = "closed" /\ UNCHANGED th /\ todo = {}
      /\ \A t \in Threads : th[t].at = "idle"
  BY DEF Close
<1>2. SumInv' /\ ~failed'
  BY SumClose DEF Close
<1>3. ASSUME NEW n \in Nodes PROVE ~Untouched(n)' /\ PartA(n) \subseteq content[n.cic]
  <2>1. PICK g \in Schedule : n \in g
    BY DEF Nodes
  <2> QED
    BY <1>1, <2>1 DEF Untouched, Complete, Adding, PartA
<1>4. ASSUME NEW n \in Nodes
      PROVE  /\ content'[n.cic] = PartB(n) \cup PartA(n)
             /\ SumSoFar[n] = PartB(n) \cup PartA(n)
  <2>1. content'[n.cic] = PartB(n) \cup PartA(n)
    <3>1. th' = th /\ todo' = {}
      BY <1>1 DEF Close
    <3>2. PartA(n) \subseteq content'[n.cic]
      BY <1>1, <1>2, <3>1 DEF Complete, Adding, PartA
    <3>3. PartB(n) \subseteq content'[n.cic]
      BY <1>2, <1>3 DEF Complete
    <3> QED
      BY <1>2, <3>2, <3>3 DEF Content
  <2>2. CASE Untouched(n)
    <3>1. PartA(n) = {}
      <4>1. PICK g \in Schedule : n \in g /\ ~Touched(g)
        BY <1>1, <2>2 DEF Untouched, Nodes
      <4>2. n.cia \in DOMAIN grpmap => zeroa(n)
        BY <4>1 DEF Touched
      <4>3. ~zeroa(n) => TermA(n) \in content[n.cic]
        BY <1>3 DEF PartA
      <4> QED
        BY <1>1, <4>2, <4>3 DEF Content, PartA
    <3> QED
      BY <2>1, <2>2, <3>1 DEF SumSoFar
  <2>3. CASE ~Untouched(n)
    <3>1. PartB(n) \subseteq content[n.cic]
      BY <2>3 DEF Complete
    <3> QED
      BY <1>3, <2>1, <2>3, <3>1 DEF SumSoFar, Content
  <2> QED
    BY <2>1, <2>2, <2>3
<1>5. SumSoFar' = SumSoFar
  <2>1. \A n \in Nodes : SumSoFar'[n] = SumSoFar[n]
    BY <1>3, <1>4 DEF SumSoFar
  <2> QED
    BY <2>1 DEF SumSoFar
<1>6. ~(stream = "closed") /\ (stream = "closed")' = TRUE
      /\ \A n \in Nodes : SumSoFar[n] = Sum!PartB(n) \cup Sum!PartA(n)
  BY <1>1, <1>4, SameTerms
<1> QED
  BY <1>5, <1>6 DEF Sum!Close, SumSoFar

(* The sum starts empty.                                                   *)
LEMMA RefineInit == Init => Sum!Init
<1> SUFFICES ASSUME Init PROVE Sum!Init
  OBVIOUS
<1>1. SumInv /\ failed = FALSE /\ stream = "new" /\ \A t \in Threads : th[t].at = "idle"
  BY SumInit DEF Init, NoOne
<1>2. ASSUME NEW n \in Nodes PROVE SumSoFar[n] = Sum!PartB(n)
  <2>1. ~Untouched(n) => PartB(n) \subseteq content[n.cic]
    BY <1>1 DEF SumInv, Complete
  <2>2. TermA(n) \notin content[n.cic] \/ zeroa(n)
    BY <1>1 DEF SumInv, Content, Init, NoNumbers
  <2>3. content[n.cic] \subseteq PartB(n) \cup PartA(n)
    BY <1>1 DEF SumInv, Content
  <2> QED
    BY <2>1, <2>2, <2>3, SameTerms DEF SumSoFar, PartA
<1>3. SumSoFar = [n \in Nodes |-> Sum!PartB(n)]
  BY <1>2 DEF SumSoFar
<1> QED
  BY <1>1, <1>3 DEF Sum!Init, SumSoFar

(* The stream with its lazy copies, its group mutexes and its concurrent   *)
(* put()s is a sum to which one term after another is added, and which is  *)
(* complete when it is closed, unless some put() threw before.             *)
THEOREM Implements == Spec => SumSpec
<1>1. LockInv /\ SumInv /\ [Next]_vars =>
        [Sum!Next]_<<[n \in Nodes |-> IF Untouched(n) THEN PartB(n) ELSE content[n.cic]],
                     stream = "closed", failed>>
  <2> SUFFICES ASSUME LockInv, SumInv, [Next]_vars, ~failed'
               PROVE  \/ /\ (\E n \in Nodes : Sum!AddTerm(n)) \/ Sum!Close
                         /\ ~failed /\ UNCHANGED failed
                      \/ /\ UNCHANGED SumSoFar /\ UNCHANGED (stream = "closed")
                         /\ UNCHANGED failed
    BY DEF Sum!Next, SumSoFar
  <2>1. ~failed /\ UNCHANGED failed
    <3>1. ASSUME NEW t \in Threads, Put(t) \/ Step(t)
          PROVE  failed' = failed
      <4>1. CASE Put(t)
        BY <4>1 DEF Put
      <4>2. CASE Step(t)
        BY <4>2 DEF Step, TouchRead, TouchWrite, TouchDone, TouchThrows, AddThrows,
                    Lock, AddRead, AddWrite, PutReturns
      <4> QED
        BY <3>1, <4>1, <4>2
    <3>2. Open \/ Close \/ Done \/ UNCHANGED vars => failed' = failed
      BY DEF Open, Close, Done, vars
    <3>3. failed' = failed
      BY <3>1, <3>2 DEF Next
    <3> QED
      BY <3>3
  <2>2. Inv
    BY <2>1 DEF Inv
  <2>3. CASE Open
    <3>1. \A n \in Nodes : Untouched(n)' <=> Untouched(n)
      BY <2>3 DEF Open, Untouched, Touched
    <3> QED
      BY <2>1, <2>3, <3>1, SumUnchanged DEF Open
  <2>4. CASE Close
    BY <2>1, <2>2, <2>4, RefineClose
  <2>5. ASSUME NEW t \in Threads, Put(t)
        PROVE  UNCHANGED SumSoFar /\ UNCHANGED (stream = "closed")
    BY <2>5, RefinePut DEF Put
  <2>6. ASSUME NEW t \in Threads, Step(t)
        PROVE  \/ \E n \in Nodes : Sum!AddTerm(n)
               \/ UNCHANGED SumSoFar /\ UNCHANGED (stream = "closed")
    <3>1. UNCHANGED stream
      BY <2>6 DEF Step, TouchRead, TouchWrite, TouchDone, TouchThrows, AddThrows, Lock,
                  AddRead, AddWrite, PutReturns
    <3> QED
      BY <2>2, <2>6, <3>1, RefineStep
  <2>7. CASE UNCHANGED vars
    <3>1. \A n \in Nodes : Untouched(n)' <=> Untouched(n)
      BY <2>7 DEF vars, Untouched, Touched
    <3> QED
      BY <2>1, <2>7, <3>1, SumUnchanged DEF vars
  <2> QED
    BY <2>1, <2>3, <2>4, <2>5, <2>6, <2>7 DEF Next, Done
<1> QED
  BY Invariance, RefineInit, <1>1, PTL DEF Spec, SumSpec, Sum!Spec
=============================================================================
