----------------------- MODULE AdditionSchedule_proofs -----------------------
(***************************************************************************)
(* addition_schedule::build makes well-formed schedules: for any number of *)
(* threads and blocks, for any symmetries of A and B and of C that both    *)
(* have in common, and for any batch length.  This is what gen_bto_aux_add *)
(* assumes of the schedule it is given (AuxAdd_proofs).                    *)
(***************************************************************************)
EXTENDS AdditionSchedule, Orbits_proofs

SymAB == SymA \cup SymB
Filling == {"booka", "bookb"}
Claiming(t) == task[t].at \in {"claim", "publish"}
Publishing(t) == task[t].at = "publish"

(* Tasks belong to the submission under way, and nothing is claimed before *)
(* the books are full.                                                     *)
PhaseInv ==
    /\ \A t \in Threads : /\ task[t].at = "fill" => phase \in Filling
                          /\ Claiming(t) => phase = "schedule"
    /\ phase \in Filling => /\ sch = <<>> /\ ia = {} /\ ib = {}
                            /\ \A c \in DOMAIN booka : ~booka[c].visited
                            /\ \A c \in DOMAIN bookb : ~bookb[c].visited
    /\ phase = "built" => ia = {} /\ ib = {}

(* An entry comes from the canonical block of its orbit, together with all *)
(* other entries that do.                                                  *)
RightBook(sym, orbits, book) ==
    \A c \in DOMAIN book :
        /\ book[c].cidx \in Idx /\ Canonical(sym, book[c].cidx)
        /\ c \in Range(orbits[book[c].cidx])
        /\ Range(orbits[book[c].cidx]) \subseteq DOMAIN book
BookInv ==
    /\ \A k \in nza : Canonical(SymA, k)
    /\ \A k \in nzb : Canonical(SymB, k)
    /\ \A t \in Threads : task[t].at = "fill" => \A k \in task[t].batch :
          Canonical(IF phase = "booka" THEN SymA ELSE SymB, k)
    /\ RightBook(SymA, OrbitsA, booka) /\ RightBook(SymB, OrbitsB, bookb)

(* An orbit is claimed when the flag of its first index is set.  It is     *)
(* claimed once: it has been published, or one task is about to do it.     *)
Claimed(i) == visited(FlagOf(i))
ClaimInv ==
    /\ \A c \in DOMAIN booka \cap DOMAIN bookb : ~bookb[c].visited
    /\ \A t \in Threads : Claiming(t) => task[t].batch \subseteq InBooks
    /\ \A t \in Threads : Publishing(t) => task[t].idx \in InBooks /\ Claimed(task[t].idx)
    /\ \A t, u \in Threads : Publishing(t) /\ Publishing(u)
          /\ FlagOf(task[t].idx) = FlagOf(task[u].idx) => t = u
    /\ \A c \in InBooks : visited(c) =>
          /\ FlagOf(c) = c
          /\ \/ \E t \in Threads : Publishing(t) /\ FlagOf(task[t].idx) = c
             \/ \E n \in DOMAIN sch : sch[n] = Group(c)
PublishInv ==
    /\ IsInjective(sch)
    /\ \A n \in DOMAIN sch : \E i \in InBooks :
          /\ sch[n] = Group(i) /\ Claimed(i)
          /\ \A t \in Threads : Publishing(t) => FlagOf(task[t].idx) # FlagOf(i)

(* What is not yet claimed is still to be looked at.                       *)
CoverInv == phase \notin Filling => \A c \in InBooks :
    c \in ia \cup ib \/ (\E t \in Threads : c \in task[t].batch) \/ Claimed(c)

Inv == TypeOK /\ PhaseInv /\ BookInv /\ ClaimInv /\ PublishInv /\ CoverInv

-----------------------------------------------------------------------------
(* Orbits *)

(* The generators are permutations of the indexes.                         *)
LEMMA Symmetries ==
    /\ SymA \subseteq Bijection(Idx, Idx) /\ SymB \subseteq Bijection(Idx, Idx)
    /\ SymAB \subseteq Bijection(Idx, Idx)
    /\ SymA \subseteq [Idx -> Idx] /\ SymB \subseteq [Idx -> Idx] /\ SymAB \subseteq [Idx -> Idx]
    /\ SymC \subseteq [Idx -> Idx]
  BY SymAssumption DEF SymAB, Bijection, Injection

(* A canonical block of A or B is canonical under the symmetry of C, and   *)
(* in the combined orbit of each block it is related to.                   *)
LEMMA CanonicalOfC ==
    ASSUME NEW k \in Idx
    PROVE  /\ Canonical(SymA, k) => Canonical(SymC, k)
           /\ Canonical(SymB, k) => Canonical(SymC, k)
  BY CommonAssumption DEF Canonical

(* What a symmetry of A or B relates is in one combined orbit.             *)
LEMMA Reachable ==
    ASSUME NEW k \in Idx, NEW c \in OrbitOf(SymA, k) \cup OrbitOf(SymB, k)
    PROVE  c \in Idx /\ OrbitOf(SymAB, c) = OrbitOf(SymAB, k)
<1>1. c \in OrbitOf(SymAB, k)
  BY Symmetries, OrbitMore DEF SymAB
<1> QED
  BY <1>1, Symmetries, SameOrbit

(* The lists of orbits that the schedule is built from (Orbits_proofs): the*)
(* canonical blocks of C within each orbit, in ascending order.            *)
CanonicalIn(orb) == {j \in orb : Canonical(SymC, j)}

LEMMA OrbitsRight == \A i \in Idx :
    /\ Range(OrbitsA[i]) = CanonicalIn(OrbitOf(SymA, i))
    /\ Range(OrbitsB[i]) = CanonicalIn(OrbitOf(SymB, i))
    /\ Range(OrbitsAB[i]) = CanonicalIn(OrbitOf(SymA \cup SymB, i))
    /\ OrbitsAB[i] \in Seq(Idx) /\ Ascending(OrbitsAB[i])
<1> SUFFICES ASSUME NEW i \in Idx
             PROVE  /\ Range(OrbitsA[i]) = CanonicalIn(OrbitOf(SymA, i))
                    /\ Range(OrbitsB[i]) = CanonicalIn(OrbitOf(SymB, i))
                    /\ Range(OrbitsAB[i]) = CanonicalIn(OrbitOf(SymA \cup SymB, i))
                    /\ OrbitsAB[i] \in Seq(Idx) /\ Ascending(OrbitsAB[i])
  OBVIOUS
<1>1. /\ SymA \subseteq Bijection(Idx, Idx) /\ SymB \subseteq Bijection(Idx, Idx)
      /\ SymC \subseteq Bijection(Idx, Idx)
  BY SymAssumption
<1>2. \A j \in Idx : OrbitOf(SymC, j) \subseteq OrbitOf(SymA, j)
                     /\ OrbitOf(SymC, j) \subseteq OrbitOf(SymB, j)
  BY CommonAssumption
<1>3. OrbitsA[i] \in CanonicalList(SymC, OrbitOf(SymA, i))
  BY <1>1, <1>2, SubgroupOrbits DEF OrbitsA
<1>4. OrbitsB[i] \in CanonicalList(SymC, OrbitOf(SymB, i))
  BY <1>1, <1>2, SubgroupOrbits DEF OrbitsB
<1>5. OrbitsAB[i] \in CanonicalList(SymC, OrbitOf(SymA \cup SymB, i))
  BY <1>1, <1>2, CombinedOrbits DEF OrbitsAB
<1> QED
  BY <1>3, <1>4, <1>5 DEF CanonicalList, CanonicalIn

-----------------------------------------------------------------------------
(* The books *)

(* The blocks of C in the books are canonical, so each is in its own orbit.*)
LEMMA InBooksCanonical ==
    ASSUME TypeOK, BookInv, NEW c \in InBooks
    PROVE  /\ c \in Idx /\ Canonical(SymC, c) /\ c \in Present(c)
           /\ Range(OrbitsAB[c]) = CanonicalIn(OrbitOf(SymAB, c))
<1>1. c \in Idx
  BY DEF TypeOK, InBooks
<1>2. Canonical(SymC, c)
  <2>1. CASE c \in DOMAIN booka
    <3>1. booka[c].cidx \in Idx /\ c \in Range(OrbitsA[booka[c].cidx])
      BY <2>1 DEF BookInv, RightBook
    <3> QED
      BY <3>1, OrbitsRight DEF CanonicalIn
  <2>2. CASE c \in DOMAIN bookb
    <3>1. bookb[c].cidx \in Idx /\ c \in Range(OrbitsB[bookb[c].cidx])
      BY <2>2 DEF BookInv, RightBook
    <3> QED
      BY <3>1, OrbitsRight DEF CanonicalIn
  <2> QED
    BY <2>1, <2>2 DEF InBooks
<1>3. Range(OrbitsAB[c]) = CanonicalIn(OrbitOf(SymAB, c))
  BY <1>1, OrbitsRight DEF SymAB
<1>4. c \in OrbitOf(SymAB, c)
  BY <1>1, Symmetries, OrbitLeast
<1> QED
  BY <1>1, <1>2, <1>3, <1>4 DEF Present, CanonicalIn

(* The flag of an orbit is that of its least block in a book.              *)
LEMMA FlagFirst ==
    ASSUME TypeOK, BookInv, NEW i \in InBooks
    PROVE  FlagOf(i) \in Present(i) /\ \A c \in Present(i) : FlagOf(i) <= c
<1> DEFINE o == OrbitsAB[i]
<1> DEFINE S == {k \in DOMAIN o : o[k] \in InBooks}
<1>1. i \in Idx /\ i \in Present(i)
  BY InBooksCanonical
<1>2. o \in Seq(Idx) /\ Ascending(o)
  BY <1>1, OrbitsRight
<1> HIDE DEF o
<1>3. DOMAIN o \subseteq Nat /\ \A k \in DOMAIN o : o[k] \in Nat
  <2>1. DOMAIN o = 1..Len(o) /\ Len(o) \in Nat
    BY <1>2
  <2>2. \A k \in DOMAIN o : o[k] \in Idx
    BY <1>2
  <2>3. \A x \in Idx : x \in Nat
    BY IdxAssumption
  <2>4. \A k \in DOMAIN o : k \in Nat
    BY <2>1
  <2> QED
    BY <2>2, <2>3, <2>4
<1>4. S \in SUBSET Nat /\ S # {}
  BY <1>1, <1>3 DEF Present, Range, o
<1>5. Min(S) \in S /\ \A k \in S : Min(S) <= k
  BY <1>4, MinOfNaturals
<1>6. FlagOf(i) = o[Min(S)]
  BY DEF FlagOf, o
<1>7. FlagOf(i) \in Present(i)
  BY <1>5, <1>6 DEF Present, Range, o
<1>8. ASSUME NEW c \in Present(i) PROVE FlagOf(i) <= c
  <2>1. PICK k \in S : o[k] = c
    BY DEF Present, Range, o
  <2> DEFINE m == Min(S)
  <2> HIDE DEF m
  <2>2. m \in DOMAIN o /\ k \in DOMAIN o /\ m <= k /\ m \in Nat /\ k \in Nat
    BY <1>3, <1>5 DEF m
  <2>3. m < k => o[m] < o[k]
    BY <1>2, <2>2 DEF Ascending
  <2> QED
    BY <1>3, <1>6, <2>1, <2>2, <2>3 DEF m
<1> QED
  BY <1>7, <1>8

(* All blocks of a combined orbit have the same flag and the same group.   *)
LEMMA SameOrbitSameGroup ==
    ASSUME TypeOK, BookInv, NEW i \in InBooks, NEW c \in InBooks,
           OrbitOf(SymAB, c) = OrbitOf(SymAB, i)
    PROVE  Present(c) = Present(i) /\ FlagOf(c) = FlagOf(i) /\ Group(c) = Group(i)
<1>1. Present(c) = Present(i)
  BY InBooksCanonical DEF Present
<1>2. FlagOf(c) \in Present(c) /\ FlagOf(i) \in Present(c)
  BY <1>1, FlagFirst
<1>3. FlagOf(c) <= FlagOf(i) /\ FlagOf(i) <= FlagOf(c)
  BY <1>1, FlagFirst
<1>4. FlagOf(c) \in Nat /\ FlagOf(i) \in Nat
  BY <1>2, IdxAssumption DEF Present, InBooks, TypeOK
<1> QED
  BY <1>1, <1>3, <1>4 DEF Group

(* The blocks of a group agree on its flag and its nodes.                  *)
LEMMA PresentSame ==
    ASSUME TypeOK, BookInv, NEW i \in InBooks, NEW c \in Present(i)
    PROVE  /\ c \in InBooks /\ OrbitOf(SymAB, c) = OrbitOf(SymAB, i)
           /\ Present(c) = Present(i) /\ FlagOf(c) = FlagOf(i) /\ Group(c) = Group(i)
<1>1. c \in InBooks /\ c \in OrbitOf(SymAB, i) /\ i \in Idx
  BY InBooksCanonical DEF Present, CanonicalIn
<1>2. OrbitOf(SymAB, c) = OrbitOf(SymAB, i)
  BY <1>1, Symmetries, SameOrbit
<1> QED
  BY <1>1, <1>2, SameOrbitSameGroup

(* The flag stands for itself.                                             *)
LEMMA FlagOfFlag ==
    ASSUME TypeOK, BookInv, NEW i \in InBooks
    PROVE  /\ FlagOf(i) \in InBooks /\ FlagOf(FlagOf(i)) = FlagOf(i)
           /\ Group(FlagOf(i)) = Group(i)
  BY FlagFirst, PresentSame

(* Different flags, different groups.                                      *)
LEMMA GroupFlag ==
    ASSUME TypeOK, BookInv, NEW i \in InBooks, NEW j \in InBooks, Group(i) = Group(j)
    PROVE  FlagOf(i) = FlagOf(j)
<1>1. i \in Present(i)
  BY InBooksCanonical
<1>2. NodeOf(i) \in Group(j)
  BY <1>1 DEF Group
<1>3. PICK c \in Present(j) : NodeOf(i) = NodeOf(c)
  BY <1>2 DEF Group
<1>4. i = c
  BY <1>3 DEF NodeOf
<1> QED
  BY <1>3, <1>4, PresentSame

(* All this does not depend on the flags.                                  *)
LEMMA SameBooks ==
    ASSUME DOMAIN booka' = DOMAIN booka, DOMAIN bookb' = DOMAIN bookb,
           \A c \in DOMAIN booka : booka'[c].cidx = booka[c].cidx,
           \A c \in DOMAIN bookb : bookb'[c].cidx = bookb[c].cidx
    PROVE  InBooks' = InBooks /\ \A i : /\ Present(i)' = Present(i)
                                        /\ FlagOf(i)' = FlagOf(i)
                                        /\ Group(i)' = Group(i)
<1>1. InBooks' = InBooks
  BY DEF InBooks
<1>2. ASSUME NEW i PROVE Present(i)' = Present(i) /\ FlagOf(i)' = FlagOf(i)
  BY <1>1 DEF Present, FlagOf
<1>3. ASSUME NEW c PROVE NodeOf(c)' = NodeOf(c)
  BY DEF NodeOf
<1>4. ASSUME NEW i PROVE Group(i)' = Group(i)
  BY <1>2, <1>3 DEF Group
<1> QED
  BY <1>1, <1>2, <1>4

-----------------------------------------------------------------------------
(* Tasks *)

TaskType == [at : {"none", "fill", "claim", "publish"}, batch : SUBSET Idx,
             idx : Idx \cup {NoBlock}]
TaskOK(x) == /\ x \in TaskType
             /\ x.at = "none" => x = NoTask
             /\ x.at \in {"fill", "claim"} => x.batch # {}
             /\ Cardinality(x.batch) <= BatchLen

(* The finite sets a batch is made of.                                     *)
LEMMA FiniteIdx ==
    ASSUME NEW S \in SUBSET Idx
    PROVE  IsFiniteSet(S) /\ Cardinality(S) \in Nat
  BY IdxAssumption, FS_Subset, FS_CardinalityType

(* A batch that is not too long makes a task.                              *)
LEMMA NewTaskOK ==
    ASSUME NEW at \in {"fill", "claim"}, NEW batch \in SUBSET Idx, Cardinality(batch) <= BatchLen
    PROVE  /\ TaskOK(IF batch = {} THEN NoTask ELSE NewTask(at, batch))
           /\ TaskOK(NoTask)
<1>1. Cardinality({}) = 0 /\ BatchLen \in Nat
  BY FS_EmptySet, BatchAssumption
<1>2. TaskOK(NoTask)
  BY <1>1 DEF TaskOK, TaskType, NoTask
<1>3. batch # {} => TaskOK(NewTask(at, batch))
  BY DEF TaskOK, TaskType, NewTask
<1> QED
  BY <1>2, <1>3

(* A step changes the task of one thread.                                  *)
LEMMA TaskChange ==
    ASSUME TypeOK, NEW t \in Threads, NEW x, TaskOK(x), task' = [task EXCEPT ![t] = x]
    PROVE  /\ task' \in [Threads -> TaskType]
           /\ \A u \in Threads : TaskOK(task'[u])
           /\ task'[t] = x
           /\ \A u \in Threads : u # t => task'[u] = task[u]
<1>1. task \in [Threads -> TaskType] /\ \A u \in Threads : TaskOK(task[u])
  BY DEF TypeOK, TaskOK, TaskType
<1>2. x \in TaskType
  BY DEF TaskOK
<1> QED
  BY <1>1, <1>2

(* The parts of the type invariant.                                        *)
BookOK(book) == /\ DOMAIN book \subseteq Idx
                /\ \A c \in DOMAIN book : book[c] \in [cidx : Idx, visited : BOOLEAN]
(* The type invariant, put together from its parts.                        *)
LEMMA TypeParts ==
    ASSUME phase' \in {"booka", "bookb", "schedule", "built"},
           nza' \subseteq Idx, nzb' \subseteq Idx, BookOK(booka'), BookOK(bookb'),
           ia' \subseteq DOMAIN booka', ib' \subseteq DOMAIN bookb',
           task' \in [Threads -> TaskType], \A u \in Threads : TaskOK(task'[u]),
           sch' \in Seq(SUBSET Node(Idx))
    PROVE  TypeOK'
  BY DEF TypeOK, BookOK, TaskType, TaskOK

(* The type invariant, taken apart.                                        *)
LEMMA TypeIs ==
    ASSUME TypeOK
    PROVE  /\ BookOK(booka) /\ BookOK(bookb)
           /\ ia \subseteq DOMAIN booka /\ ib \subseteq DOMAIN bookb
           /\ nza \subseteq Idx /\ nzb \subseteq Idx
           /\ phase \in {"booka", "bookb", "schedule", "built"}
           /\ task \in [Threads -> TaskType] /\ \A u \in Threads : TaskOK(task[u])
           /\ sch \in Seq(SUBSET Node(Idx))
  BY DEF TypeOK, BookOK, TaskType, TaskOK

-----------------------------------------------------------------------------
(* Filling the books *)

(* Nothing is in a book or a task.                                         *)
LEMMA InitInv == Init => Inv
<1> SUFFICES ASSUME Init PROVE Inv
  OBVIOUS
<1> USE DEF Init, EmptyBook
<1>1. TypeOK
  <2>1. Cardinality({}) = 0 /\ BatchLen \in Nat
    BY FS_EmptySet, BatchAssumption
  <2>2. /\ NoTask \in TaskType /\ NoTask.at = "none" /\ NoTask.batch = {}
    BY DEF NoTask, TaskType
  <2>3. task \in [Threads -> TaskType] /\ \A t \in Threads : task[t] = NoTask
    BY <2>2
  <2>4. sch \in Seq(SUBSET Node(Idx))
    OBVIOUS
  <2>5. \A book \in {booka, bookb} : DOMAIN book = {}
    OBVIOUS
  <2> QED
    BY <2>1, <2>2, <2>3, <2>4, <2>5 DEF TypeOK, TaskType
<1>2. PhaseInv
  BY DEF PhaseInv, Claiming, NoTask, Filling
<1>3. BookInv
  BY DEF BookInv, RightBook, NoTask
<1>4. InBooks = {}
  BY DEF InBooks
<1>5. ClaimInv
  BY <1>4 DEF ClaimInv, Claiming, Publishing, NoTask
<1>6. PublishInv
  BY DEF PublishInv, IsInjective
<1>7. CoverInv
  BY DEF CoverInv, Filling
<1> QED
  BY <1>1, <1>2, <1>3, <1>5, <1>6, <1>7 DEF Inv

(* Before the third submission there are no claims.                        *)
LEMMA FillingEnough ==
    ASSUME TypeOK', PhaseInv', BookInv', phase' \in Filling
    PROVE  Inv'
<1>1. \A t \in Threads : ~Claiming(t)' /\ ~Publishing(t)'
  BY DEF PhaseInv, Filling, Claiming, Publishing
<1>2. \A c \in InBooks' : ~visited(c)'
  BY DEF PhaseInv, InBooks, visited
<1>3. \A c \in DOMAIN booka' \cap DOMAIN bookb' : ~bookb'[c].visited
  BY DEF PhaseInv
<1>4. ClaimInv'
  BY <1>1, <1>2, <1>3 DEF ClaimInv
<1>5. PublishInv'
  BY DEF PublishInv, IsInjective, PhaseInv
<1>6. CoverInv'
  BY DEF CoverInv
<1> QED
  BY <1>4, <1>5, <1>6 DEF Inv

(* A task of the first two kinds takes canonical blocks of its own tensor. *)
LEMMA NextFillTaskInv ==
    ASSUME Inv, NEW t \in Threads, NextFillTask(t)
    PROVE  Inv'
<1>1. TypeOK /\ PhaseInv /\ BookInv
  BY DEF Inv
<1>2. UNCHANGED <<phase, booka, bookb, ia, ib, sch>>
  BY DEF NextFillTask
<1>3. ASSUME NEW S \in SUBSET Idx, NEW rest \in SUBSET Idx, rest # {}, S \in BatchOf(rest)
      PROVE  S # {} /\ Cardinality(S) <= BatchLen
  <2>1. Cardinality(rest) # 0 /\ Cardinality(rest) \in Nat
    BY <1>3, FiniteIdx, FS_EmptySet
  <2>2. Cardinality(S) # 0 /\ Cardinality(S) <= BatchLen
    BY <1>3, <2>1, BatchAssumption DEF BatchOf
  <2> QED
    BY <2>2, FS_EmptySet
<1>4. PICK S \in SUBSET Idx :
        /\ S # {} /\ Cardinality(S) <= BatchLen /\ task' = [task EXCEPT ![t] = NewTask("fill", S)]
        /\ \/ phase = "booka" /\ S \subseteq nza /\ nza' = nza \ S /\ nzb' = nzb
           \/ phase = "bookb" /\ S \subseteq nzb /\ nzb' = nzb \ S /\ nza' = nza
  <2>1. nza \in SUBSET Idx /\ nzb \in SUBSET Idx
    BY <1>1, TypeIs
  <2>2. \A rest, S : S \in BatchOf(rest) => S \subseteq rest
    BY DEF BatchOf
  <2> QED
    BY <1>3, <2>1, <2>2 DEF NextFillTask
<1>5. TaskOK(NewTask("fill", S))
  BY <1>4, NewTaskOK
<1>6. /\ task' \in [Threads -> TaskType] /\ \A u \in Threads : TaskOK(task'[u])
      /\ task'[t] = NewTask("fill", S) /\ \A u \in Threads : u # t => task'[u] = task[u]
  BY <1>1, <1>4, <1>5, TaskChange
<1>7. TypeOK'
  BY <1>1, <1>2, <1>4, <1>6, TypeIs, TypeParts
<1>8. phase \in Filling
  BY <1>4 DEF Filling
<1>9. PhaseInv'
  BY <1>1, <1>2, <1>6, <1>8 DEF PhaseInv, Claiming, NewTask, InBooks, visited
<1>10. BookInv'
  BY <1>1, <1>2, <1>4, <1>6 DEF BookInv, RightBook, NewTask
<1> QED
  BY <1>2, <1>7, <1>8, <1>9, <1>10, FillingEnough

(* A batch makes a right book.                                             *)
LEMMA EntriesRight ==
    ASSUME NEW sym, sym \subseteq Bijection(Idx, Idx), NEW orbits,
           \A k \in Idx : Range(orbits[k]) = CanonicalIn(OrbitOf(sym, k)),
           NEW batch \in SUBSET Idx, \A k \in batch : Canonical(sym, k)
    PROVE  /\ BookOK(Entries(orbits, batch))
           /\ RightBook(sym, orbits, Entries(orbits, batch))
           /\ \A c \in DOMAIN Entries(orbits, batch) : ~Entries(orbits, batch)[c].visited
<1> DEFINE e == Entries(orbits, batch)
<1>1. DOMAIN e = Reached(orbits, batch)
  BY DEF Entries
<1>2. ASSUME NEW c \in DOMAIN e
      PROVE  \E k \in batch : c \in Range(orbits[k]) /\ e[c] = [cidx |-> k, visited |-> FALSE]
  <2> DEFINE S == {k \in batch : c \in Range(orbits[k])}
  <2>1. PICK k \in batch : c \in Range(orbits[k])
    BY <1>1 DEF Reached
  <2>2. ASSUME NEW j \in S PROVE j = k
    <3>1. c \in OrbitOf(sym, j) \cap OrbitOf(sym, k)
      BY <2>1 DEF CanonicalIn
    <3> QED
      BY <2>1, <3>1, OneCanonical
  <2>3. S = {k}
    BY <2>1, <2>2
  <2>4. k \in Nat
    BY IdxAssumption
  <2>5. Max({k}) = k
    BY <2>4 DEF Max
  <2>6. e[c] = [cidx |-> Max(S), visited |-> FALSE]
    BY <1>1 DEF Entries
  <2> QED
    BY <2>1, <2>3, <2>5, <2>6
<1> HIDE DEF e
<1>3. sym \subseteq [Idx -> Idx]
  BY DEF Bijection, Injection
<1>4. ASSUME NEW c \in DOMAIN e PROVE c \in Idx
  BY <1>2, <1>3, OrbitLeast DEF CanonicalIn
<1>5. BookOK(e)
  <2>1. \A k \in batch : [cidx |-> k, visited |-> FALSE] \in [cidx : Idx, visited : BOOLEAN]
    OBVIOUS
  <2>2. \A c \in DOMAIN e : e[c] \in [cidx : Idx, visited : BOOLEAN]
    BY <1>2, <2>1
  <2> QED
    BY <1>4, <2>2 DEF BookOK
<1>6. RightBook(sym, orbits, e)
  <2>1. ASSUME NEW c \in DOMAIN e
        PROVE  /\ e[c].cidx \in Idx /\ Canonical(sym, e[c].cidx)
               /\ c \in Range(orbits[e[c].cidx])
               /\ Range(orbits[e[c].cidx]) \subseteq DOMAIN e
    <3>1. PICK k \in batch : c \in Range(orbits[k]) /\ e[c] = [cidx |-> k, visited |-> FALSE]
      BY <1>2
    <3>2. Range(orbits[k]) \subseteq DOMAIN e
      BY <1>1 DEF Reached
    <3> QED
      BY <3>1, <3>2
  <2> QED
    BY <2>1 DEF RightBook
<1>7. \A c \in DOMAIN e : ~e[c].visited
  BY <1>2
<1> QED
  BY <1>5, <1>6, <1>7 DEF e

(* The entries of two right books are right together.                      *)
LEMMA InsertRight ==
    ASSUME NEW sym, NEW orbits, NEW book, NEW e, RightBook(sym, orbits, book),
           RightBook(sym, orbits, e), BookOK(book), BookOK(e),
           \A c \in DOMAIN book : ~book[c].visited, \A c \in DOMAIN e : ~e[c].visited
    PROVE  /\ BookOK(Inserted(book, e)) /\ RightBook(sym, orbits, Inserted(book, e))
           /\ DOMAIN book \subseteq DOMAIN Inserted(book, e)
           /\ \A c \in DOMAIN Inserted(book, e) : ~Inserted(book, e)[c].visited
<1> DEFINE b == Inserted(book, e)
<1>1. DOMAIN b = DOMAIN book \cup DOMAIN e
  BY DEF Inserted
<1>2. \A c \in DOMAIN b : b[c] = IF c \in DOMAIN book THEN book[c] ELSE e[c]
  BY DEF Inserted
<1> HIDE DEF b
<1>3. BookOK(b) /\ \A c \in DOMAIN b : ~b[c].visited
  BY <1>1, <1>2 DEF BookOK
<1>4. RightBook(sym, orbits, b)
  BY <1>1, <1>2 DEF RightBook
<1> QED
  BY <1>1, <1>3, <1>4 DEF b

(* What a task inserts comes from the blocks of its batch.                 *)
LEMMA FillBookInv ==
    ASSUME Inv, NEW t \in Threads, FillBook(t)
    PROVE  Inv'
<1>1. TypeOK /\ PhaseInv /\ BookInv
  BY DEF Inv
<1>2. UNCHANGED <<phase, nza, nzb, ia, ib, sch>> /\ phase \in Filling
      /\ task[t].at = "fill" /\ task' = [task EXCEPT ![t] = NoTask]
  BY DEF FillBook, Filling
<1>3. task[t].batch \in SUBSET Idx /\ TaskOK(NoTask)
  <2>1. Cardinality({}) = 0 /\ {} \in SUBSET Idx /\ 0 <= BatchLen
    BY FS_EmptySet, BatchAssumption
  <2> QED
    BY <1>1, <2>1, TypeIs, NewTaskOK DEF TaskOK, TaskType
<1>4. /\ task' \in [Threads -> TaskType] /\ \A u \in Threads : TaskOK(task'[u])
      /\ task'[t] = NoTask /\ \A u \in Threads : u # t => task'[u] = task[u]
  BY <1>1, <1>2, <1>3, TaskChange
<1>5. /\ \A k \in Idx : Range(OrbitsA[k]) = CanonicalIn(OrbitOf(SymA, k))
      /\ \A k \in Idx : Range(OrbitsB[k]) = CanonicalIn(OrbitOf(SymB, k))
  BY OrbitsRight
<1>6. /\ BookOK(booka') /\ RightBook(SymA, OrbitsA, booka') /\ DOMAIN booka \subseteq DOMAIN booka'
      /\ \A c \in DOMAIN booka' : ~booka'[c].visited
  <2>1. BookOK(booka) /\ RightBook(SymA, OrbitsA, booka) /\ \A c \in DOMAIN booka : ~booka[c].visited
    BY <1>1, <1>2, TypeIs DEF BookInv, PhaseInv
  <2>2. CASE phase = "booka" /\ booka' = Inserted(booka, Entries(OrbitsA, task[t].batch))
    <3>1. \A k \in task[t].batch : Canonical(SymA, k)
      BY <1>1, <1>2, <2>2 DEF BookInv
    <3>2. /\ BookOK(Entries(OrbitsA, task[t].batch))
          /\ RightBook(SymA, OrbitsA, Entries(OrbitsA, task[t].batch))
          /\ \A c \in DOMAIN Entries(OrbitsA, task[t].batch) : ~Entries(OrbitsA, task[t].batch)[c].visited
      BY <1>3, <1>5, <3>1, Symmetries, EntriesRight
    <3> QED
      BY <2>1, <2>2, <3>2, InsertRight
  <2>3. CASE booka' = booka
    BY <2>1, <2>3
  <2> QED
    BY <2>2, <2>3 DEF FillBook
<1>7. /\ BookOK(bookb') /\ RightBook(SymB, OrbitsB, bookb') /\ DOMAIN bookb \subseteq DOMAIN bookb'
      /\ \A c \in DOMAIN bookb' : ~bookb'[c].visited
  <2>1. BookOK(bookb) /\ RightBook(SymB, OrbitsB, bookb) /\ \A c \in DOMAIN bookb : ~bookb[c].visited
    BY <1>1, <1>2, TypeIs DEF BookInv, PhaseInv
  <2>2. CASE phase = "bookb" /\ bookb' = Inserted(bookb, Entries(OrbitsB, task[t].batch))
    <3>1. \A k \in task[t].batch : Canonical(SymB, k)
      BY <1>1, <1>2, <2>2 DEF BookInv
    <3>2. /\ BookOK(Entries(OrbitsB, task[t].batch))
          /\ RightBook(SymB, OrbitsB, Entries(OrbitsB, task[t].batch))
          /\ \A c \in DOMAIN Entries(OrbitsB, task[t].batch) : ~Entries(OrbitsB, task[t].batch)[c].visited
      BY <1>3, <1>5, <3>1, Symmetries, EntriesRight
    <3> QED
      BY <2>1, <2>2, <3>2, InsertRight
  <2>3. CASE bookb' = bookb
    BY <2>1, <2>3
  <2> QED
    BY <2>2, <2>3 DEF FillBook
<1>8. TypeOK'
  BY <1>1, <1>2, <1>4, <1>6, <1>7, TypeIs, TypeParts
<1>9. PhaseInv'
  BY <1>1, <1>2, <1>4, <1>6, <1>7 DEF PhaseInv, Claiming, NoTask
<1>10. BookInv'
  BY <1>1, <1>2, <1>4, <1>6, <1>7 DEF BookInv, NoTask
<1> QED
  BY <1>2, <1>8, <1>9, <1>10, FillingEnough

-----------------------------------------------------------------------------
(* Claims *)

(* submit returns when its tasks are done.                                 *)
LEMMA SubmitReturnsInv ==
    ASSUME Inv, SubmitReturns
    PROVE  Inv'
<1>1. TypeOK /\ PhaseInv /\ BookInv
  BY DEF Inv
<1>2. /\ UNCHANGED <<nza, nzb, booka, bookb, task, sch>>
      /\ \A t \in Threads : task[t] = NoTask
  BY DEF SubmitReturns, AllIdle, Idle
<1>3. \A t \in Threads : task[t].at = "none" /\ task[t].batch = {}
  BY <1>2 DEF NoTask
<1>4. CASE phase = "booka" /\ phase' = "bookb" /\ UNCHANGED <<ia, ib>>
  <2>1. TypeOK'
    BY <1>1, <1>2, <1>4, TypeIs, TypeParts
  <2>2. PhaseInv'
    BY <1>1, <1>2, <1>3, <1>4 DEF PhaseInv, Filling, Claiming
  <2>3. BookInv'
    BY <1>1, <1>2, <1>3 DEF BookInv
  <2> QED
    BY <1>4, <2>1, <2>2, <2>3, FillingEnough DEF Filling
<1>5. CASE phase = "bookb" /\ phase' = "schedule" /\ ia' = DOMAIN booka /\ ib' = DOMAIN bookb
  <2>1. TypeOK'
    BY <1>1, <1>2, <1>5, TypeIs, TypeParts
  <2>2. PhaseInv'
    BY <1>1, <1>2, <1>3, <1>5 DEF PhaseInv, Filling, Claiming
  <2>3. BookInv'
    BY <1>1, <1>2, <1>3 DEF BookInv
  <2>4. sch = <<>> /\ \A c \in InBooks' : ~visited(c)'
    BY <1>1, <1>2, <1>5 DEF PhaseInv, Filling, InBooks, visited
  <2>5. ClaimInv'
    BY <1>1, <1>2, <1>3, <1>5, <2>4 DEF ClaimInv, Claiming, Publishing, PhaseInv, Filling
  <2>6. PublishInv'
    BY <1>2, <2>4 DEF PublishInv, IsInjective
  <2>7. CoverInv'
    BY <1>2, <1>5 DEF CoverInv, InBooks
  <2> QED
    BY <2>1, <2>2, <2>3, <2>5, <2>6, <2>7 DEF Inv
<1>6. CASE phase = "schedule" /\ phase' = "built" /\ ia = {} /\ ib = {} /\ UNCHANGED <<ia, ib>>
  <2>1. TypeOK'
    BY <1>1, <1>2, <1>6, TypeIs, TypeParts
  <2>2. PhaseInv'
    BY <1>1, <1>2, <1>3, <1>6 DEF PhaseInv, Filling, Claiming
  <2>3. BookInv'
    BY <1>1, <1>2, <1>3 DEF BookInv
  <2>4. InBooks' = InBooks /\ \A i : /\ Present(i)' = Present(i)
                                    /\ FlagOf(i)' = FlagOf(i)
                                    /\ Group(i)' = Group(i)
    BY <1>2, SameBooks
  <2>5. \A c : visited(c)' = visited(c) /\ Claimed(c)' = Claimed(c)
    BY <1>2, <2>4 DEF visited, Claimed
  <2>6. ClaimInv'
    BY <1>2, <1>3, <2>4, <2>5 DEF Inv, ClaimInv, Claiming, Publishing
  <2>7. PublishInv'
    BY <1>2, <1>3, <2>4, <2>5 DEF Inv, PublishInv, Publishing
  <2>8. CoverInv'
    BY <1>2, <1>6, <2>4, <2>5 DEF Inv, CoverInv, Filling
  <2> QED
    BY <2>1, <2>2, <2>3, <2>6, <2>7, <2>8 DEF Inv
<1> QED
  BY <1>4, <1>5, <1>6 DEF SubmitReturns

(* The first keys are at most as many as asked for: the number of keys     *)
(* below one tells them apart.                                             *)
LEMMA FewFirst ==
    ASSUME NEW S \in SUBSET Idx, NEW n \in Nat
    PROVE  Cardinality(FirstOf(S, n)) <= n
<1> DEFINE Below(k) == {j \in S : j < k}
<1> DEFINE F == FirstOf(S, n)
<1> DEFINE rank == [k \in F |-> Cardinality(Below(k))]
<1>0. S \in SUBSET Nat
  BY IdxAssumption
<1>1. ASSUME NEW k \in F PROVE k \in S /\ rank[k] \in 0..(n - 1)
  <2>1. Below(k) \in SUBSET Idx /\ k \in S /\ Cardinality(Below(k)) < n
    BY DEF FirstOf
  <2>2. Cardinality(Below(k)) \in Nat
    BY <2>1, FiniteIdx
  <2> QED
    BY <2>1, <2>2
<1>2. ASSUME NEW k \in F, NEW l \in F, k < l PROVE rank[k] # rank[l]
  <2>1. k \in Nat /\ l \in Nat /\ k \in S
    BY <1>0, <1>1
  <2>2. Below(k) \subseteq Below(l) /\ k \in Below(l) /\ k \notin Below(k)
    <3>1. k < l
      BY <1>2
    <3>2. \A j \in S : j \in Nat
      BY <1>0
    <3>3. \A j \in Nat : j < k => j < l
      BY <2>1, <3>1
    <3>4. ~(k < k)
      BY <2>1
    <3> QED
      BY <2>1, <3>1, <3>2, <3>3, <3>4
  <2>3. IsFiniteSet(Below(l))
    BY FiniteIdx
  <2>4. Cardinality(Below(k)) # Cardinality(Below(l))
    BY <2>2, <2>3, FS_Subset
  <2> QED
    BY <2>4
<1>3. rank \in Injection(F, 0..(n - 1))
  <2>1. rank \in [F -> 0..(n - 1)]
    BY <1>1
  <2>2. ASSUME NEW k \in F, NEW l \in F, rank[k] = rank[l] PROVE k = l
    <3>1. k \in Nat /\ l \in Nat
      BY <1>0, <1>1
    <3>2. ~(k < l) /\ ~(l < k)
      BY <1>2, <2>2
    <3> QED
      BY <3>1, <3>2
  <2>3. DOMAIN rank = F
    OBVIOUS
  <2> HIDE DEF rank, F
  <2> QED
    BY <2>1, <2>2, <2>3 DEF Injection, IsInjective
<1>4. IsFiniteSet(0..(n - 1)) /\ Cardinality(0..(n - 1)) = n
  BY FS_Interval
<1> HIDE DEF rank, F
<1>5. Cardinality(F) <= n
  BY <1>3, <1>4, FS_Injection
<1> QED
  BY <1>5 DEF F

(* The walk leaves out nothing but keys that were visited.                 *)
LEMMA TakeRight ==
    ASSUME NEW book, BookOK(book), NEW rest, rest \subseteq DOMAIN book, NEW n \in Nat
    PROVE  LET x == TakeFrom(rest, book, n)
           IN  /\ x.batch \subseteq rest /\ x.rest \subseteq rest
               /\ x.batch \in SUBSET Idx /\ Cardinality(x.batch) <= n
               /\ \A k \in rest : k \in x.batch \/ k \in x.rest \/ book[k].visited
<1> DEFINE open == Unvisited(rest, book)
<1> DEFINE taken == FirstOf(open, n)
<1> DEFINE left == IF Cardinality(open) < n THEN {} ELSE {k \in rest : \A i \in taken : k > i}
<1>1. TakeFrom(rest, book, n) = [batch |-> taken, rest |-> left]
  BY DEF TakeFrom
<1>2. rest \in SUBSET Idx /\ open \in SUBSET Idx /\ taken \subseteq open /\ open \subseteq rest
  BY DEF BookOK, Unvisited, FirstOf
<1>3. \A k \in rest : book[k].visited \in BOOLEAN
  BY DEF BookOK
<1>4. Cardinality(taken) <= n
  BY <1>2, FewFirst
<1>5. ASSUME NEW k \in open, k \notin taken PROVE k \in left
  <2>0. \A j \in Idx : j \in Nat
    BY IdxAssumption
  <2>1. ~(Cardinality({j \in open : j < k}) < n)
    BY <1>5 DEF FirstOf
  <2>2. {j \in open : j < k} \in SUBSET open /\ IsFiniteSet(open)
    BY <1>2, FiniteIdx
  <2>3. Cardinality({j \in open : j < k}) <= Cardinality(open)
    BY <2>2, FS_Subset
  <2>4. Cardinality({j \in open : j < k}) \in Nat /\ Cardinality(open) \in Nat
    BY <1>2, FiniteIdx
  <2>5. ~(Cardinality(open) < n)
    BY <2>1, <2>3, <2>4
  <2>6. ASSUME NEW i \in taken PROVE k > i
    <3>1. i \in open /\ Cardinality({j \in open : j < i}) < n
      BY DEF FirstOf
    <3>2. k \in Nat /\ i \in Nat
      BY <1>2, <2>0, <3>1
    <3>3. SUFFICES ASSUME k <= i PROVE FALSE
      BY <3>2
    <3>4. {j \in open : j < k} \subseteq {j \in open : j < i}
      BY <1>2, <2>0, <3>2, <3>3
    <3>5. IsFiniteSet({j \in open : j < i}) /\ Cardinality({j \in open : j < i}) \in Nat
      BY <1>2, FiniteIdx
    <3>6. Cardinality({j \in open : j < k}) <= Cardinality({j \in open : j < i})
      BY <3>4, <3>5, FS_Subset
    <3> QED
      BY <2>1, <2>4, <3>1, <3>5, <3>6
  <2> QED
    BY <1>2, <2>5, <2>6
<1>6. \A k \in rest : k \in taken \/ k \in left \/ book[k].visited
  BY <1>3, <1>5 DEF Unvisited
<1>7. left \subseteq rest /\ taken \in SUBSET Idx
  BY <1>2
<1> HIDE DEF left, taken
<1> QED
  BY <1>1, <1>2, <1>4, <1>6, <1>7

(* A task of the third kind takes keys from both books, and none that is   *)
(* left behind is still to be claimed.                                     *)
LEMMA NextGroupTaskInv ==
    ASSUME Inv, NEW t \in Threads, NextGroupTask(t)
    PROVE  Inv'
<1> DEFINE a == TakeFrom(ia, booka, BatchLen)
<1> DEFINE b == IF a.rest = {} THEN TakeFrom(ib, bookb, BatchLen - Cardinality(a.batch))
                ELSE [batch |-> {}, rest |-> ib]
<1> DEFINE batch == a.batch \cup b.batch
<1>1. TypeOK /\ PhaseInv /\ BookInv /\ ClaimInv /\ PublishInv /\ CoverInv
  BY DEF Inv
<1>2. /\ phase = "schedule" /\ task[t] = NoTask
      /\ UNCHANGED <<phase, nza, nzb, booka, bookb, sch>>
      /\ ia' = a.rest /\ ib' = b.rest
      /\ task' = [task EXCEPT ![t] = IF batch = {} THEN NoTask ELSE NewTask("claim", batch)]
  BY DEF NextGroupTask, Idle
<1>3. BookOK(booka) /\ BookOK(bookb) /\ ia \subseteq DOMAIN booka /\ ib \subseteq DOMAIN bookb
  BY <1>1, TypeIs
<1>4. BatchLen \in Nat
  BY BatchAssumption
<1>5. /\ a.batch \subseteq ia /\ a.rest \subseteq ia
      /\ a.batch \in SUBSET Idx /\ Cardinality(a.batch) <= BatchLen
      /\ \A k \in ia : k \in a.batch \/ k \in a.rest \/ booka[k].visited
  BY <1>3, <1>4, TakeRight
<1> HIDE DEF a
<1>6. Cardinality(a.batch) \in Nat /\ IsFiniteSet(a.batch)
  BY <1>5, FiniteIdx
<1>7. /\ b.batch \subseteq ib /\ b.rest \subseteq ib
      /\ b.batch \in SUBSET Idx /\ Cardinality(b.batch) <= BatchLen - Cardinality(a.batch)
      /\ \A k \in ib : k \in b.batch \/ k \in b.rest \/ bookb[k].visited
  <2>1. BatchLen - Cardinality(a.batch) \in Nat
    BY <1>4, <1>5, <1>6
  <2>2. CASE a.rest = {}
    <3>1. b = TakeFrom(ib, bookb, BatchLen - Cardinality(a.batch))
      BY <2>2
    <3> HIDE DEF b
    <3> QED
      BY <1>3, <2>1, <3>1, TakeRight
  <2>3. CASE a.rest # {}
    <3>1. b = [batch |-> {}, rest |-> ib] /\ Cardinality({}) = 0
      BY <2>3, FS_EmptySet
    <3> HIDE DEF b
    <3> QED
      BY <2>1, <3>1
  <2> QED
    BY <2>2, <2>3
<1> HIDE DEF b
<1>8. batch \in SUBSET Idx /\ Cardinality(batch) <= BatchLen /\ batch \subseteq InBooks
  <2>1. IsFiniteSet(b.batch) /\ Cardinality(b.batch) \in Nat
    BY <1>7, FiniteIdx
  <2>2. /\ Cardinality(batch) = Cardinality(a.batch) + Cardinality(b.batch)
                                  - Cardinality(a.batch \cap b.batch)
        /\ Cardinality(a.batch \cap b.batch) \in Nat
    BY <1>5, <1>6, <2>1, FS_Union, FiniteIdx
  <2>3. batch \subseteq InBooks
    BY <1>3, <1>5, <1>7 DEF InBooks
  <2> QED
    BY <1>4, <1>5, <1>6, <1>7, <2>1, <2>2, <2>3
<1> HIDE DEF batch
<1> DEFINE x == IF batch = {} THEN NoTask ELSE NewTask("claim", batch)
<1>9. TaskOK(x) /\ x.batch = batch /\ x.at \in {"none", "claim"}
  <2>1. TaskOK(x)
    BY <1>8, NewTaskOK
  <2> QED
    BY <2>1 DEF NoTask, NewTask
<1> HIDE DEF x
<1>10. /\ task' \in [Threads -> TaskType] /\ \A u \in Threads : TaskOK(task'[u])
       /\ task'[t] = x /\ \A u \in Threads : u # t => task'[u] = task[u]
  BY <1>1, <1>2, <1>9, TaskChange DEF x
<1>11. TypeOK'
  <2>1. ia' \subseteq DOMAIN booka' /\ ib' \subseteq DOMAIN bookb'
    BY <1>2, <1>3, <1>5, <1>7
  <2> QED
    BY <1>1, <1>2, <1>10, <2>1, TypeIs, TypeParts
<1>12. PhaseInv'
  BY <1>1, <1>2, <1>9, <1>10 DEF PhaseInv, Filling, Claiming
<1>13. BookInv'
  BY <1>1, <1>2, <1>9, <1>10 DEF BookInv
<1>14. InBooks' = InBooks /\ \A i : /\ Present(i)' = Present(i)
                                   /\ FlagOf(i)' = FlagOf(i)
                                   /\ Group(i)' = Group(i)
  BY <1>2, SameBooks
<1>15. \A c : visited(c)' = visited(c) /\ Claimed(c)' = Claimed(c)
  BY <1>2, <1>14 DEF visited, Claimed
<1>16. \A u \in Threads : Publishing(u)' <=> Publishing(u) /\ (Publishing(u) => task'[u] = task[u])
  BY <1>2, <1>9, <1>10 DEF Publishing, NoTask
<1>17. ClaimInv'
  <2>1. \A u \in Threads : Claiming(u)' => task'[u].batch \subseteq InBooks'
    BY <1>1, <1>8, <1>9, <1>10, <1>14 DEF ClaimInv, Claiming
  <2>2. \A u \in Threads : Publishing(u)' => task'[u].idx \in InBooks' /\ Claimed(task[u].idx)'
                                            /\ task'[u] = task[u]
    BY <1>1, <1>14, <1>15, <1>16 DEF ClaimInv
  <2>3. ASSUME NEW c \in InBooks', visited(c)'
        PROVE  /\ FlagOf(c)' = c
               /\ \/ \E u \in Threads : Publishing(u)' /\ FlagOf(task[u].idx)' = c
                  \/ \E n \in DOMAIN sch : sch[n] = Group(c)'
    <3>1. c \in InBooks /\ visited(c)
      BY <1>14, <1>15, <2>3
    <3>2. /\ FlagOf(c) = c
          /\ \/ \E u \in Threads : Publishing(u) /\ FlagOf(task[u].idx) = c
             \/ \E n \in DOMAIN sch : sch[n] = Group(c)
      BY <1>1, <3>1 DEF ClaimInv
    <3>3. ASSUME NEW u \in Threads, Publishing(u), FlagOf(task[u].idx) = c
          PROVE  Publishing(u)' /\ FlagOf(task[u].idx)' = c
      <4>1. Publishing(u)' /\ task'[u] = task[u]
        BY <1>2, <1>10, <3>3 DEF Publishing, NoTask
      <4> QED
        BY <1>14, <3>3, <4>1
    <3> QED
      BY <1>14, <3>2, <3>3
  <2> QED
    BY <1>1, <1>2, <1>14, <1>15, <1>16, <2>1, <2>2, <2>3 DEF ClaimInv
<1>18. PublishInv'
  BY <1>1, <1>2, <1>14, <1>15, <1>16 DEF PublishInv
<1>19. CoverInv'
  <2>1. ASSUME NEW c \in InBooks PROVE c \in ia' \cup ib' \/ (\E u \in Threads : c \in task'[u].batch) \/ Claimed(c)
    <3>1. CASE c \in ia \/ c \in ib
      <4>1. c \in a.batch \/ c \in b.batch \/ c \in a.rest \/ c \in b.rest \/ visited(c)
        BY <1>1, <1>3, <1>5, <1>7, <3>1 DEF ClaimInv, visited
      <4>2. visited(c) => Claimed(c)
        BY <1>1 DEF ClaimInv, Claimed
      <4>3. c \in batch => c \in task'[t].batch
        BY <1>9, <1>10
      <4> QED
        BY <1>2, <4>1, <4>2, <4>3 DEF batch
    <3>2. CASE \E u \in Threads : c \in task[u].batch
      <4>1. PICK u \in Threads : c \in task[u].batch
        BY <3>2
      <4>2. u # t
        BY <1>2, <4>1 DEF NoTask
      <4> QED
        BY <1>10, <4>1, <4>2
    <3>3. CASE Claimed(c)
      BY <3>3
    <3> QED
      BY <1>1, <1>2, <3>1, <3>2, <3>3 DEF CoverInv, Filling
  <2> QED
    BY <1>14, <1>15, <2>1 DEF CoverInv
<1> QED
  BY <1>11, <1>12, <1>13, <1>17, <1>18, <1>19 DEF Inv

(* A task goes on after its current index, if there are more.              *)
LEMMA AdvanceTask ==
    ASSUME TypeOK, NEW t \in Threads, NEW rest, rest \subseteq task[t].batch,
           task' = Advance(t, rest)
    PROVE  /\ task' \in [Threads -> TaskType]
           /\ \A u \in Threads : TaskOK(task'[u])
           /\ \A u \in Threads : u # t => task'[u] = task[u]
           /\ task'[t].batch = rest /\ task'[t].at \in {"none", "claim"}
<1>1. task[t].batch \in SUBSET Idx /\ Cardinality(task[t].batch) <= BatchLen
  BY TypeIs DEF TaskOK, TaskType
<1>2. rest \in SUBSET Idx /\ Cardinality(rest) <= BatchLen
  <2>1. Cardinality(rest) <= Cardinality(task[t].batch)
    BY <1>1, FiniteIdx, FS_Subset
  <2> QED
    BY <1>1, <2>1, FiniteIdx, BatchAssumption
<1> DEFINE x == IF rest = {} THEN NoTask ELSE NewTask("claim", rest)
<1>3. TaskOK(x)
  BY <1>2, NewTaskOK
<1>4. x.batch = rest /\ x.at \in {"none", "claim"}
  BY DEF NoTask, NewTask
<1>5. task' = [task EXCEPT ![t] = x]
  BY DEF Advance
<1> HIDE DEF x
<1> QED
  BY <1>3, <1>4, <1>5, TaskChange

(* An index whose orbit is claimed is passed over.                         *)
LEMMA PassOverInv ==
    ASSUME Inv, NEW t \in Threads, task[t].at = "claim", NEW i \in task[t].batch,
           visited(FlagOf(i)), task' = Advance(t, task[t].batch \ {i}),
           UNCHANGED <<phase, nza, nzb, booka, bookb, ia, ib, sch>>
    PROVE  Inv'
<1>1. TypeOK /\ PhaseInv /\ BookInv /\ ClaimInv /\ PublishInv /\ CoverInv
  BY DEF Inv
<1>2. /\ task' \in [Threads -> TaskType] /\ \A u \in Threads : TaskOK(task'[u])
      /\ \A u \in Threads : u # t => task'[u] = task[u]
      /\ task'[t].batch = task[t].batch \ {i} /\ task'[t].at \in {"none", "claim"}
  BY <1>1, AdvanceTask
<1>3. InBooks' = InBooks /\ \A j : /\ Present(j)' = Present(j)
                                  /\ FlagOf(j)' = FlagOf(j)
                                  /\ Group(j)' = Group(j)
  BY SameBooks
<1>4. \A c : visited(c)' = visited(c) /\ Claimed(c)' = Claimed(c)
  BY <1>3 DEF visited, Claimed
<1>5. \A u \in Threads : Publishing(u)' <=> Publishing(u)
  BY <1>2 DEF Publishing
<1>6. \A u \in Threads : Publishing(u) => task'[u] = task[u]
  BY <1>2 DEF Publishing
<1>7. TypeOK'
  BY <1>1, <1>2, TypeIs, TypeParts
<1>8. PhaseInv'
  BY <1>1, <1>2 DEF PhaseInv, Filling, Claiming
<1>9. BookInv'
  BY <1>1, <1>2 DEF BookInv
<1>10. ClaimInv'
  <2>1. \A u \in Threads : Claiming(u)' => task'[u].batch \subseteq InBooks'
    BY <1>1, <1>2, <1>3 DEF ClaimInv, Claiming
  <2>2. \A u \in Threads : Publishing(u)' => /\ task'[u].idx \in InBooks'
                                            /\ Claimed(task[u].idx)' /\ task'[u] = task[u]
    BY <1>1, <1>3, <1>4, <1>5, <1>6 DEF ClaimInv
  <2>3. ASSUME NEW c \in InBooks', visited(c)'
        PROVE  /\ FlagOf(c)' = c
               /\ \/ \E u \in Threads : Publishing(u)' /\ FlagOf(task[u].idx)' = c
                  \/ \E n \in DOMAIN sch : sch[n] = Group(c)'
    <3>1. /\ FlagOf(c) = c
          /\ \/ \E u \in Threads : Publishing(u) /\ FlagOf(task[u].idx) = c
             \/ \E n \in DOMAIN sch : sch[n] = Group(c)
      BY <1>1, <1>3, <1>4, <2>3 DEF ClaimInv
    <3>2. ASSUME NEW u \in Threads, Publishing(u), FlagOf(task[u].idx) = c
          PROVE  Publishing(u)' /\ FlagOf(task[u].idx)' = c
      BY <1>3, <1>5, <1>6, <3>2
    <3> QED
      BY <1>3, <3>1, <3>2
  <2> QED
    BY <1>1, <1>3, <1>4, <1>5, <1>6, <2>1, <2>2, <2>3 DEF ClaimInv
<1>11. PublishInv'
  BY <1>1, <1>3, <1>4, <1>5, <1>6 DEF PublishInv
<1>12. CoverInv'
  <2>1. ASSUME NEW c \in InBooks, NEW u \in Threads, c \in task[u].batch
        PROVE  c \in task'[u].batch \/ Claimed(c)
    BY <1>2, <2>1 DEF Claimed
  <2> QED
    BY <1>1, <1>3, <1>4, <2>1 DEF CoverInv
<1> QED
  BY <1>7, <1>8, <1>9, <1>10, <1>11, <1>12 DEF Inv

(* The flag that is set stands for the orbit.                              *)
LEMMA FlagSet ==
    ASSUME TypeOK, BookInv, NEW f \in InBooks,
           IF f \in DOMAIN booka
           THEN booka' = [booka EXCEPT ![f].visited = TRUE] /\ UNCHANGED bookb
           ELSE bookb' = [bookb EXCEPT ![f].visited = TRUE] /\ UNCHANGED booka
    PROVE  /\ DOMAIN booka' = DOMAIN booka /\ DOMAIN bookb' = DOMAIN bookb
           /\ BookOK(booka') /\ BookOK(bookb')
           /\ \A c \in DOMAIN booka : booka'[c].cidx = booka[c].cidx
           /\ \A c \in DOMAIN bookb : bookb'[c].cidx = bookb[c].cidx
           /\ \A c \in InBooks : visited(c)' <=> visited(c) \/ c = f
           /\ \A c \in DOMAIN booka \cap DOMAIN bookb : bookb'[c] = bookb[c]
<1>1. BookOK(booka) /\ BookOK(bookb) /\ InBooks = DOMAIN booka \cup DOMAIN bookb
  BY TypeIs DEF InBooks
<1> DEFINE set(book) == [book EXCEPT ![f].visited = TRUE]
<1>2. ASSUME NEW book, BookOK(book), f \in DOMAIN book
      PROVE  /\ DOMAIN set(book) = DOMAIN book /\ BookOK(set(book))
             /\ \A c \in DOMAIN book : /\ set(book)[c].cidx = book[c].cidx
                                       /\ c # f => set(book)[c] = book[c]
             /\ set(book)[f].visited
  <2>1. \A c \in DOMAIN book : book[c] \in [cidx : Idx, visited : BOOLEAN]
    BY <1>2 DEF BookOK
  <2>2. DOMAIN set(book) = DOMAIN book
    OBVIOUS
  <2>3. \A c \in DOMAIN book : c # f => set(book)[c] = book[c]
    OBVIOUS
  <2>4. set(book)[f] = [book[f] EXCEPT !.visited = TRUE]
    BY <1>2
  <2>5. set(book)[f].cidx = book[f].cidx /\ set(book)[f].visited
        /\ set(book)[f] \in [cidx : Idx, visited : BOOLEAN]
    BY <1>2, <2>1, <2>4
  <2> HIDE DEF set
  <2>6. BookOK(set(book))
    BY <1>2, <2>1, <2>2, <2>3, <2>5 DEF BookOK
  <2> QED
    BY <2>2, <2>3, <2>5, <2>6
<1>3. CASE f \in DOMAIN booka
  <2>1. booka' = set(booka) /\ bookb' = bookb
    BY <1>3
  <2> HIDE DEF set
  <2> QED
    BY <1>1, <1>2, <1>3, <2>1 DEF visited
<1>4. CASE f \notin DOMAIN booka
  <2>1. bookb' = set(bookb) /\ booka' = booka /\ f \in DOMAIN bookb
    BY <1>1, <1>4
  <2> HIDE DEF set
  <2> QED
    BY <1>1, <1>2, <1>4, <2>1 DEF visited
<1> QED
  BY <1>3, <1>4

(* An index whose orbit is not claimed: the task claims it, and is the     *)
(* only one to publish it.                                                 *)
LEMMA ClaimNewInv ==
    ASSUME Inv, NEW t \in Threads, task[t].at = "claim", NEW i \in task[t].batch,
           NEW f, f = FlagOf(i), ~visited(f),
           IF f \in DOMAIN booka
           THEN booka' = [booka EXCEPT ![f].visited = TRUE] /\ UNCHANGED bookb
           ELSE bookb' = [bookb EXCEPT ![f].visited = TRUE] /\ UNCHANGED booka,
           task' = [task EXCEPT ![t] = [at |-> "publish", idx |-> i,
                                        batch |-> task[t].batch \ {i}]],
           UNCHANGED <<phase, nza, nzb, ia, ib, sch>>
    PROVE  Inv'
<1>1. TypeOK /\ PhaseInv /\ BookInv /\ ClaimInv /\ PublishInv /\ CoverInv
  BY DEF Inv
<1>2. i \in InBooks /\ Claiming(t) /\ ~Publishing(t)
  BY <1>1 DEF ClaimInv, Claiming, Publishing
<1>3. f \in InBooks /\ FlagOf(f) = f
  BY <1>1, <1>2, FlagOfFlag
<1>4. /\ DOMAIN booka' = DOMAIN booka /\ DOMAIN bookb' = DOMAIN bookb
      /\ BookOK(booka') /\ BookOK(bookb')
      /\ \A c \in DOMAIN booka : booka'[c].cidx = booka[c].cidx
      /\ \A c \in DOMAIN bookb : bookb'[c].cidx = bookb[c].cidx
      /\ \A c \in InBooks : visited(c)' <=> visited(c) \/ c = f
      /\ \A c \in DOMAIN booka \cap DOMAIN bookb : bookb'[c] = bookb[c]
  BY <1>1, <1>3, FlagSet
<1>5. InBooks' = InBooks /\ \A j : /\ Present(j)' = Present(j)
                                  /\ FlagOf(j)' = FlagOf(j)
                                  /\ Group(j)' = Group(j)
  BY <1>4, SameBooks
<1>6. ASSUME NEW j \in InBooks PROVE Claimed(j)' <=> Claimed(j) \/ FlagOf(j) = f
  <2>1. FlagOf(j) \in InBooks
    BY <1>1, FlagOfFlag
  <2> QED
    BY <1>4, <1>5, <2>1 DEF Claimed
<1> DEFINE x == [at |-> "publish", idx |-> i, batch |-> task[t].batch \ {i}]
<1>7. TaskOK(x)
  <2>1. /\ task[t].batch \in SUBSET Idx /\ Cardinality(task[t].batch) <= BatchLen
        /\ BatchLen \in Nat
    BY <1>1, TypeIs, BatchAssumption DEF TaskOK, TaskType
  <2>2. Cardinality(task[t].batch \ {i}) <= Cardinality(task[t].batch)
    BY <2>1, FiniteIdx, FS_Subset
  <2>3. Cardinality(task[t].batch \ {i}) <= BatchLen
    BY <2>1, <2>2, FiniteIdx
  <2> QED
    BY <2>1, <2>3 DEF TaskOK, TaskType
<1>8. x.at = "publish" /\ x.idx = i /\ x.batch = task[t].batch \ {i}
  OBVIOUS
<1>9. task' = [task EXCEPT ![t] = x]
  OBVIOUS
<1> HIDE DEF x
<1>10. /\ task' \in [Threads -> TaskType] /\ \A u \in Threads : TaskOK(task'[u])
       /\ task'[t] = x /\ \A u \in Threads : u # t => task'[u] = task[u]
  BY <1>1, <1>7, <1>9, TaskChange
<1>11. \A u \in Threads : u # t => /\ Publishing(u)' <=> Publishing(u)
                                   /\ Publishing(u) => FlagOf(task[u].idx) # f
  BY <1>1, <1>10 DEF Publishing, ClaimInv, Claimed
<1>12. TypeOK'
  BY <1>1, <1>4, <1>10, TypeIs, TypeParts
<1>13. phase = "schedule"
  BY <1>1, <1>2 DEF PhaseInv
<1>14. PhaseInv'
  BY <1>1, <1>8, <1>10, <1>13 DEF PhaseInv, Filling, Claiming
<1>15. BookInv'
  <2>1. RightBook(SymA, OrbitsA, booka') /\ RightBook(SymB, OrbitsB, bookb')
    BY <1>1, <1>4 DEF BookInv, RightBook
  <2> QED
    BY <1>1, <1>8, <1>10, <2>1 DEF BookInv
<1>16. ClaimInv'
  <2>1. \A c \in DOMAIN booka' \cap DOMAIN bookb' : ~bookb'[c].visited
    BY <1>1, <1>4 DEF ClaimInv
  <2>2. \A u \in Threads : Claiming(u)' => task'[u].batch \subseteq InBooks'
    BY <1>1, <1>2, <1>5, <1>8, <1>10 DEF ClaimInv, Claiming
  <2>3. ASSUME NEW u \in Threads, Publishing(u)'
        PROVE  task'[u].idx \in InBooks' /\ Claimed(task[u].idx)'
    <3>1. CASE u = t
      <4>1. task'[t].idx = i
        BY <1>8, <1>10
      <4>2. Claimed(i)'
        BY <1>2, <1>6
      <4> QED
        BY <1>2, <1>5, <3>1, <4>1, <4>2
    <3>2. CASE u # t
      <4>1. task'[u] = task[u] /\ task[u].idx \in InBooks /\ Claimed(task[u].idx)
        BY <1>1, <1>10, <1>11, <2>3, <3>2 DEF ClaimInv
      <4> QED
        BY <1>5, <1>6, <4>1
    <3> QED
      BY <3>1, <3>2
  <2>4. ASSUME NEW u \in Threads, NEW v \in Threads, Publishing(u)', Publishing(v)',
               FlagOf(task[u].idx)' = FlagOf(task[v].idx)'
        PROVE  u = v
    <3>1. FlagOf(task'[u].idx) = FlagOf(task'[v].idx)
      BY <1>5, <2>4
    <3>2. FlagOf(task'[t].idx) = f
      BY <1>8, <1>10
    <3>3. CASE u # t /\ v # t
      BY <1>1, <1>10, <1>11, <2>4, <3>1, <3>3 DEF ClaimInv
    <3>4. CASE u = t \/ v = t
      BY <1>10, <1>11, <2>4, <3>1, <3>2, <3>4
    <3> QED
      BY <3>3, <3>4
  <2>5. ASSUME NEW c \in InBooks', visited(c)'
        PROVE  /\ FlagOf(c)' = c
               /\ \/ \E u \in Threads : Publishing(u)' /\ FlagOf(task[u].idx)' = c
                  \/ \E n \in DOMAIN sch : sch[n] = Group(c)'
    <3>1. CASE c = f
      <4>1. Publishing(t)'
        BY <1>8, <1>10 DEF Publishing
      <4>2. FlagOf(task[t].idx)' = f
        BY <1>5, <1>8, <1>10
      <4> QED
        BY <1>3, <1>5, <3>1, <4>1, <4>2
    <3>2. CASE c # f
      <4>1. /\ FlagOf(c) = c
            /\ \/ \E u \in Threads : Publishing(u) /\ FlagOf(task[u].idx) = c
               \/ \E n \in DOMAIN sch : sch[n] = Group(c)
        BY <1>1, <1>4, <1>5, <2>5, <3>2 DEF ClaimInv
      <4>2. ASSUME NEW u \in Threads, Publishing(u), FlagOf(task[u].idx) = c
            PROVE  Publishing(u)' /\ FlagOf(task[u].idx)' = c
        <5>1. u # t
          BY <1>2, <4>2
        <5> QED
          BY <1>5, <1>10, <1>11, <4>2, <5>1
      <4> QED
        BY <1>5, <4>1, <4>2
    <3> QED
      BY <3>1, <3>2
  <2> QED
    BY <2>1, <2>2, <2>3, <2>4, <2>5 DEF ClaimInv
<1>17. PublishInv'
  <2>1. ASSUME NEW n \in DOMAIN sch
        PROVE  \E j \in InBooks' :
                  /\ sch[n] = Group(j)' /\ Claimed(j)'
                  /\ \A u \in Threads : Publishing(u)' => FlagOf(task[u].idx)' # FlagOf(j)'
    <3>1. PICK j \in InBooks :
            /\ sch[n] = Group(j) /\ Claimed(j)
            /\ \A u \in Threads : Publishing(u) => FlagOf(task[u].idx) # FlagOf(j)
      BY <1>1 DEF PublishInv
    <3>2. FlagOf(j) # f
      BY <3>1 DEF Claimed
    <3>3. ASSUME NEW u \in Threads, Publishing(u)' PROVE FlagOf(task[u].idx)' # FlagOf(j)'
      <4>1. CASE u = t
        BY <1>5, <1>8, <1>10, <3>2, <4>1
      <4>2. CASE u # t
        BY <1>5, <1>10, <1>11, <3>1, <3>3, <4>2
      <4> QED
        BY <4>1, <4>2
    <3> QED
      BY <1>5, <1>6, <3>1, <3>3
  <2> QED
    BY <1>1, <2>1 DEF PublishInv
<1>18. CoverInv'
  <2>1. ASSUME NEW c \in InBooks, NEW u \in Threads, c \in task[u].batch
        PROVE  (\E v \in Threads : c \in task'[v].batch) \/ Claimed(c)'
    <3>1. CASE c = i /\ u = t
      BY <1>2, <1>6, <3>1
    <3>2. CASE c # i \/ u # t
      <4>1. c \in task'[u].batch
        BY <1>8, <1>10, <2>1, <3>2
      <4> QED
        BY <4>1
    <3> QED
      BY <3>1, <3>2
  <2> QED
    BY <1>1, <1>5, <1>6, <2>1 DEF CoverInv
<1> QED
  BY <1>12, <1>14, <1>15, <1>16, <1>17, <1>18 DEF Inv

(* A test of the flag finds the orbit claimed, or claims it.               *)
LEMMA ClaimStepInv ==
    ASSUME Inv, NEW t \in Threads, Claim(t)
    PROVE  Inv'
<1>1. UNCHANGED <<phase, nza, nzb, ia, ib, sch>> /\ task[t].at = "claim"
  BY DEF Claim
<1>2. PICK i \in task[t].batch :
        \/ /\ visited(FlagOf(i))
           /\ task' = Advance(t, task[t].batch \ {i})
           /\ UNCHANGED <<booka, bookb>>
        \/ /\ ~visited(FlagOf(i))
           /\ IF FlagOf(i) \in DOMAIN booka
              THEN booka' = [booka EXCEPT ![FlagOf(i)].visited = TRUE] /\ UNCHANGED bookb
              ELSE bookb' = [bookb EXCEPT ![FlagOf(i)].visited = TRUE] /\ UNCHANGED booka
           /\ task' = [task EXCEPT ![t] = [at |-> "publish", idx |-> i,
                                           batch |-> task[t].batch \ {i}]]
  BY DEF Claim
<1> QED
  BY <1>1, <1>2, PassOverInv, ClaimNewInv

(* The group of an orbit is a set of nodes.                                *)
LEMMA GroupNodes ==
    ASSUME TypeOK, BookInv, NEW i \in InBooks
    PROVE  Group(i) \in SUBSET Node(Idx)
<1>1. ASSUME NEW c \in Present(i) PROVE NodeOf(c) \in Node(Idx)
  <2>1. c \in InBooks /\ c \in Idx
    BY InBooksCanonical DEF Present
  <2>2. /\ c \in DOMAIN booka => booka[c].cidx \in Idx
        /\ c \in DOMAIN bookb => bookb[c].cidx \in Idx
    BY DEF BookInv, RightBook
  <2>3. c \in DOMAIN booka \/ c \in DOMAIN bookb
    BY <2>1 DEF InBooks
  <2> QED
    BY <2>1, <2>2, <2>3, NoBlockAssumption DEF NodeOf, Node
<1> QED
  BY <1>1 DEF Group

(* The group of a claimed orbit is published.                              *)
LEMMA PublishStepInv ==
    ASSUME Inv, NEW t \in Threads, Publish(t)
    PROVE  Inv'
<1>0. PICK i : i = task[t].idx
  OBVIOUS
<1>1. TypeOK /\ PhaseInv /\ BookInv /\ ClaimInv /\ PublishInv /\ CoverInv
  BY DEF Inv
<1>2. /\ UNCHANGED <<phase, nza, nzb, booka, bookb, ia, ib>> /\ Publishing(t)
      /\ sch' = Append(sch, Group(i)) /\ task' = Advance(t, task[t].batch)
  BY <1>0 DEF Publish, Publishing
<1>3. i \in InBooks /\ Claimed(i)
  BY <1>0, <1>1, <1>2 DEF ClaimInv
<1>4. /\ task' \in [Threads -> TaskType] /\ \A u \in Threads : TaskOK(task'[u])
      /\ \A u \in Threads : u # t => task'[u] = task[u]
      /\ task'[t].batch = task[t].batch /\ task'[t].at \in {"none", "claim"}
  BY <1>1, <1>2, AdvanceTask
<1>5. InBooks' = InBooks /\ \A j : /\ Present(j)' = Present(j)
                                  /\ FlagOf(j)' = FlagOf(j)
                                  /\ Group(j)' = Group(j)
  BY <1>2, SameBooks
<1>6. \A c : visited(c)' = visited(c) /\ Claimed(c)' = Claimed(c)
  BY <1>2, <1>5 DEF visited, Claimed
<1>7. /\ ~Publishing(t)'
      /\ \A u \in Threads : u # t => (Publishing(u)' <=> Publishing(u))
      /\ \A u \in Threads : Publishing(u)' => u # t /\ Publishing(u) /\ task'[u] = task[u]
  BY <1>4 DEF Publishing
<1>8. \A u \in Threads : Publishing(u)' => FlagOf(task[u].idx) # FlagOf(i)
  BY <1>0, <1>1, <1>2, <1>7 DEF ClaimInv
<1>9. Group(i) \in SUBSET Node(Idx) /\ sch \in Seq(SUBSET Node(Idx)) /\ Len(sch) \in Nat
  BY <1>1, <1>3, TypeIs, GroupNodes
<1>10. /\ sch' \in Seq(SUBSET Node(Idx))
       /\ DOMAIN sch' = DOMAIN sch \cup {Len(sch) + 1} /\ Len(sch) + 1 \notin DOMAIN sch
       /\ sch'[Len(sch) + 1] = Group(i) /\ \A n \in DOMAIN sch : sch'[n] = sch[n]
  BY <1>2, <1>9
<1>11. TypeOK'
  BY <1>1, <1>2, <1>4, <1>10, TypeIs, TypeParts
<1>12. phase = "schedule"
  BY <1>1, <1>2 DEF PhaseInv, Claiming, Publishing
<1>13. PhaseInv'
  BY <1>1, <1>2, <1>4, <1>12 DEF PhaseInv, Filling, Claiming
<1>14. BookInv'
  BY <1>1, <1>2, <1>4 DEF BookInv
<1>15. ClaimInv'
  <2>1. \A u \in Threads : Claiming(u)' => task'[u].batch \subseteq InBooks'
    BY <1>1, <1>2, <1>4, <1>5 DEF ClaimInv, Claiming, Publishing
  <2>2. \A u \in Threads : Publishing(u)' => task'[u].idx \in InBooks' /\ Claimed(task[u].idx)'
    BY <1>1, <1>5, <1>6, <1>7 DEF ClaimInv
  <2>3. \A u, v \in Threads : Publishing(u)' /\ Publishing(v)'
          /\ FlagOf(task[u].idx)' = FlagOf(task[v].idx)' => u = v
    BY <1>1, <1>5, <1>7 DEF ClaimInv
  <2>4. ASSUME NEW c \in InBooks', visited(c)'
        PROVE  /\ FlagOf(c)' = c
               /\ \/ \E u \in Threads : Publishing(u)' /\ FlagOf(task[u].idx)' = c
                  \/ \E n \in DOMAIN sch' : sch'[n] = Group(c)'
    <3>1. /\ FlagOf(c) = c
          /\ \/ \E u \in Threads : Publishing(u) /\ FlagOf(task[u].idx) = c
             \/ \E n \in DOMAIN sch : sch[n] = Group(c)
      BY <1>1, <1>5, <1>6, <2>4 DEF ClaimInv
    <3>2. CASE FlagOf(i) = c
      <4>1. Group(c) = Group(i)
        BY <1>1, <1>3, <3>2, FlagOfFlag
      <4> QED
        BY <1>5, <1>10, <3>1, <4>1
    <3>3. ASSUME NEW u \in Threads, u # t, Publishing(u), FlagOf(task[u].idx) = c
          PROVE  Publishing(u)' /\ FlagOf(task[u].idx)' = c
      BY <1>4, <1>5, <1>7, <3>3
    <3>4. CASE \E n \in DOMAIN sch : sch[n] = Group(c)
      BY <1>5, <1>10, <3>1, <3>4
    <3> QED
      BY <1>0, <1>5, <3>1, <3>2, <3>3, <3>4
  <2> QED
    BY <1>1, <1>2, <2>1, <2>2, <2>3, <2>4 DEF ClaimInv
<1>16. ASSUME NEW n \in DOMAIN sch
       PROVE  \E j \in InBooks : /\ sch'[n] = Group(j) /\ Claimed(j) /\ Group(j) # Group(i)
                                 /\ \A u \in Threads : Publishing(u) => FlagOf(task[u].idx) # FlagOf(j)
  <2>1. PICK j \in InBooks :
          /\ sch[n] = Group(j) /\ Claimed(j)
          /\ \A u \in Threads : Publishing(u) => FlagOf(task[u].idx) # FlagOf(j)
    BY <1>1 DEF PublishInv
  <2>2. Group(j) # Group(i)
    BY <1>0, <1>1, <1>2, <1>3, <2>1, GroupFlag
  <2> QED
    BY <1>10, <2>1, <2>2
<1>17. PublishInv'
  <2>1. IsInjective(sch')
    <3>1. \A n, m \in DOMAIN sch : sch[n] = sch[m] => n = m
      BY <1>1 DEF PublishInv, IsInjective
    <3>2. \A n \in DOMAIN sch : sch'[n] # Group(i)
      BY <1>16
    <3> QED
      BY <1>10, <3>1, <3>2 DEF IsInjective
  <2>2. ASSUME NEW n \in DOMAIN sch
        PROVE  \E j \in InBooks' :
                 /\ sch'[n] = Group(j)' /\ Claimed(j)'
                 /\ \A u \in Threads : Publishing(u)' => FlagOf(task[u].idx)' # FlagOf(j)'
    BY <1>5, <1>6, <1>7, <1>16
  <2>3. /\ sch'[Len(sch) + 1] = Group(i)' /\ Claimed(i)'
        /\ \A u \in Threads : Publishing(u)' => FlagOf(task[u].idx)' # FlagOf(i)'
    BY <1>3, <1>5, <1>6, <1>7, <1>8, <1>10
  <2>4. ASSUME NEW n \in DOMAIN sch'
        PROVE  \E j \in InBooks' :
                 /\ sch'[n] = Group(j)' /\ Claimed(j)'
                 /\ \A u \in Threads : Publishing(u)' => FlagOf(task[u].idx)' # FlagOf(j)'
    BY <1>3, <1>5, <1>10, <2>2, <2>3
  <2> QED
    BY <2>1, <2>4 DEF PublishInv
<1>18. CoverInv'
  BY <1>1, <1>2, <1>4, <1>5, <1>6 DEF CoverInv
<1> QED
  BY <1>11, <1>13, <1>14, <1>15, <1>17, <1>18 DEF Inv

-----------------------------------------------------------------------------
(* The theorems *)

(* Every step keeps the invariant.                                         *)
LEMMA NextInv == Inv /\ [Next]_vars => Inv'
<1> SUFFICES ASSUME Inv, [Next]_vars PROVE Inv'
  OBVIOUS
<1>1. ASSUME NEW t \in Threads,
             NextFillTask(t) \/ FillBook(t) \/ NextGroupTask(t) \/ Claim(t) \/ Publish(t)
      PROVE  Inv'
  BY <1>1, NextFillTaskInv, FillBookInv, NextGroupTaskInv, ClaimStepInv, PublishStepInv
<1>2. CASE SubmitReturns
  BY <1>2, SubmitReturnsInv
<1>3. CASE UNCHANGED vars
  <2>1. UNCHANGED <<phase, nza, nzb, booka, bookb, ia, ib, task, sch>>
    BY <1>3 DEF vars
  <2>2. InBooks' = InBooks /\ \A i : /\ Present(i)' = Present(i)
                                    /\ FlagOf(i)' = FlagOf(i)
                                    /\ Group(i)' = Group(i)
    BY <2>1, SameBooks
  <2>3. \A c : visited(c)' = visited(c) /\ Claimed(c)' = Claimed(c)
    BY <2>1, <2>2 DEF visited, Claimed
  <2>4. \A t \in Threads : Claiming(t)' = Claiming(t) /\ Publishing(t)' = Publishing(t)
    BY <2>1 DEF Claiming, Publishing
  <2>5. TypeOK' /\ PhaseInv' /\ BookInv'
    <3>1. TypeOK'
      BY <2>1, TypeIs, TypeParts DEF Inv
    <3>2. PhaseInv'
      BY <2>1 DEF Inv, PhaseInv, Claiming
    <3>3. BookInv'
      BY <2>1 DEF Inv, BookInv
    <3> QED
      BY <3>1, <3>2, <3>3
  <2>6. ClaimInv'
    <3>1. ASSUME NEW c \in InBooks', visited(c)'
          PROVE  /\ FlagOf(c)' = c
                 /\ \/ \E u \in Threads : Publishing(u)' /\ FlagOf(task[u].idx)' = c
                    \/ \E n \in DOMAIN sch : sch[n] = Group(c)'
      BY <2>1, <2>2, <2>3, <2>4, <3>1 DEF Inv, ClaimInv
    <3> QED
      BY <2>1, <2>2, <2>3, <2>4, <3>1 DEF Inv, ClaimInv
  <2>7. PublishInv'
    BY <2>1, <2>2, <2>3, <2>4 DEF Inv, PublishInv
  <2>8. CoverInv'
    BY <2>1, <2>2, <2>3 DEF Inv, CoverInv
  <2> QED
    BY <2>5, <2>6, <2>7, <2>8 DEF Inv
<1> QED
  BY <1>1, <1>2, <1>3 DEF Next, Built

(* The invariant holds in every reachable state of                         *)
(* addition_schedule::build.                                               *)
THEOREM InvHolds == Spec => []Inv
  BY InitInv, NextInv, PTL DEF Spec

(* What a published node is.                                               *)
LEMMA PublishedNode ==
    ASSUME Inv, NEW g \in Range(sch), NEW n \in g
    PROVE  \E c \in InBooks : n = NodeOf(c) /\ g = Group(c) /\ n.cic = c
<1>1. TypeOK /\ BookInv /\ PublishInv
  BY DEF Inv
<1>2. PICK i \in InBooks : g = Group(i)
  BY <1>1 DEF PublishInv, Range
<1>3. PICK c \in Present(i) : n = NodeOf(c)
  BY <1>2 DEF Group
<1> QED
  BY <1>1, <1>2, <1>3, PresentSame DEF NodeOf

(* Where the blocks of A and B of a node come from.                        *)
LEMMA NodeSources ==
    ASSUME Inv, NEW c \in InBooks
    PROVE  LET n == NodeOf(c)
           IN  /\ ~zeroa(n) => /\ n.cia \in Idx /\ c \in OrbitOf(SymA, n.cia)
                               /\ OrbitOf(SymAB, c) = OrbitOf(SymAB, n.cia)
               /\ ~zerob(n) => /\ n.cib \in Idx /\ Canonical(SymB, n.cib)
                               /\ c \in OrbitOf(SymB, n.cib)
                               /\ Range(OrbitsB[n.cib]) \subseteq DOMAIN bookb
                               /\ OrbitOf(SymAB, c) = OrbitOf(SymAB, n.cib)
<1> DEFINE n == NodeOf(c)
<1>1. BookInv
  BY DEF Inv
<1>2. ASSUME ~zeroa(n)
      PROVE  /\ n.cia \in Idx /\ c \in OrbitOf(SymA, n.cia)
             /\ OrbitOf(SymAB, c) = OrbitOf(SymAB, n.cia)
  <2>1. c \in DOMAIN booka /\ n.cia = booka[c].cidx
    BY <1>2 DEF zeroa, NodeOf
  <2>2. n.cia \in Idx /\ c \in Range(OrbitsA[n.cia])
    BY <1>1, <2>1 DEF BookInv, RightBook
  <2>3. c \in OrbitOf(SymA, n.cia)
    BY <2>2, OrbitsRight DEF CanonicalIn
  <2> QED
    BY <2>2, <2>3, Reachable
<1>3. ASSUME ~zerob(n)
      PROVE  /\ n.cib \in Idx /\ Canonical(SymB, n.cib) /\ c \in OrbitOf(SymB, n.cib)
             /\ Range(OrbitsB[n.cib]) \subseteq DOMAIN bookb
             /\ OrbitOf(SymAB, c) = OrbitOf(SymAB, n.cib)
  <2>1. c \in DOMAIN bookb /\ n.cib = bookb[c].cidx
    BY <1>3 DEF zerob, NodeOf
  <2>2. /\ n.cib \in Idx /\ Canonical(SymB, n.cib) /\ c \in Range(OrbitsB[n.cib])
        /\ Range(OrbitsB[n.cib]) \subseteq DOMAIN bookb
    BY <1>1, <2>1 DEF BookInv, RightBook
  <2>3. c \in OrbitOf(SymB, n.cib)
    BY <2>2, OrbitsRight DEF CanonicalIn
  <2> QED
    BY <2>2, <2>3, Reachable
<1> QED
  BY <1>2, <1>3

(* A block of B in the book that is canonical comes from itself.           *)
LEMMA OwnBlock ==
    ASSUME Inv, NEW k \in Idx, Canonical(SymB, k), Range(OrbitsB[k]) \subseteq DOMAIN bookb
    PROVE  k \in InBooks /\ NodeOf(k).cic = k /\ NodeOf(k).cib = k
<1>1. k \in OrbitOf(SymB, k) /\ Canonical(SymC, k)
  BY Symmetries, OrbitLeast, CanonicalOfC
<1>2. k \in Range(OrbitsB[k])
  BY <1>1, OrbitsRight DEF CanonicalIn
<1> DEFINE l == bookb[k].cidx
<1>3. l \in Idx /\ Canonical(SymB, l) /\ k \in Range(OrbitsB[l])
  BY <1>2 DEF Inv, BookInv, RightBook
<1>4. k \in OrbitOf(SymB, l)
  BY <1>3, OrbitsRight DEF CanonicalIn
<1>5. l = k
  BY <1>1, <1>3, <1>4, Symmetries, OneCanonical
<1> QED
  BY <1>2, <1>5 DEF InBooks, NodeOf

(* The invariant makes the groups independent.                             *)
LEMMA IndependentGroups == Inv => GroupsIndependent
<1> SUFFICES ASSUME Inv PROVE GroupsIndependent
  OBVIOUS
<1>1. TypeOK /\ BookInv
  BY DEF Inv
<1>2. DisjointGroups(Range(sch))
  <2>1. ASSUME NEW g \in Range(sch), NEW h \in Range(sch), NEW n \in g, NEW m \in h, n.cic = m.cic
        PROVE  n = m /\ g = h
    BY <2>1, PublishedNode
  <2> QED
    BY <2>1 DEF DisjointGroups
<1>3. UsersTogether(Range(sch))
  <2>0. SUFFICES ASSUME NEW g \in Range(sch), NEW h \in Range(sch), NEW n \in g, NEW m \in h,
                        \/ ~zeroa(n) /\ n.cia = m.cia
                        \/ ~zerob(n) /\ n.cib = m.cib
                 PROVE  g = h
    BY Zenon DEF UsersTogether
  <2>1. PICK c \in InBooks : n = NodeOf(c) /\ g = Group(c)
    BY PublishedNode
  <2>2. PICK d \in InBooks : m = NodeOf(d) /\ h = Group(d)
    BY PublishedNode
  <2>3. OrbitOf(SymAB, c) = OrbitOf(SymAB, d)
    <3>1. CASE ~zeroa(n) /\ n.cia = m.cia
      <4>1. ~zeroa(m)
        BY <3>1 DEF zeroa
      <4> QED
        BY <2>1, <2>2, <3>1, <4>1, NodeSources
    <3>2. CASE ~zerob(n) /\ n.cib = m.cib
      <4>1. ~zerob(m)
        BY <3>2 DEF zerob
      <4> QED
        BY <2>1, <2>2, <3>2, <4>1, NodeSources
    <3> QED
      BY <2>0, <3>1, <3>2
  <2> QED
    BY <1>1, <2>1, <2>2, <2>3, SameOrbitSameGroup
<1>4. SourceInGroup(Range(sch))
  <2>1. ASSUME NEW g \in Range(sch), NEW n \in g, ~zerob(n)
        PROVE  \E m \in g : m.cic = n.cib /\ OwnsB(m)
    <3>1. PICK c \in InBooks : n = NodeOf(c) /\ g = Group(c)
      BY PublishedNode
    <3>2. /\ n.cib \in Idx /\ Canonical(SymB, n.cib)
          /\ Range(OrbitsB[n.cib]) \subseteq DOMAIN bookb
          /\ OrbitOf(SymAB, c) = OrbitOf(SymAB, n.cib)
      BY <2>1, <3>1, NodeSources
    <3> DEFINE k == n.cib
    <3> HIDE DEF k
    <3>3. k \in InBooks /\ NodeOf(k).cic = k /\ NodeOf(k).cib = k
      BY <3>2, OwnBlock DEF k
    <3>4. k \in Present(k) /\ Group(k) = g
      BY <1>1, <3>1, <3>2, <3>3, InBooksCanonical, SameOrbitSameGroup DEF k
    <3>5. NodeOf(k) \in g
      BY <3>4 DEF Group
    <3> QED
      BY <3>3, <3>5 DEF OwnsB, k
  <2> QED
    BY <2>1 DEF SourceInGroup
<1>5. IsInjective(sch)
  BY DEF Inv, PublishInv
<1> QED
  BY <1>2, <1>3, <1>4, <1>5 DEF GroupsIndependent, WellFormed

(* The invariant leaves out no block.                                      *)
LEMMA NothingLeftOut == Inv => EveryBlockMade
<1> SUFFICES ASSUME Inv, phase = "built"
             PROVE  {n.cic : n \in UNION Range(sch)} = DOMAIN booka \cup DOMAIN bookb
  BY DEF EveryBlockMade
<1>1. TypeOK /\ PhaseInv /\ BookInv /\ ClaimInv /\ CoverInv
  BY DEF Inv
<1>2. \A t \in Threads : task[t].at = "none" /\ task[t].batch = {}
  <2>1. ASSUME NEW t \in Threads PROVE task[t].at = "none" /\ task[t].batch = {}
    <3>1. TaskOK(task[t])
      BY <1>1, TypeIs
    <3>2. task[t].at = "none"
      BY <1>1, <3>1 DEF PhaseInv, Filling, Claiming, TaskOK, TaskType
    <3> QED
      BY <3>1, <3>2 DEF TaskOK, NoTask
  <2> QED
    BY <2>1
<1>3. ASSUME NEW c \in InBooks PROVE c \in {n.cic : n \in UNION Range(sch)}
  <2>1. Claimed(c)
    BY <1>1, <1>2 DEF CoverInv, PhaseInv, Filling
  <2>2. FlagOf(c) \in InBooks /\ Group(FlagOf(c)) = Group(c)
    BY <1>1, FlagOfFlag
  <2>3. PICK n \in DOMAIN sch : sch[n] = Group(c)
    BY <1>1, <1>2, <2>1, <2>2 DEF ClaimInv, Claimed, Publishing
  <2>4. c \in Present(c)
    BY <1>1, InBooksCanonical
  <2>5. NodeOf(c) \in sch[n] /\ NodeOf(c).cic = c
    BY <2>3, <2>4 DEF Group, NodeOf
  <2> QED
    BY <2>5 DEF Range
<1>4. ASSUME NEW g \in Range(sch), NEW n \in g PROVE n.cic \in InBooks
  BY PublishedNode
<1> QED
  BY <1>3, <1>4 DEF InBooks

(* The invariant makes the books right.                                    *)
LEMMA RightBooks == Inv => BooksRight
<1> SUFFICES ASSUME Inv PROVE BooksRight
  OBVIOUS
<1>1. TypeOK /\ BookInv
  BY DEF Inv
<1>2. ASSUME NEW c \in DOMAIN booka
      PROVE  /\ Canonical(SymC, c) /\ Canonical(SymA, booka[c].cidx)
             /\ c \in OrbitOf(SymA, booka[c].cidx)
  BY <1>1, OrbitsRight DEF BookInv, RightBook, CanonicalIn
<1>3. ASSUME NEW c \in DOMAIN bookb
      PROVE  /\ Canonical(SymC, c) /\ Canonical(SymB, bookb[c].cidx)
             /\ c \in OrbitOf(SymB, bookb[c].cidx)
  BY <1>1, OrbitsRight DEF BookInv, RightBook, CanonicalIn
<1> QED
  BY <1>1, <1>2, <1>3 DEF BooksRight

(* The books of A and B hold, for each canonical block of C, the canonical *)
(* block it is made from (addition_schedule::build, the first two          *)
(* submissions).                                                           *)
THEOREM BooksStayRight == Spec => []BooksRight
  BY InvHolds, RightBooks, PTL

(* addition_schedule.h promises disjoint groups.  No group is published    *)
(* twice and the published ones never share a block of A, B or C, however  *)
(* the tasks that claim the orbits interleave: it is the form on which     *)
(* gen_bto_aux_add, and AuxAdd_proofs, rely.                               *)
THEOREM GroupsStayIndependent == Spec => []GroupsIndependent
  BY InvHolds, IndependentGroups, PTL

(* When build returns, the schedule makes every block that it should make: *)
(* none is lost to a task that left it to another one.                     *)
THEOREM NoBlockLeftOut == Spec => []EveryBlockMade
  BY InvHolds, NothingLeftOut, PTL
=============================================================================
