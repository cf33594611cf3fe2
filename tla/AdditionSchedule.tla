-------------------------- MODULE AdditionSchedule --------------------------
(***************************************************************************)
(* addition_schedule::build: the blocks of C = A + B combined into groups  *)
(* that can be computed independently.  Three submissions to the thread    *)
(* pool run one after the other: the first two fill the books of A and B   *)
(* (which canonical block each block of C comes from), the third walks     *)
(* both books in batches.  A task of the third kind computes the combined  *)
(* orbit of an index, claims it by the `visited` flag of the first index   *)
(* of the orbit that is in a book, and publishes the orbit's nodes as a    *)
(* group.  Many tasks may hold indexes of the same orbit.                  *)
(*                                                                         *)
(* Left out: the transformations stored with the nodes, the order within a *)
(* batch (a task takes any index of it next), and the construction of the  *)
(* symmetry of C from those of A and B (SymC is given).                    *)
(***************************************************************************)
EXTENDS Orbits, Functions, ScheduleNodes

CONSTANTS
    SymA, SymB, SymC, \* m_syma, m_symb, m_symc: sets of generators
    Threads,          \* threads of the pool that run tasks
    BatchLen          \* batch_size (10 in the code)

ASSUME SymAssumption == SymA \cup SymB \cup SymC \subseteq Bijection(Idx, Idx)
ASSUME BatchAssumption == BatchLen \in Nat \ {0}
ASSUME NoBlockAssumption == NoBlock \notin Idx

(* The symmetry of C is shared by A and B.                                 *)
ASSUME CommonAssumption ==
    \A i \in Idx : OrbitOf(SymC, i) \subseteq OrbitOf(SymA, i) \cap OrbitOf(SymB, i)

(* The orbits of the symmetry objects, which do not change while build     *)
(* runs.                                                                   *)
OrbitsA == [i \in Idx |-> subgroup_orbits(SymA, SymC, i)]
OrbitsB == [i \in Idx |-> subgroup_orbits(SymB, SymC, i)]
OrbitsAB == [i \in Idx |-> combined_orbits(SymA, SymB, SymC, i)]

VARIABLES
    phase,  \* the submission under way: "booka", "bookb", "schedule", "built"
    nza,    \* asch: the canonical non-zero blocks of A not yet in a task
    nzb,    \* nzlstb: the same for B
    booka,  \* block of C -> [cidx, visited], for the blocks that A reaches
    bookb,  \* the same for B
    ia, ib, \* keys of the books from the positions m_ia, m_ib on
    task,   \* the task of each thread: what it does, the indexes left, the current one
    sch     \* m_sch, the list of published groups

vars == <<phase, nza, nzb, booka, bookb, ia, ib, task, sch>>

NoTask == [at |-> "none", batch |-> {}, idx |-> NoBlock]
NewTask(at, batch) == [at |-> at, batch |-> batch, idx |-> NoBlock]
EmptyBook == [i \in {} |-> [cidx |-> NoBlock, visited |-> FALSE]]

Init ==
    /\ phase = "booka"
    /\ nza \in SUBSET {i \in Idx : Canonical(SymA, i)}
    /\ nzb \in SUBSET {i \in Idx : Canonical(SymB, i)}
    /\ booka = EmptyBook /\ bookb = EmptyBook
    /\ ia = {} /\ ib = {}
    /\ task = [t \in Threads |-> NoTask]
    /\ sch = <<>>

Idle(t) == task[t] = NoTask
AllIdle == \A t \in Threads : Idle(t)

-----------------------------------------------------------------------------
(* Filling the books. *)

(* addition_schedule_task_iterator_1::get_next, in any order of the list. *)
BatchOf(rest) ==
    {S \in SUBSET rest : Cardinality(S) =
        IF Cardinality(rest) < BatchLen THEN Cardinality(rest) ELSE BatchLen}

NextFillTask(t) ==
    /\ Idle(t)
    /\ \/ /\ phase = "booka" /\ nza # {}
          /\ \E S \in BatchOf(nza) :
                /\ nza' = nza \ S
                /\ task' = [task EXCEPT ![t] = NewTask("fill", S)]
          /\ UNCHANGED nzb
       \/ /\ phase = "bookb" /\ nzb # {}
          /\ \E S \in BatchOf(nzb) :
                /\ nzb' = nzb \ S
                /\ task' = [task EXCEPT ![t] = NewTask("fill", S)]
          /\ UNCHANGED nza
    /\ UNCHANGED <<phase, booka, bookb, ia, ib, sch>>

(* The task's own book: the last index of the batch that reaches a block   *)
(* of C decides.                                                           *)
Reached(orbits, batch) == UNION {Range(orbits[k]) : k \in batch}
BugFirstOfBatch(orbits, batch) ==
    [c \in Reached(orbits, batch) |-> [cidx |-> Min(batch), visited |-> FALSE]]
Entries(orbits, batch) ==
    [c \in Reached(orbits, batch) |->
        [cidx |-> Max({k \in batch : c \in Range(orbits[k])}), visited |-> FALSE]]

(* m_booka.insert under m_lock: entries already there are kept. *)
Inserted(book, entries) ==
    [c \in DOMAIN book \cup DOMAIN entries |->
        IF c \in DOMAIN book THEN book[c] ELSE entries[c]]
FillBook(t) ==
    /\ task[t].at = "fill"
    /\ \/ /\ phase = "booka"
          /\ booka' = Inserted(booka, Entries(OrbitsA, task[t].batch))
          /\ UNCHANGED bookb
       \/ /\ phase = "bookb"
          /\ bookb' = Inserted(bookb, Entries(OrbitsB, task[t].batch))
          /\ UNCHANGED booka
    /\ task' = [task EXCEPT ![t] = NoTask]
    /\ UNCHANGED <<phase, nza, nzb, ia, ib, sch>>

(* submit returns, and build goes on to the next one. *)
SubmitReturns ==
    /\ AllIdle
    /\ \/ /\ phase = "booka" /\ nza = {}
          /\ phase' = "bookb"
          /\ UNCHANGED <<ia, ib>>
       \/ /\ phase = "bookb" /\ nzb = {}
          /\ phase' = "schedule"
          /\ ia' = DOMAIN booka /\ ib' = DOMAIN bookb
       \/ /\ phase = "schedule" /\ ia = {} /\ ib = {}
          /\ phase' = "built"
          /\ UNCHANGED <<ia, ib>>
    /\ UNCHANGED <<nza, nzb, booka, bookb, task, sch>>

-----------------------------------------------------------------------------
(* Making the groups. *)

(* At most n unvisited keys from the position rest on: the keys taken, and *)
(* where the iterator stands afterwards.                                   *)
Unvisited(keys, book) == {k \in keys : ~book[k].visited}
FirstOf(keys, n) == {k \in keys : Cardinality({j \in keys : j < k}) < n}
BugDropsRest(rest, book, n) ==
    [batch |-> FirstOf(Unvisited(rest, book), n), rest |-> {}]
BugKeepsVisited(rest, book, n) ==
    LET taken == FirstOf(Unvisited(rest, book), n)
    IN  [batch |-> taken, rest |-> rest \ taken]
TakeFrom(rest, book, n) ==
    LET open == Unvisited(rest, book)
        taken == FirstOf(open, n)
    IN  [batch |-> taken,
         rest |-> IF Cardinality(open) < n THEN {}
                  ELSE {k \in rest : \A i \in taken : k > i}]

(* addition_schedule_task_iterator_2::get_next: the walk of both books     *)
(* happens under m_lock.                                                   *)
NextGroupTask(t) ==
    /\ Idle(t)
    /\ phase = "schedule"
    /\ ia # {} \/ ib # {}
    /\ LET a == TakeFrom(ia, booka, BatchLen)
           b == IF a.rest = {}
                THEN TakeFrom(ib, bookb, BatchLen - Cardinality(a.batch))
                ELSE [batch |-> {}, rest |-> ib]
           batch == a.batch \cup b.batch
       IN  /\ ia' = a.rest /\ ib' = b.rest
           /\ task' = [task EXCEPT ![t] =
                        IF batch = {} THEN NoTask ELSE NewTask("claim", batch)]
    /\ UNCHANGED <<phase, nza, nzb, booka, bookb, sch>>

(* The blocks of the combined orbit of i that are in a book. *)
InBooks == DOMAIN booka \cup DOMAIN bookb
Present(i) == Range(OrbitsAB[i]) \cap InBooks

(* The index whose flag stands for the whole orbit: the first of them. *)
BugOwnFlag(i) == i
FlagOf(i) ==
    LET o == OrbitsAB[i] IN o[Min({k \in DOMAIN o : o[k] \in InBooks})]

visited(c) == IF c \in DOMAIN booka THEN booka[c].visited ELSE bookb[c].visited

(* The task goes on to the next index of its batch. *)
Advance(t, batch) ==
    [task EXCEPT ![t] = IF batch = {} THEN NoTask ELSE NewTask("claim", batch)]

(* The first block of the orbit in a book: its flag is tested and set      *)
(* under m_lock.                                                           *)
Claim(t) ==
    /\ task[t].at = "claim"
    /\ \E i \in task[t].batch :
          LET c == FlagOf(i)
          IN  \/ /\ visited(c)
                 /\ task' = Advance(t, task[t].batch \ {i})
                 /\ UNCHANGED <<booka, bookb>>
              \/ /\ ~visited(c)
                 /\ IF c \in DOMAIN booka
                    THEN /\ booka' = [booka EXCEPT ![c].visited = TRUE]
                         /\ UNCHANGED bookb
                    ELSE /\ bookb' = [bookb EXCEPT ![c].visited = TRUE]
                         /\ UNCHANGED booka
                 /\ task' = [task EXCEPT ![t] = [at |-> "publish", idx |-> i,
                                                 batch |-> task[t].batch \ {i}]]
    /\ UNCHANGED <<phase, nza, nzb, ia, ib, sch>>

(* The nodes of the claimed orbit. *)
NodeOf(c) ==
    [cic |-> c,
     cia |-> IF c \in DOMAIN booka THEN booka[c].cidx ELSE NoBlock,
     cib |-> IF c \in DOMAIN bookb THEN bookb[c].cidx ELSE NoBlock]
Group(i) == {NodeOf(c) : c \in Present(i)}

(* m_sch.push_back under m_lock, then the next index of the batch. *)
Publish(t) ==
    /\ task[t].at = "publish"
    /\ sch' = Append(sch, Group(task[t].idx))
    /\ task' = Advance(t, task[t].batch)
    /\ UNCHANGED <<phase, nza, nzb, booka, bookb, ia, ib>>

Built == phase = "built" /\ UNCHANGED vars

Next ==
    \/ \E t \in Threads :
          NextFillTask(t) \/ FillBook(t) \/ NextGroupTask(t) \/ Claim(t) \/ Publish(t)
    \/ SubmitReturns
    \/ Built

(* The threads of the pool run the tasks they take (see ThreadPool). *)
Fairness ==
    /\ WF_vars(SubmitReturns)
    /\ WF_vars(\E t \in Threads : NextFillTask(t) \/ NextGroupTask(t))
    /\ \A t \in Threads : WF_vars(FillBook(t) \/ Claim(t) \/ Publish(t))

Spec == Init /\ [][Next]_vars
FairSpec == Spec /\ Fairness

-----------------------------------------------------------------------------
TypeOK ==
    /\ phase \in {"booka", "bookb", "schedule", "built"}
    /\ nza \subseteq Idx /\ nzb \subseteq Idx
    /\ \A book \in {booka, bookb} :
          /\ DOMAIN book \subseteq Idx
          /\ \A c \in DOMAIN book : book[c] \in [cidx : Idx, visited : BOOLEAN]
    /\ ia \subseteq DOMAIN booka /\ ib \subseteq DOMAIN bookb
    /\ task \in [Threads -> [at : {"none", "fill", "claim", "publish"},
                             batch : SUBSET Idx, idx : Idx \cup {NoBlock}]]
    /\ \A t \in Threads :
          /\ task[t].at = "none" => task[t] = NoTask
          /\ task[t].at \in {"fill", "claim"} => task[t].batch # {}
          /\ Cardinality(task[t].batch) <= BatchLen
    /\ sch \in Seq(SUBSET Node(Idx))

(* addition_schedule.h: the blocks are "combined into disjoint groups"     *)
(* that can be worked on concurrently.  No group is published twice by     *)
(* tasks that hold indexes of the same orbit, and whatever is published    *)
(* has the form gen_bto_aux_add relies on.                                 *)
GroupsIndependent == IsInjective(sch) /\ WellFormed(Range(sch))

(* When build returns, every block of C that a block of A or of B reaches  *)
(* is made by some node, from the blocks it should be made from: no index  *)
(* falls between a skipped batch entry and a claim that somebody else      *)
(* made.  The lists nza, nzb are consumed by then; the books record them.  *)
EveryBlockMade ==
    phase = "built" =>
        {n.cic : n \in UNION Range(sch)} = DOMAIN booka \cup DOMAIN bookb

(* The books are right: the blocks of C reached from a canonical block are *)
(* the canonical blocks of C in its orbit, whatever the other tasks        *)
(* inserted in between.                                                    *)
BooksRight ==
    /\ TypeOK
    /\ \A c \in DOMAIN booka :
          Canonical(SymC, c) /\ Canonical(SymA, booka[c].cidx)
                             /\ c \in OrbitOf(SymA, booka[c].cidx)
    /\ \A c \in DOMAIN bookb :
          Canonical(SymC, c) /\ Canonical(SymB, bookb[c].cidx)
                             /\ c \in OrbitOf(SymB, bookb[c].cidx)

(* build returns: the iterator reaches the end of both books although     *)
(* other tasks set the flags it looks at.                                  *)
Builds == <>(phase = "built")
=============================================================================
