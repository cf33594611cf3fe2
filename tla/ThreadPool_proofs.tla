-------------------------- MODULE ThreadPool_proofs --------------------------
(***************************************************************************)
(* The safety of the thread pool for any number of workers, CPUs, tasks    *)
(* and nested calls.                                                       *)
(*                                                                         *)
(* Inv is inductive.  Its first half, PoolInv, CpuInv and WaitInv, ties  *)
(* the label of a worker to its list, to its flags, its state and to       *)
(* m_mtx: each action moves one worker, so each part needs the others only *)
(* for that worker.  Its second half, SourceInv, ties the sources to the   *)
(* workers: an open source has a caller that waits for it and is a child   *)
(* of that caller's source, every task has one place, and the counters of  *)
(* a source are the numbers of its tasks in these places.  Then a source   *)
(* that is done has no task left in any queue (NotDone), nothing can give  *)
(* it one again (DoneStep), and its caller may drop it.                    *)
(*                                                                         *)
(* The last part shows that the pool keeps the promise of submit.          *)
(***************************************************************************)
EXTENDS ThreadPool, FiniteSetTheorems, SequenceTheorems, WellFoundedInduction, TLAPS

AllDone(s) == IsAllDone(s, npending[s], srunning[s], children[s])

Calling == {"rel", "relwait", "rel2", "rel3", "tswait", "tsblock",
            "acq", "cpuwait", "cpucheck", "unsub"}
After == {"acq", "cpuwait", "cpucheck", "unsub"}    \* the wait for the source
InTaskPcs == Calling \cup {"perform", "throw", "finish", "tail", "external"}
Locked == {"spawn1", "spawn2", "settle", "yield"}
OffPool == {"rel3", "external", "tswait", "tsblock", "acq"}
WorkerPcs == InTaskPcs \cup Locked \cup
    {"unborn", "born", "loop", "sigwait", "woken", "first", "pop", "batch", "exit", "dead"}
Over == {"terminate", "join", "finished"}
MainPcs == Over \cup {"client", "rel3", "tswait", "tsblock", "unsub"}

PcInv == /\ pc[Main] \in MainPcs
         /\ \A w \in Workers : pc[w] \in WorkerPcs

(* The client waits for its source as long as the pool has one. *)
MainInv ==
    /\ tsroot = NoSource <=> pc[Main] \in Over \cup {"client"}
    /\ term <=> pc[Main] \in Over
    /\ pc[Main] = "unsub" => AllDone(tsroot)
    /\ tsroot # NoSource => sst[tsroot] = "open" /\ \A t \in Task : Nested[t] # tsroot

TaskInv == \A w \in Workers :
    /\ cur[w] # NoTask <=> pc[w] \in InTaskPcs
    /\ pc[w] \in {"perform", "tswait", "tsblock", "unsub"} => Nested[cur[w]] # NoSource
    /\ pc[w] = "external" => Nested[cur[w]] = NoSource

LockInv == \A w \in Workers : mtx = w <=> pc[w] \in Locked

(* Where a worker is in the lists, from where it is in the code; the flag  *)
(* of its cond tells that it has got a CPU.                                *)
OneList == /\ idle \cap running = {} /\ idle \cap waiting = {}
           /\ idle \cap waitingcpu = {} /\ running \cap waiting = {}
           /\ running \cap waitingcpu = {} /\ waiting \cap waitingcpu = {}
ListInv == \A w \in Workers :
    /\ pc[w] \in OnCpu \cup {"cpucheck"} => w \in running
    /\ w \in waiting <=> pc[w] \in OffPool
    /\ pc[w] = "cpuwait" => w \in waitingcpu \/ (w \in running /\ cpu[w])
    /\ w \in waitingcpu => pc[w] = "cpuwait"
    /\ cpu[w] => term \/ (pc[w] = "cpuwait" /\ w \in running)
    /\ w \in idle => state[w] = "idle" /\ pc[w] \in {"loop", "sigwait", "woken", "yield", "exit", "dead"}
    /\ w \in running => pc[w] \notin {"unborn", "born"}
    /\ pc[w] \in {"loop", "sigwait", "woken", "yield"} /\ state[w] = "running" => w \in running

(* A worker has tasks in its queue only while it works on them. *)
Working == InTaskPcs \cup {"spawn1", "pop", "batch", "spawn2", "settle"}
QueueInv == \A w \in Workers :
    /\ pc[w] \in Working => ~first[w]
    /\ pc[w] \in Working \cup {"first"} => state[w] = "running"
    /\ lq[w] # <<>> => \/ pc[w] \in Working \ {"batch"}
                       \/ pc[w] = "loop" /\ state[w] = "running" /\ ~first[w]
    /\ pc[w] = "spawn2" => waitingcpu = {}
    /\ pc[w] = "settle" /\ lq[w] # <<>> => waitingcpu = {}

(* A worker that yields has just given its own CPU up. *)
CpuInv == /\ nrunning = Cardinality(running) /\ nrunning <= NCpus
          /\ \A w \in Workers : pc[w] = "yield" => nrunning < NCpus

(* m_nwaiting counts at least the tasks that wait for something else. *)
Blocked == {w \in Workers : /\ pc[w] \in {"rel3", "external", "acq", "cpuwait", "cpucheck"}
                            /\ Nested[cur[w]] = NoSource}
WaitInv == nwaiting >= Cardinality(Blocked)

(* An open source is the client's or one that a running task waits for,    *)
(* and then it is a child of the source of that task.                      *)
Calls(w, s) == cur[w] # NoTask /\ Nested[cur[w]] = s /\ pc[w] \in Calling
OpenInv == \A s \in Source :
    sst[s] = "open" => s = tsroot \/ \E w \in Workers : Calls(w, s)
CallInv == \A w \in Workers : \A s \in Source : Calls(w, s) =>
    /\ sst[s] = "open"
    /\ \E i \in DOMAIN children[SourceOf(cur[w])] : children[SourceOf(cur[w])][i] = s
    /\ pc[w] \in After => AllDone(s)
ChildInv == \A p \in Source : \A i \in DOMAIN children[p] :
    /\ \E w \in Workers : Calls(w, children[p][i]) /\ cur[w] \in InSource(p)
    /\ \A j \in DOMAIN children[p] : children[p][i] = children[p][j] => i = j

(* A task that somebody has was taken from an open source, and no other    *)
(* place has it.                                                           *)
TakenOf(s) == {TaskSeq[s][i] : i \in 1..pos[s]}
OpenTask(t) == \E s \in Source : sst[s] = "open" /\ t \in TakenOf(s)
PosInv == \A s \in Source : pos[s] <= Len(TaskSeq[s])
HeldInv == \A w \in Workers :
    /\ cur[w] # NoTask => OpenTask(cur[w])
    /\ \A i \in DOMAIN lq[w] : OpenTask(lq[w][i])
OnceInv == \A w, v \in Workers :
    /\ cur[w] = cur[v] /\ cur[w] # NoTask => w = v
    /\ \A i \in DOMAIN lq[w] : cur[v] # lq[w][i]
    /\ \A i \in DOMAIN lq[w] : \A j \in DOMAIN lq[v] : lq[w][i] = lq[v][j] => w = v /\ i = j

QueuedOf(s) == {t \in InSource(s) : Queued(t)}
RunnersOf(s) == {w \in Workers : cur[w] \in InSource(s)}
CountInv == \A s \in Source :
    /\ npending[s] = Cardinality(QueuedOf(s))
    /\ srunning[s] = Cardinality(RunnersOf(s))

PoolInv == PcInv /\ TaskInv /\ LockInv /\ OneList /\ ListInv /\ QueueInv
SourceInv == MainInv /\ OpenInv /\ CallInv /\ ChildInv /\ PosInv /\ HeldInv /\ OnceInv /\ CountInv
Inv == TypeOK /\ PoolInv /\ SourceInv /\ CpuInv /\ WaitInv /\ NoCpuWasted
-----------------------------------------------------------------------------
(* Operators *)

(* A set of naturals has a least element.                                  *)
LEMMA MinOfNaturals ==
    ASSUME NEW S \in SUBSET Nat, S # {}
    PROVE  \E m \in S : \A k \in S : m <= k
<1>1. IsWellFoundedOn(OpToRel(<, Nat), Nat)
  BY NatLessThanWellFounded
<1>2. PICK m \in S : \A k \in S : ~ (<<k, m>> \in OpToRel(<, Nat))
  BY <1>1, WFMin
<1>3. \A k \in S : ~ (k < m)
  BY <1>2 DEF OpToRel
<1> QED
  BY <1>3

(* A batch stays within the tasks that are left. *)
LEMMA BatchSizeType ==
    ASSUME NEW s \in Source, pos[s] \in Nat, pos[s] <= Len(TaskSeq[s])
    PROVE  BatchSize(s) \in 0..(Len(TaskSeq[s]) - pos[s])
<1> DEFINE seen == pos[s]
           avg  == IF seen > 2 * LqLen
                   THEN CostOf(SubSeq(TaskSeq[s], 1, seen)) \div seen ELSE 0
           max  == avg * LqLen
           rest == Len(TaskSeq[s]) - seen
           cost(n) == CostOf(SubSeq(TaskSeq[s], seen + 1, seen + n))
           more(n) == IF cost(n) > 0 /\ max > 0 THEN cost(n) < max ELSE n < LqLen
           enough == {n \in 0..rest : n = rest \/ ~more(n)}
<1>1. Len(TaskSeq[s]) \in Nat /\ rest \in Nat
  BY ProgramAssumption, LenProperties
<1>2. rest \in enough /\ enough \in SUBSET Nat
  BY <1>1
<1>3. PICK m \in enough : \A k \in enough : m <= k
  BY <1>2, MinOfNaturals
<1>4. \A k \in 0..(m - 1) : more(k)
  <2> HIDE DEF more
  <2> SUFFICES ASSUME NEW k \in 0..(m - 1), ~more(k) PROVE FALSE
    OBVIOUS
  <2>1. k \in 0..rest /\ ~ (m <= k)
    BY <1>1, <1>3
  <2> QED
    BY <1>3, <2>1
<1>5. \E n \in 0..rest : /\ n = rest \/ ~more(n)
                         /\ \A k \in 0..(n - 1) : more(k)
  BY <1>3, <1>4
<1>6. BatchSize(s) = CHOOSE n \in 0..rest : /\ n = rest \/ ~more(n)
                                            /\ \A k \in 0..(n - 1) : more(k)
  BY DEF BatchSize
<1> HIDE DEF more, rest
<1>7. BatchSize(s) \in 0..rest
  BY <1>5, <1>6
<1> QED
  BY <1>7 DEF rest

(* get_current gives an open source that has more tasks. *)
LEMMA CurrentType ==
    ASSUME TypeOK, MainInv, CallInv, ChildInv, Current # NoSource
    PROVE  Current \in Source /\ HasMore(Current) /\ sst[Current] = "open" /\ tsroot # NoSource
<1>1. tsroot # NoSource /\ \E s \in Source : IsCurrent(s)
  BY DEF Current
<1>2. Current \in Source /\ IsCurrent(Current)
  <2> HIDE DEF IsCurrent
  <2>1. Current = CHOOSE s \in Source : IsCurrent(s)
    BY <1>1 DEF Current
  <2> QED
    BY <1>1, <2>1
<1> DEFINE Open == {s \in Source : sst[s] = "open"}
<1>3. tsroot \in Open
  BY <1>1 DEF MainInv, TypeOK
<1>4. ASSUME NEW p \in Open, NEW i \in DOMAIN children[p] PROVE children[p][i] \in Open
  <2>1. children[p][i] \in Source
    BY <1>4, ElementOfSeq, LenProperties DEF TypeOK
  <2>2. PICK w \in Workers : Calls(w, children[p][i])
    BY <1>4 DEF ChildInv
  <2> QED
    BY <2>1, <2>2 DEF CallInv
<1>5. Current \in Open
  <2>1. Current \in Tree(tsroot)
    BY <1>2 DEF IsCurrent
  <2>2. Open \in SUBSET Source
    OBVIOUS
  <2> HIDE DEF Open
  <2> QED
    BY <1>3, <1>4, <2>1, <2>2 DEF Tree
<1> QED
  BY <1>1, <1>2, <1>5 DEF IsCurrent

(* What enqueue_local takes into an empty queue: nothing, a batch from an  *)
(* open source, or the last task of another queue.                         *)
Batch(s, n) == SubSeq(TaskSeq[s], pos[s] + 1, pos[s] + n)
PullsBatch(w, s, n) ==
    /\ sst[s] = "open" /\ pos[s] + n <= Len(TaskSeq[s]) /\ HasMore(s)
    /\ lq' = [lq EXCEPT ![w] = Batch(s, n)]
    /\ pos' = [pos EXCEPT ![s] = pos[s] + n]
    /\ npending' = [npending EXCEPT ![s] = npending[s] + n]
    /\ UNCHANGED <<sst, srunning, exc, alldone, children>>
Steals(w, v) ==
    /\ v # w /\ lq[v] # <<>>
    /\ lq' = [lq EXCEPT ![v] = Front(lq[v]), ![w] = <<Last(lq[v])>>]
    /\ UNCHANGED srcVars

(* What PullInto does, as one of three cases.                              *)
LEMMA Pulled ==
    ASSUME NEW w \in Workers, PullInto(w), lq[w] = <<>>,
           TypeOK, MainInv, CallInv, ChildInv, PosInv
    PROVE  \/ UNCHANGED <<lq, srcVars>>
           \/ \E s \in Source, n \in Nat : PullsBatch(w, s, n)
           \/ \E v \in Workers : Steals(w, v)
<1>1. CASE tsroot = NoSource /\ UNCHANGED <<lq, srcVars>>
  BY <1>1
<1>2. CASE /\ tsroot # NoSource /\ Current # NoSource
           /\ LET s == Current
                  n == BatchSize(s)
              IN  /\ lq' = [lq EXCEPT ![w] = @ \o SubSeq(TaskSeq[s], pos[s] + 1, pos[s] + n)]
                  /\ pos' = [pos EXCEPT ![s] = @ + n]
                  /\ npending' = [npending EXCEPT ![s] = @ + n]
           /\ UNCHANGED <<sst, srunning, exc, alldone, children>>
  <2> DEFINE s == Current
             n == BatchSize(s)
  <2>1. s \in Source /\ HasMore(s) /\ sst[s] = "open"
    BY <1>2, CurrentType
  <2>2. pos[s] \in Nat /\ pos[s] <= Len(TaskSeq[s]) /\ TaskSeq[s] \in Seq(Task)
    BY <2>1, ProgramAssumption DEF TypeOK, PosInv
  <2>3. Len(TaskSeq[s]) \in Nat
    BY <2>2, LenProperties
  <2>4. n \in Nat /\ pos[s] + n <= Len(TaskSeq[s])
    <3>1. BatchSize(s) \in 0..(Len(TaskSeq[s]) - pos[s])
      BY <2>1, <2>2, BatchSizeType
    <3> QED
      BY <3>1, <2>2, <2>3
  <2>5. Batch(s, n) \in Seq(Task)
    <3>1. \A i \in (pos[s] + 1)..(pos[s] + n) : i \in 1..Len(TaskSeq[s])
      BY <2>2, <2>3, <2>4
    <3>2. \A i \in (pos[s] + 1)..(pos[s] + n) : TaskSeq[s][i] \in Task
      BY <2>2, <3>1, ElementOfSeq
    <3>3. pos[s] + 1 \in Int /\ pos[s] + n \in Int
      BY <2>2, <2>4
    <3> QED
      BY <2>2, <3>2, <3>3, SubSeqProperties DEF Batch
  <2>6. lq[w] \o Batch(s, n) = Batch(s, n)
    BY <2>5, ConcatEmptySeq
  <2>7. PullsBatch(w, s, n)
    <3> HIDE DEF s, n
    <3> QED
      BY <1>2, <2>1, <2>4, <2>6 DEF PullsBatch, Batch, s, n
  <2> QED
    BY <2>1, <2>4, <2>7
<1>3. CASE /\ tsroot # NoSource /\ Current = NoSource
           /\ IF \A v \in Workers : lq[v] = <<>> THEN UNCHANGED lq ELSE StealFrom(w)
           /\ UNCHANGED srcVars
  BY <1>3 DEF StealFrom, Steals
<1> QED
  BY <1>1, <1>2, <1>3 DEF PullInto

(* The queues after each of the steps that change them. *)
LEMMA AfterBatch ==
    ASSUME TypeOK, PosInv, NEW w \in Workers, NEW s \in Source, NEW n \in Nat,
           PullsBatch(w, s, n)
    PROVE  /\ lq' \in [Workers -> Seq(Task)]
           /\ \A v \in Workers : v # w => lq'[v] = lq[v]
           /\ DOMAIN lq'[w] = 1..n
           /\ \A i \in 1..n : /\ pos[s] + i \in DOMAIN TaskSeq[s]
                              /\ lq'[w][i] = TaskSeq[s][pos[s] + i]
<1> DEFINE b == Batch(s, n)
<1>1. pos[s] \in Nat /\ TaskSeq[s] \in Seq(Task) /\ pos[s] + n <= Len(TaskSeq[s])
  BY ProgramAssumption DEF TypeOK, PullsBatch
<1>2. Len(TaskSeq[s]) \in Nat /\ DOMAIN TaskSeq[s] = 1..Len(TaskSeq[s])
  BY <1>1, LenProperties
<1>3. \A i \in (pos[s] + 1)..(pos[s] + n) : i \in DOMAIN TaskSeq[s]
  BY <1>1, <1>2
<1>4. \A i \in (pos[s] + 1)..(pos[s] + n) : TaskSeq[s][i] \in Task
  BY <1>1, <1>2, <1>3, ElementOfSeq
<1>5. pos[s] + 1 \in Int /\ pos[s] + n \in Int
  BY <1>1
<1>6. b \in Seq(Task) /\ Len(b) = n /\ \A i \in 1..n : b[i] = TaskSeq[s][pos[s] + i]
  <2> DEFINE m == pos[s] + 1
             k == pos[s] + n
             q == TaskSeq[s]
  <2>1. m \in Int /\ k \in Int /\ \A i \in m..k : q[i] \in Task
    BY <1>4, <1>5
  <2>2. k - m + 1 = n /\ (m <= k <=> n # 0) /\ \A i \in 1..n : m + i - 1 = pos[s] + i
    BY <1>1
  <2>3. b = SubSeq(q, m, k)
    BY DEF Batch
  <2> HIDE DEF m, k, q, b
  <2>4. /\ b \in Seq(Task)
        /\ Len(b) = IF m <= k THEN k - m + 1 ELSE 0
        /\ \A i \in 1..(k - m + 1) : b[i] = q[m + i - 1]
    BY <2>1, <2>3, SubSeqProperties
  <2>5. Len(b) = n
    BY <2>2, <2>4
  <2>6. \A i \in 1..n : b[i] = q[m + i - 1]
    BY <2>2, <2>4
  <2>7. \A i \in 1..n : b[i] = q[pos[s] + i]
    BY <2>2, <2>6
  <2> QED
    BY <2>4, <2>5, <2>7 DEF q
<1>7. Len(b) = n /\ DOMAIN b = 1..n
  BY <1>6, LenProperties
<1>8. \A i \in 1..n : pos[s] + i \in DOMAIN TaskSeq[s] /\ b[i] = TaskSeq[s][pos[s] + i]
  <2> TAKE i \in 1..n
  <2>1. pos[s] + i \in (pos[s] + 1)..(pos[s] + n)
    BY <1>1
  <2> QED
    BY <1>3, <1>6, <2>1
<1>9. lq' = [lq EXCEPT ![w] = b]
  BY DEF PullsBatch
<1>10. b \in Seq(Task)
  BY <1>6
<1> HIDE DEF b
<1>11. lq'[w] = b /\ lq' \in [Workers -> Seq(Task)] /\ \A v \in Workers : v # w => lq'[v] = lq[v]
  BY <1>9, <1>10 DEF TypeOK
<1> QED
  BY <1>7, <1>8, <1>11

(* steal_task takes the last task of a queue into an empty one.            *)
LEMMA AfterTheft ==
    ASSUME TypeOK, NEW w \in Workers, NEW v \in Workers, Steals(w, v)
    PROVE  /\ lq' \in [Workers -> Seq(Task)]
           /\ v # w
           /\ \A u \in Workers : u # w /\ u # v => lq'[u] = lq[u]
           /\ Len(lq[v]) \in Nat \ {0} /\ DOMAIN lq[v] = 1..Len(lq[v])
           /\ DOMAIN lq'[v] = 1..(Len(lq[v]) - 1)
           /\ \A i \in 1..(Len(lq[v]) - 1) : lq'[v][i] = lq[v][i]
           /\ DOMAIN lq'[w] = {1} /\ lq'[w][1] = lq[v][Len(lq[v])]
<1> DEFINE q == lq[v]
           f == Front(q)
           l == <<Last(q)>>
<1>1. q \in Seq(Task) /\ q # <<>>
  BY DEF TypeOK, Steals
<1>2. Len(q) \in Nat \ {0} /\ DOMAIN q = 1..Len(q)
  BY <1>1, LenProperties, EmptySeq
<1>3. f \in Seq(Task) /\ Len(f) = Len(q) - 1 /\ \A i \in 1..(Len(q) - 1) : f[i] = q[i]
  <2>1. \A i \in 1..(Len(q) - 1) : q[i] \in Task
    BY <1>1, <1>2, ElementOfSeq
  <2>2. Len(q) - 1 \in Int /\ 1 \in Int
    BY <1>2
  <2>3. /\ f \in Seq(Task)
        /\ Len(f) = IF 1 <= Len(q) - 1 THEN Len(q) - 1 - 1 + 1 ELSE 0
        /\ \A i \in 1..(Len(q) - 1 - 1 + 1) : f[i] = q[1 + i - 1]
    BY <2>1, <2>2, SubSeqProperties DEF Front
  <2>4. \A i \in 1..(Len(q) - 1) : i \in 1..(Len(q) - 1 - 1 + 1) /\ 1 + i - 1 = i
    BY <1>2
  <2>5. \A i \in 1..(Len(q) - 1) : f[i] = q[i]
    BY <2>3, <2>4
  <2>6. Len(f) = Len(q) - 1
    BY <1>2, <2>3
  <2> QED
    BY <2>3, <2>5, <2>6
<1>4. DOMAIN f = 1..(Len(q) - 1)
  BY <1>3, LenProperties
<1>5. Last(q) \in Task /\ Last(q) = q[Len(q)]
  BY <1>1, <1>2, ElementOfSeq DEF Last
<1>6. l \in Seq(Task) /\ DOMAIN l = {1} /\ l[1] = q[Len(q)]
  <2> DEFINE e == Last(q)
  <2> HIDE DEF e
  <2>1. <<e>> \in Seq(Task) /\ Len(<<e>>) = 1 /\ <<e>>[1] = e
    BY <1>5 DEF e
  <2>2. DOMAIN <<e>> = 1..1
    BY <2>1, LenProperties
  <2> QED
    BY <1>5, <2>1, <2>2 DEF e
<1>7. lq' = [lq EXCEPT ![v] = f, ![w] = l] /\ v # w
  BY DEF Steals
<1> HIDE DEF f, l
<1>8. lq'[v] = f /\ lq'[w] = l /\ lq' \in [Workers -> Seq(Task)]
  BY <1>3, <1>6, <1>7 DEF TypeOK
<1>9. \A u \in Workers : u # w /\ u # v => lq'[u] = lq[u]
  BY <1>7 DEF TypeOK
<1> QED
  BY <1>2, <1>3, <1>4, <1>6, <1>7, <1>8, <1>9

(* The front of the queue is popped.                                       *)
LEMMA AfterStart ==
    ASSUME TypeOK, NEW w \in Workers, lq[w] # <<>>, lq' = [lq EXCEPT ![w] = Tail(@)]
    PROVE  /\ lq' \in [Workers -> Seq(Task)]
           /\ \A u \in Workers : u # w => lq'[u] = lq[u]
           /\ Len(lq[w]) \in Nat \ {0} /\ DOMAIN lq[w] = 1..Len(lq[w])
           /\ DOMAIN lq'[w] = 1..(Len(lq[w]) - 1)
           /\ \A i \in 1..(Len(lq[w]) - 1) : lq'[w][i] = lq[w][i + 1]
           /\ Head(lq[w]) = lq[w][1] /\ Head(lq[w]) \in Task
<1> DEFINE q == lq[w]
           r == Tail(q)
<1>1. q \in Seq(Task) /\ q # <<>>
  BY DEF TypeOK
<1>2. Len(q) \in Nat \ {0} /\ DOMAIN q = 1..Len(q)
  BY <1>1, LenProperties, EmptySeq
<1>3. r \in Seq(Task) /\ Len(r) = Len(q) - 1 /\ (\A i \in 1..Len(r) : r[i] = q[i + 1])
      /\ Head(q) \in Task
  BY <1>1, HeadTailProperties
<1>4. DOMAIN r = 1..(Len(q) - 1)
  BY <1>3, LenProperties
<1>5. lq' = [lq EXCEPT ![w] = r]
  OBVIOUS
<1>6. Head(q) = q[1]
  BY <1>1, <1>2
<1> HIDE DEF r
<1> QED
  BY <1>2, <1>3, <1>4, <1>5, <1>6 DEF TypeOK

(* A task is in its source and in no other. *)
LEMMA SourceOfTask ==
    ASSUME NEW s \in Source, NEW t \in InSource(s)
    PROVE  SourceOf(t) = s /\ t \in Task /\ t # NoTask
<1>1. \A r \in Source : t \in InSource(r) => r = s
  BY OnceAssumption DEF InSource
<1>2. SourceOf(t) = s
  BY <1>1 DEF SourceOf
<1>3. TaskSeq[s] \in Seq(Task) /\ \E i \in DOMAIN TaskSeq[s] : t = TaskSeq[s][i]
  BY ProgramAssumption DEF InSource
<1>4. t \in Task
  BY <1>3, LenProperties, ElementOfSeq
<1> QED
  BY <1>2, <1>4, ProgramAssumption

(* A task taken from a source is a task of it.                             *)
LEMMA TakenInSource ==
    ASSUME TypeOK, PosInv, NEW s \in Source
    PROVE  TakenOf(s) \subseteq InSource(s)
<1>1. pos[s] \in Nat /\ pos[s] <= Len(TaskSeq[s]) /\ TaskSeq[s] \in Seq(Task)
  BY ProgramAssumption DEF TypeOK, PosInv
<1>2. Len(TaskSeq[s]) \in Nat /\ DOMAIN TaskSeq[s] = 1..Len(TaskSeq[s])
  BY <1>1, LenProperties
<1>3. \A i \in 1..pos[s] : i \in DOMAIN TaskSeq[s]
  BY <1>1, <1>2
<1> QED
  BY <1>3 DEF TakenOf, InSource

(* The task in a worker's hands belongs to an open source and calls        *)
(* another one.                                                            *)
LEMMA Mine ==
    ASSUME TypeOK, TaskInv, PosInv, HeldInv, NEW w \in Workers, pc[w] \in InTaskPcs
    PROVE  /\ cur[w] \in Task /\ SourceOf(cur[w]) \in Source
           /\ cur[w] \in InSource(SourceOf(cur[w])) /\ sst[SourceOf(cur[w])] = "open"
           /\ Nested[cur[w]] \in Source \cup {NoSource}
           /\ Nested[cur[w]] # NoSource => Nested[cur[w]] \in Source /\ Nested[cur[w]] # SourceOf(cur[w])
<1>1. PICK s \in Source : sst[s] = "open" /\ cur[w] \in TakenOf(s)
  BY DEF HeldInv, OpenTask, TaskInv
<1>2. cur[w] \in InSource(s)
  BY <1>1, TakenInSource
<1>3. SourceOf(cur[w]) = s /\ cur[w] \in Task
  BY <1>2, SourceOfTask
<1>4. Nested[cur[w]] \in Source \cup {NoSource}
  BY <1>3, ProgramAssumption
<1>5. PICK depth \in [Source -> 0..Cardinality(Source)] :
          \A r \in Source : \A t \in InSource(r) :
              Nested[t] # NoSource => depth[r] < depth[Nested[t]]
  BY NestingAssumption
<1>6. Nested[cur[w]] # s
  <2> SUFFICES ASSUME Nested[cur[w]] = s PROVE FALSE
    OBVIOUS
  <2>1. s # NoSource
    BY ProgramAssumption
  <2>2. depth[s] < depth[s]
    BY <1>2, <1>5, <2>1
  <2>3. depth[s] \in 0..Cardinality(Source) /\ Cardinality(Source) \in Nat
    BY FiniteAssumption, FS_CardinalityType
  <2> QED
    BY <2>2, <2>3
<1> QED
  BY <1>1, <1>2, <1>3, <1>4, <1>6

(* activate_idle_thread moves one idle worker to the running ones and sets *)
(* its flag.                                                               *)
LEMMA IdleActivated ==
    ASSUME TypeOK, activate_idle_thread
    PROVE  \E u \in idle :
        /\ u \in Workers /\ idle' = idle \ {u} /\ running' = running \cup {u}
        /\ state' = [state EXCEPT ![u] = "running"]
        /\ sig' = [sig EXCEPT ![u] = TRUE] /\ UNCHANGED <<waitingcpu, cpu>>
        /\ idle' \subseteq Workers /\ running' \subseteq Workers
        /\ state' \in [Workers -> {"idle", "running"}] /\ sig' \in [Workers -> BOOLEAN]
<1>1. PICK u \in idle :
        /\ idle' = idle \ {u} /\ running' = running \cup {u}
        /\ state' = [state EXCEPT ![u] = "running"]
        /\ sig' = [sig EXCEPT ![u] = TRUE] /\ UNCHANGED <<waitingcpu, cpu>>
  BY DEF activate_idle_thread
<1>2. u \in Workers
  BY DEF TypeOK
<1>3. /\ idle' \subseteq Workers /\ running' \subseteq Workers
      /\ state' \in [Workers -> {"idle", "running"}] /\ sig' \in [Workers -> BOOLEAN]
  BY <1>1, <1>2 DEF TypeOK
<1> QED
  BY <1>1, <1>2, <1>3

(* activate_waiting_thread moves one worker that waits for a CPU likewise. *)
LEMMA WaiterActivated ==
    ASSUME TypeOK, activate_waiting_thread
    PROVE  \E u \in waitingcpu :
        /\ u \in Workers /\ waitingcpu' = waitingcpu \ {u} /\ running' = running \cup {u}
        /\ state' = [state EXCEPT ![u] = "running"]
        /\ cpu' = [cpu EXCEPT ![u] = TRUE] /\ UNCHANGED <<idle, sig>>
        /\ waitingcpu' \subseteq Workers /\ running' \subseteq Workers
        /\ state' \in [Workers -> {"idle", "running"}] /\ cpu' \in [Workers -> BOOLEAN]
<1>1. PICK u \in waitingcpu :
        /\ waitingcpu' = waitingcpu \ {u} /\ running' = running \cup {u}
        /\ state' = [state EXCEPT ![u] = "running"]
        /\ cpu' = [cpu EXCEPT ![u] = TRUE] /\ UNCHANGED <<idle, sig>>
  BY DEF activate_waiting_thread
<1>2. u \in Workers
  BY DEF TypeOK
<1>3. /\ waitingcpu' \subseteq Workers /\ running' \subseteq Workers
      /\ state' \in [Workers -> {"idle", "running"}] /\ cpu' \in [Workers -> BOOLEAN]
  BY <1>1, <1>2 DEF TypeOK
<1> QED
  BY <1>1, <1>2, <1>3

(* The lists after an activation, if there was one; everything else about  *)
(* the lists that a step may leave as it was.                              *)
Same == UNCHANGED <<idle, running, waitingcpu, state, sig, cpu, nrunning>>
WakesIdle == /\ nrunning < NCpus /\ nrunning' = nrunning + 1
             /\ \E u \in idle : /\ u \in Workers /\ idle' = idle \ {u} /\ running' = running \cup {u}
                                /\ state' = [state EXCEPT ![u] = "running"]
                                /\ sig' = [sig EXCEPT ![u] = TRUE] /\ UNCHANGED <<waitingcpu, cpu>>
WakesWaiter == /\ nrunning' = nrunning + 1
               /\ \E u \in waitingcpu : /\ u \in Workers /\ waitingcpu' = waitingcpu \ {u}
                                        /\ running' = running \cup {u}
                                        /\ state' = [state EXCEPT ![u] = "running"]
                                        /\ cpu' = [cpu EXCEPT ![u] = TRUE] /\ UNCHANGED <<idle, sig>>
ListTypes == /\ idle' \subseteq Workers /\ running' \subseteq Workers /\ waitingcpu' \subseteq Workers
             /\ state' \in [Workers -> {"idle", "running"}]
             /\ sig' \in [Workers -> BOOLEAN] /\ cpu' \in [Workers -> BOOLEAN]

(* SpawnMore wakes an idle worker or changes nothing.                      *)
LEMMA Spawned ==
    ASSUME TypeOK, NEW w \in Workers, SpawnMore(w)
    PROVE  ListTypes /\ (Same \/ WakesIdle)
<1>1. CASE activate_idle_thread /\ nrunning' = nrunning + 1 /\ FreeCpu
  BY <1>1, IdleActivated DEF WakesIdle, ListTypes, FreeCpu, TypeOK
<1>2. CASE UNCHANGED <<idle, running, waitingcpu, state, sig, cpu, nrunning>>
  BY <1>2 DEF Same, ListTypes, TypeOK
<1> QED
  BY <1>1, <1>2 DEF SpawnMore

(* The last section of do_release_cpu prefers a worker that waits for a    *)
(* CPU.                                                                    *)
LEMMA Activated ==
    ASSUME TypeOK, NEW th \in Threads, ReleaseActivate(th)
    PROVE  /\ ListTypes
           /\ \/ Same /\ (nrunning < NCpus => waitingcpu = {})
              \/ WakesIdle /\ waitingcpu = {}
              \/ WakesWaiter /\ nrunning < NCpus
<1>1. CASE FreeCpu /\ SomeoneWaits /\ activate_waiting_thread /\ nrunning' = nrunning + 1
  BY <1>1, WaiterActivated DEF WakesWaiter, ListTypes, FreeCpu, TypeOK
<1>2. CASE FreeCpu /\ ~SomeoneWaits /\ activate_idle_thread /\ nrunning' = nrunning + 1
  BY <1>2, IdleActivated DEF WakesIdle, ListTypes, FreeCpu, TypeOK, SomeoneWaits
<1>3. CASE ~(FreeCpu /\ SomeoneWaits) /\ UNCHANGED <<idle, running, waitingcpu, state, sig, cpu, nrunning>>
  BY <1>3 DEF Same, ListTypes, FreeCpu, TypeOK, SomeoneWaits
<1> QED
  BY <1>1, <1>2, <1>3 DEF ReleaseActivate

(* remove_child takes one occurrence out. *)
LEMMA AfterRemoval ==
    ASSUME NEW q \in Seq(Source), NEW e
    PROVE  /\ Without(q, e) \in Seq(Source)
           /\ (\A i, j \in DOMAIN q : q[i] = q[j] => i = j) =>
                /\ \A i \in DOMAIN Without(q, e) :
                      \E j \in DOMAIN q : q[j] = Without(q, e)[i] /\ q[j] # e
                /\ \A j \in DOMAIN q : q[j] # e =>
                      \E i \in DOMAIN Without(q, e) : q[j] = Without(q, e)[i]
                /\ \A i, j \in DOMAIN Without(q, e) :
                      Without(q, e)[i] = Without(q, e)[j] => i = j
<1>1. Len(q) \in Nat /\ DOMAIN q = 1..Len(q) /\ \A i \in 1..Len(q) : q[i] \in Source
  BY LenProperties, ElementOfSeq
<1>2. CASE ~ \E i \in DOMAIN q : q[i] = e
  BY <1>2 DEF Without
<1>3. CASE \E i \in DOMAIN q : q[i] = e
  <2> DEFINE S == {i \in DOMAIN q : q[i] = e}
             k == CHOOSE i \in DOMAIN q : q[i] = e /\ \A j \in 1..(i - 1) : q[j] # e
             a == SubSeq(q, 1, k - 1)
             b == SubSeq(q, k + 1, Len(q))
             r == Without(q, e)
  <2>1. S \in SUBSET Nat /\ S # {}
    BY <1>1, <1>3
  <2>2. PICK m \in S : \A n \in S : m <= n
    BY <2>1, MinOfNaturals
  <2>3. \A j \in 1..(m - 1) : q[j] # e
    <3> SUFFICES ASSUME NEW j \in 1..(m - 1), q[j] = e PROVE FALSE
      OBVIOUS
    <3>1. j \in DOMAIN q /\ ~(m <= j)
      BY <1>1
    <3> QED
      BY <2>2, <3>1
  <2>4. k \in DOMAIN q /\ q[k] = e
    BY <2>2, <2>3
  <2>5. k \in 1..Len(q) /\ k - 1 \in Int /\ k + 1 \in Int
    <3> HIDE DEF k, S
    <3>1. k \in 1..Len(q)
      BY <1>1, <2>4
    <3> QED
      BY <1>1, <3>1
  <2>6. r = a \o b
    BY <1>3 DEF Without, RemoveAt
  <2> HIDE DEF k
  <2>7. a \in Seq(Source) /\ Len(a) = k - 1 /\ \A i \in 1..(k - 1) : a[i] = q[i]
    <3>1. \A i \in 1..(k - 1) : q[i] \in Source
      BY <1>1, <2>5
    <3>2. /\ a \in Seq(Source)
          /\ Len(a) = IF 1 <= k - 1 THEN k - 1 - 1 + 1 ELSE 0
          /\ \A i \in 1..(k - 1 - 1 + 1) : a[i] = q[1 + i - 1]
      BY <2>5, <3>1, SubSeqProperties
    <3>3. Len(a) = k - 1
      <4>1. k \in Nat \ {0}
        BY <1>1, <2>5
      <4>a. Len(a) = IF 1 <= k - 1 THEN k - 1 - 1 + 1 ELSE 0
        BY <3>2
      <4>2. CASE k = 1
        BY <4>a, <4>2
      <4>3. CASE k # 1
        <5>1. 1 <= k - 1 /\ k - 1 - 1 + 1 = k - 1
          BY <4>1, <4>3
        <5> QED
          BY <4>a, <5>1
      <4> QED
        BY <4>2, <4>3
    <3>4. ASSUME NEW i \in 1..(k - 1) PROVE a[i] = q[i]
      <4>1. i \in 1..(k - 1 - 1 + 1) /\ 1 + i - 1 = i
        BY <1>1, <2>5
      <4> QED
        BY <3>2, <4>1
    <3> QED
      BY <3>2, <3>3, <3>4
  <2>8. b \in Seq(Source) /\ Len(b) = Len(q) - k /\ \A i \in 1..(Len(q) - k) : b[i] = q[k + i]
    <3>1. \A i \in (k + 1)..Len(q) : q[i] \in Source
      BY <1>1, <2>5
    <3>2. /\ b \in Seq(Source)
          /\ Len(b) = IF k + 1 <= Len(q) THEN Len(q) - (k + 1) + 1 ELSE 0
          /\ \A i \in 1..(Len(q) - (k + 1) + 1) : b[i] = q[(k + 1) + i - 1]
      BY <1>1, <2>5, <3>1, SubSeqProperties
    <3>3. Len(b) = Len(q) - k
      <4>1. Len(b) = IF k + 1 <= Len(q) THEN Len(q) - (k + 1) + 1 ELSE 0
        BY <3>2
      <4>2. CASE k = Len(q)
        BY <1>1, <4>1, <4>2
      <4>3. CASE k # Len(q)
        <5> DEFINE len == Len(q)
        <5>a. len \in Nat
          BY <1>1
        <5>b. k \in 1..len
          BY <2>5
        <5>c. k # len
          BY <4>3
        <5>1. len \in Nat /\ k \in Nat /\ k <= len /\ k # len
          BY <5>a, <5>b, <5>c
        <5> HIDE DEF len
        <5>2. k + 1 <= len /\ len - (k + 1) + 1 = len - k
          BY <5>1
        <5> QED
          BY <4>1, <5>2 DEF len
      <4> QED
        BY <4>2, <4>3
    <3>4. ASSUME NEW i \in 1..(Len(q) - k) PROVE b[i] = q[k + i]
      <4>1. i \in 1..(Len(q) - (k + 1) + 1) /\ (k + 1) + i - 1 = k + i
        BY <1>1, <2>5
      <4> QED
        BY <3>2, <4>1
    <3> QED
      BY <3>2, <3>3, <3>4
  <2> HIDE DEF a, b, r
  <2>9. /\ r \in Seq(Source) /\ Len(r) = Len(q) - 1
        /\ \A i \in 1..(k - 1) : r[i] = q[i]
        /\ \A i \in k..(Len(q) - 1) : r[i] = q[i + 1]
    <3>1. /\ a \o b \in Seq(Source)
          /\ Len(a \o b) = Len(a) + Len(b)
          /\ \A i \in 1..(Len(a) + Len(b)) : (a \o b)[i] = IF i <= Len(a) THEN a[i] ELSE b[i - Len(a)]
      BY <2>7, <2>8, ConcatProperties
    <3>2. Len(a) + Len(b) = Len(q) - 1
      BY <1>1, <2>5, <2>7, <2>8
    <3>3. ASSUME NEW i \in 1..(k - 1) PROVE r[i] = q[i]
      <4>1. i \in 1..(Len(q) - 1) /\ i <= k - 1
        BY <1>1, <2>5
      <4> QED
        BY <2>6, <2>7, <3>1, <3>2, <4>1
    <3>4. ASSUME NEW i \in k..(Len(q) - 1) PROVE r[i] = q[i + 1]
      <4>1. i \in 1..(Len(q) - 1) /\ ~(i <= k - 1) /\ i - (k - 1) \in 1..(Len(q) - k)
            /\ k + (i - (k - 1)) = i + 1
        BY <1>1, <2>5
      <4>2. r[i] = b[i - (k - 1)]
        BY <2>6, <2>7, <3>1, <3>2, <4>1
      <4> QED
        BY <2>8, <4>1, <4>2
    <3> QED
      BY <2>6, <3>1, <3>2, <3>3, <3>4
  <2>10. DOMAIN r = 1..(Len(q) - 1)
    BY <2>9, LenProperties
  <2>11. ASSUME \A i, j \in DOMAIN q : q[i] = q[j] => i = j
         PROVE  /\ \A i \in DOMAIN r : \E j \in DOMAIN q : q[j] = r[i] /\ q[j] # e
                /\ \A j \in DOMAIN q : q[j] # e => \E i \in DOMAIN r : q[j] = r[i]
                /\ \A i, j \in DOMAIN r : r[i] = r[j] => i = j
    <3>1. ASSUME NEW i \in DOMAIN r
          PROVE  \E j \in DOMAIN q : q[j] = r[i] /\ j # k /\ (i < k => j = i) /\ (i >= k => j = i + 1)
      <4>1. CASE i < k
        <5>1. i \in 1..(k - 1) /\ i \in DOMAIN q /\ i # k
          BY <1>1, <2>5, <2>10, <4>1
        <5> QED
          BY <2>9, <4>1, <5>1, <2>5, <1>1
      <4>2. CASE i >= k
        <5>1. i \in k..(Len(q) - 1) /\ i + 1 \in DOMAIN q /\ i + 1 # k
          BY <1>1, <2>5, <2>10, <4>2
        <5> QED
          BY <2>9, <4>2, <5>1, <2>5, <1>1
      <4> QED
        BY <1>1, <2>5, <2>10, <4>1, <4>2
    <3>2. ASSUME NEW j \in DOMAIN q, q[j] # e PROVE \E i \in DOMAIN r : q[j] = r[i]
      <4>1. j # k
        BY <2>4, <3>2
      <4>2. CASE j < k
        <5>1. j \in 1..(k - 1) /\ j \in DOMAIN r
          BY <1>1, <2>5, <2>10, <4>2
        <5> QED
          BY <2>9, <5>1
      <4>3. CASE j > k
        <5>1. j - 1 \in k..(Len(q) - 1) /\ j - 1 \in DOMAIN r /\ (j - 1) + 1 = j
          BY <1>1, <2>5, <2>10, <4>3
        <5>2. r[j - 1] = q[j]
          BY <2>9, <5>1
        <5> QED
          BY <5>1, <5>2
      <4> QED
        BY <1>1, <2>5, <4>1, <4>2, <4>3
    <3>3. ASSUME NEW i \in DOMAIN r, NEW j \in DOMAIN r, r[i] = r[j] PROVE i = j
      <4>1. PICK x \in DOMAIN q : q[x] = r[i] /\ (i < k => x = i) /\ (i >= k => x = i + 1)
        BY <3>1
      <4>2. PICK y \in DOMAIN q : q[y] = r[j] /\ (j < k => y = j) /\ (j >= k => y = j + 1)
        BY <3>1
      <4>3. x = y
        BY <2>11, <3>3, <4>1, <4>2
      <4>4. i \in Nat /\ j \in Nat /\ k \in Nat
        BY <1>1, <2>5, <2>10
      <4> QED
        BY <4>1, <4>2, <4>3, <4>4
    <3>4. ASSUME NEW i \in DOMAIN r PROVE \E j \in DOMAIN q : q[j] = r[i] /\ q[j] # e
      BY <2>4, <2>11, <3>1
    <3> QED
      BY <3>2, <3>3, <3>4
  <2> QED
    BY <2>9, <2>11 DEF r
<1> QED
  BY <1>2, <1>3

-----------------------------------------------------------------------------
(* Types *)

Counters == nwaiting \in Nat /\ nrunning \in Nat /\ npending \in [Source -> Nat] /\ srunning \in [Source -> Nat]

(* PullInto changes queues and positions only, and fills no other queue.   *)
LEMMA PullType ==
    ASSUME Inv, NEW w \in Workers, PullInto(w), pc[w] \in {"first", "batch"}
    PROVE  /\ lq' \in [Workers -> Seq(Task)] /\ pos' \in [Source -> Nat]
           /\ UNCHANGED <<sst, srunning, exc, alldone, children>>
           /\ lq[w] = <<>>
           /\ \A v \in Workers : v # w /\ lq'[v] # <<>> => lq[v] # <<>>
           /\ \/ UNCHANGED <<lq, srcVars>>
              \/ \E s \in Source, n \in Nat : PullsBatch(w, s, n)
              \/ \E v \in Workers : Steals(w, v)
<1>1. lq[w] = <<>>
  BY DEF Inv, PoolInv, QueueInv, Working, InTaskPcs, Calling
<1>2. TypeOK /\ MainInv /\ CallInv /\ ChildInv /\ PosInv
  BY DEF Inv, SourceInv
<1>3. \/ UNCHANGED <<lq, srcVars>>
      \/ \E s \in Source, n \in Nat : PullsBatch(w, s, n)
      \/ \E v \in Workers : Steals(w, v)
  BY <1>1, <1>2, Pulled
<1>4. ASSUME UNCHANGED <<lq, srcVars>> PROVE lq' \in [Workers -> Seq(Task)] /\ pos' \in [Source -> Nat]
             /\ UNCHANGED <<sst, srunning, exc, alldone, children>>
             /\ \A v \in Workers : v # w /\ lq'[v] # <<>> => lq[v] # <<>>
  BY <1>2, <1>4 DEF TypeOK, srcVars
<1>5. ASSUME NEW s \in Source, NEW n \in Nat, PullsBatch(w, s, n)
      PROVE  /\ lq' \in [Workers -> Seq(Task)] /\ pos' \in [Source -> Nat]
             /\ UNCHANGED <<sst, srunning, exc, alldone, children>>
             /\ \A v \in Workers : v # w /\ lq'[v] # <<>> => lq[v] # <<>>
  <2>1. lq' \in [Workers -> Seq(Task)] /\ \A v \in Workers : v # w => lq'[v] = lq[v]
    BY <1>2, <1>5, AfterBatch
  <2> QED
    BY <1>2, <1>5, <2>1 DEF TypeOK, PullsBatch
<1>6. ASSUME NEW v \in Workers, Steals(w, v)
      PROVE  /\ lq' \in [Workers -> Seq(Task)] /\ pos' \in [Source -> Nat]
             /\ UNCHANGED <<sst, srunning, exc, alldone, children>>
             /\ \A u \in Workers : u # w /\ lq'[u] # <<>> => lq[u] # <<>>
  <2>1. /\ lq' \in [Workers -> Seq(Task)]
        /\ \A u \in Workers : u # w /\ u # v => lq'[u] = lq[u]
    BY <1>2, <1>6, AfterTheft
  <2> QED
    BY <1>2, <1>6, <2>1 DEF TypeOK, Steals, srcVars
<1> QED
  BY <1>1, <1>3, <1>4, <1>5, <1>6

(* Every step keeps the types.                                             *)
LEMMA TypeStep ==
    ASSUME Inv, Next, Counters'
    PROVE  TypeOK'
<1> USE DEF Counters, TypeOK, Labels, OnCpu, Go, vars, poolVars, lists, srcVars, thrVars, Threads
<1>0. TypeOK
  BY DEF Inv
<1>a. TaskInv /\ PosInv /\ HeldInv
  BY DEF Inv, PoolInv, SourceInv
<1>1. ASSUME NEW w \in Workers, WorkerStarts(w) PROVE TypeOK'
  BY <1>0, <1>1 DEF WorkerStarts
<1>2. ASSUME NEW w \in Workers, LoopIdle(w) PROVE TypeOK'
  BY <1>0, <1>2 DEF LoopIdle
<1>3. ASSUME NEW w \in Workers, SigWake(w) PROVE TypeOK'
  BY <1>0, <1>3 DEF SigWake
<1>4. ASSUME NEW w \in Workers, CheckTerm(w) PROVE TypeOK'
  BY <1>0, <1>4 DEF CheckTerm
<1>5. ASSUME NEW w \in Workers, LoopRunning(w) PROVE TypeOK'
  BY <1>0, <1>5 DEF LoopRunning
<1>6. ASSUME NEW w \in Workers, FirstPull(w) PROVE TypeOK'
  BY <1>0, <1>6, PullType DEF FirstPull
<1>7. ASSUME NEW w \in Workers, FirstSpawn(w) PROVE TypeOK'
  BY <1>0, <1>7, Spawned DEF FirstSpawn, ListTypes
<1>8. ASSUME NEW w \in Workers, StartTask(w) PROVE TypeOK'
  BY <1>0, <1>8, AfterStart DEF StartTask
<1>9. ASSUME NEW w \in Workers, QueueEmpty(w) PROVE TypeOK'
  BY <1>0, <1>9 DEF QueueEmpty
<1>10. ASSUME NEW w \in Workers, BatchPull(w) PROVE TypeOK'
  BY <1>0, <1>10, PullType DEF BatchPull
<1>11. ASSUME NEW w \in Workers, BatchSpawn(w) PROVE TypeOK'
  BY <1>0, <1>11, Spawned DEF BatchSpawn, ListTypes
<1>12. ASSUME NEW w \in Workers, Settle(w) PROVE TypeOK'
  <2>1. idle' \subseteq Workers /\ running' \subseteq Workers /\ state' \in [Workers -> {"idle", "running"}]
    <3>1. CASE lq[w] = <<>>
      <4>1. /\ running' = running \ {w} /\ idle' = idle \cup {w}
            /\ state' = [state EXCEPT ![w] = "idle"]
        BY <1>12, <3>1 DEF Settle
      <4> QED
        BY <1>0, <4>1
    <3>2. CASE lq[w] # <<>>
      BY <1>0, <1>12, <3>2 DEF Settle
    <3> QED
      BY <3>1, <3>2
  <2>2. pc' \in [Threads -> Labels] /\ mtx' \in Workers \cup {NoWorker}
    <3>1. CASE SomeoneWaits
      BY <1>0, <1>12, <3>1 DEF Settle
    <3>2. CASE ~SomeoneWaits
      BY <1>0, <1>12, <3>2 DEF Settle
    <3> QED
      BY <3>1, <3>2
  <2> QED
    BY <1>0, <1>12, <2>1, <2>2 DEF Settle
<1>13. ASSUME NEW w \in Workers, Yield(w) PROVE TypeOK'
  BY <1>0, <1>13 DEF Yield, activate_waiting_thread
<1>14. ASSUME NEW w \in Workers, WorkerExits(w) PROVE TypeOK'
  BY <1>0, <1>14 DEF WorkerExits
<1>15. ASSUME NEW w \in Workers, SubmitNested(w) PROVE TypeOK'
  <2>1. SourceOf(cur[w]) \in Source /\ Nested[cur[w]] \in Source
    BY <1>0, <1>a, <1>15, Mine DEF SubmitNested, InTaskPcs, TaskInv
  <2>2. children' \in [Source -> Seq(Source)]
    <3>1. \A q \in Seq(Source) : Append(q, Nested[cur[w]]) \in Seq(Source)
      BY <2>1, AppendProperties
    <3> QED
      BY <1>0, <1>15, <2>1, <3>1 DEF SubmitNested
  <2> QED
    BY <1>0, <1>15, <2>2 DEF SubmitNested
<1>16. ASSUME NEW w \in Workers, TaskThrows(w) PROVE TypeOK'
  BY <1>0, <1>16 DEF TaskThrows
<1>17. ASSUME NEW w \in Workers, notify_exception(w) PROVE TypeOK'
  BY <1>0, <1>a, <1>17, Mine DEF notify_exception, InTaskPcs
<1>18. ASSUME NEW w \in Workers, notify_finish_task(w) PROVE TypeOK'
  BY <1>0, <1>18 DEF notify_finish_task
<1>19. ASSUME NEW w \in Workers, ReleaseCheck(w) PROVE TypeOK'
  <2>1. CASE idle # {}
    BY <1>0, <1>19, <2>1 DEF ReleaseCheck
  <2>2. CASE idle = {}
    <3>1. PICK u \in Workers : /\ pc' = [pc EXCEPT ![w] = "relwait", ![u] = "born"]
                                /\ child' = [child EXCEPT ![w] = u]
      BY <1>19, <2>2 DEF ReleaseCheck
    <3> QED
      BY <1>0, <1>19, <3>1 DEF ReleaseCheck
  <2> QED
    BY <2>1, <2>2
<1>20. ASSUME NEW w \in Workers, CreatedReady(w) PROVE TypeOK'
  BY <1>0, <1>20 DEF CreatedReady
<1>21. ASSUME NEW w \in Workers, ReleaseMove(w) PROVE TypeOK'
  BY <1>0, <1>21 DEF ReleaseMove
<1>22. ASSUME NEW w \in Workers, ExternalEvent(w) PROVE TypeOK'
  BY <1>0, <1>22 DEF ExternalEvent
<1>23. ASSUME NEW w \in Workers, Acquire(w) PROVE TypeOK'
  <2>1. CASE FreeCpu
    <3>1. AfterAcquire(w) \in Labels
      BY DEF AfterAcquire
    <3>2. /\ waiting' = waiting \ {w} /\ running' = running \cup {w} /\ Go(w, AfterAcquire(w))
          /\ UNCHANGED <<idle, nwaiting, known, state, sig, cpu, tsroot, term, mtx,
                         srcVars, thrVars, waitingcpu>>
      BY <1>23, <2>1 DEF Acquire
    <3> QED
      BY <1>0, <3>1, <3>2
  <2>2. CASE ~FreeCpu
    BY <1>0, <1>23, <2>2 DEF Acquire
  <2> QED
    BY <2>1, <2>2
<1>24. ASSUME NEW w \in Workers, CpuWake(w) PROVE TypeOK'
  BY <1>0, <1>24 DEF CpuWake
<1>25. ASSUME NEW w \in Workers, CpuCheck(w) PROVE TypeOK'
  BY <1>0, <1>25 DEF CpuCheck, AfterAcquire
<1>26. ASSUME NEW w \in Workers, SubmitReturns(w) PROVE TypeOK'
  <2>1. SourceOf(cur[w]) \in Source /\ Nested[cur[w]] \in Source
    BY <1>0, <1>a, <1>26, Mine DEF SubmitReturns, InTaskPcs, Calling, TaskInv
  <2>2. Without(children[SourceOf(cur[w])], Nested[cur[w]]) \in Seq(Source)
    BY <1>0, <2>1, AfterRemoval
  <2>3. children' \in [Source -> Seq(Source)]
    BY <1>0, <1>26, <2>1, <2>2 DEF SubmitReturns
  <2>4. \A s, np, nr, ch : IsAllDone(s, np, nr, ch) \in BOOLEAN
    BY DEF IsAllDone
  <2> HIDE DEF IsAllDone
  <2>5. alldone' \in [Source -> BOOLEAN] /\ sst' \in [Source -> {"new", "open", "returned", "threw"}]
    BY <1>0, <1>26, <2>1, <2>4 DEF SubmitReturns
  <2> QED
    BY <1>0, <1>26, <2>3, <2>5 DEF SubmitReturns
<1>27. ASSUME NEW th \in Threads, ReleaseActivate(th) PROVE TypeOK'
  BY <1>0, <1>27, Activated DEF ReleaseActivate, ListTypes
<1>28. ASSUME NEW th \in Threads, WaitCheck(th) PROVE TypeOK'
  BY <1>0, <1>28 DEF WaitCheck
<1>29. ASSUME NEW th \in Threads, WaitWake(th) PROVE TypeOK'
  BY <1>0, <1>29 DEF WaitWake
<1>30. CASE SubmitRoot
  <2>1. \A i \in DOMAIN Roots : Roots[i] \in Source
    BY ProgramAssumption, LenProperties, ElementOfSeq
  <2> QED
    BY <1>0, <1>30, <2>1 DEF SubmitRoot
<1>31. CASE RootReturns
  BY <1>0, <1>31 DEF RootReturns
<1>32. CASE SetTerm
  BY <1>0, <1>32 DEF SetTerm
<1>33. CASE TerminateNext
  <2>1. CASE known = {}
    BY <1>0, <1>33, <2>1 DEF TerminateNext
  <2>2. CASE known # {}
    <3>1. PICK u \in known : /\ sig' = [sig EXCEPT ![u] = TRUE]
                              /\ cpu' = [cpu EXCEPT ![u] = TRUE]
                              /\ joining' = u /\ Go(Main, "join")
      BY <1>33, <2>2 DEF TerminateNext
    <3> QED
      BY <1>0, <1>33, <3>1 DEF TerminateNext
  <2> QED
    BY <2>1, <2>2
<1>34. CASE Join
  BY <1>0, <1>34 DEF Join
<1>35. CASE Finished
  BY <1>0, <1>35 DEF Finished
<1> QED
  BY <1>1, <1>2, <1>3, <1>4, <1>5, <1>6, <1>7, <1>8, <1>9, <1>10, <1>11, <1>12, <1>13, <1>14, <1>15, <1>16, <1>17, <1>18, <1>19, <1>20, <1>21, <1>22, <1>23, <1>24, <1>25, <1>26, <1>27, <1>28, <1>29, <1>30, <1>31, <1>32, <1>33, <1>34, <1>35 DEF Next, WorkerMain, TaskBody, AnyThread, Client

-----------------------------------------------------------------------------
(* A pool without a source has no task anywhere. *)

(* When the pool has no source, no worker has a task.                      *)
LEMMA Quiet ==
    ASSUME TypeOK, SourceInv, TaskInv, tsroot = NoSource
    PROVE  \A w \in Workers : cur[w] = NoTask /\ lq[w] = <<>>
<1>1. PICK depth \in [Source -> 0..Cardinality(Source)] :
          \A s \in Source : \A t \in InSource(s) :
              Nested[t] # NoSource => depth[s] < depth[Nested[t]]
  BY NestingAssumption
<1>2. depth \in [Source -> Nat]
  BY <1>1, FiniteAssumption, FS_CardinalityType
<1> DEFINE Open == {s \in Source : sst[s] = "open"}
           D == {depth[s] : s \in Open}
<1>3. Open = {}
  <2> SUFFICES ASSUME Open # {} PROVE FALSE
    OBVIOUS
  <2>1. D \in SUBSET Nat /\ D # {}
    BY <1>2
  <2>2. PICK m \in D : \A n \in D : m <= n
    BY <2>1, MinOfNaturals
  <2>3. PICK s \in Open : depth[s] = m
    OBVIOUS
  <2>4. PICK w \in Workers : Calls(w, s)
    BY ProgramAssumption DEF SourceInv, OpenInv
  <2>5. PICK r \in Source : sst[r] = "open" /\ cur[w] \in TakenOf(r)
    BY <2>4 DEF SourceInv, HeldInv, OpenTask, Calls
  <2>6. cur[w] \in InSource(r)
    BY <2>5, TakenInSource DEF SourceInv
  <2>7. depth[r] < depth[s] /\ depth[r] \in D
    BY <1>1, <2>4, <2>5, <2>6, ProgramAssumption DEF Calls
  <2>8. depth[r] \in Nat /\ depth[s] \in Nat /\ depth[s] <= depth[r]
    BY <1>2, <2>2, <2>3, <2>5, <2>7
  <2> QED
    BY <2>7, <2>8
<1>4. \A t : ~ OpenTask(t)
  BY <1>3 DEF OpenTask
<1> SUFFICES ASSUME NEW w \in Workers PROVE cur[w] = NoTask /\ lq[w] = <<>>
  OBVIOUS
<1>5. cur[w] = NoTask /\ DOMAIN lq[w] = {}
  BY <1>4 DEF SourceInv, HeldInv
<1>6. lq[w] \in Seq(Task)
  BY DEF TypeOK
<1>7. Len(lq[w]) = 0
  <2>1. Len(lq[w]) \in Nat /\ 1..Len(lq[w]) = {}
    BY <1>5, <1>6, LenProperties
  <2>2. ~ (1 \in 1..Len(lq[w]))
    BY <2>1
  <2> QED
    BY <2>1, <2>2
<1> QED
  BY <1>5, <1>6, <1>7, EmptySeq

(* The steps with alternatives. *)
Settled(w) ==
    /\ pc[w] = "settle" /\ mtx = w
    /\ \/ pc' = [pc EXCEPT ![w] = "yield"] /\ waitingcpu # {} /\ mtx' = mtx
       \/ pc' = [pc EXCEPT ![w] = "exit"] /\ waitingcpu = {} /\ mtx' = NoWorker /\ term
       \/ pc' = [pc EXCEPT ![w] = "loop"] /\ waitingcpu = {} /\ mtx' = NoWorker
    /\ \/ /\ lq[w] = <<>> /\ running' = running \ {w} /\ idle' = idle \cup {w}
          /\ state' = [state EXCEPT ![w] = "idle"] /\ nrunning' = nrunning - 1
       \/ lq[w] # <<>> /\ UNCHANGED <<running, idle, state, nrunning>>
    /\ UNCHANGED <<waiting, waitingcpu, nwaiting, known, sig, cpu, tsroot, term,
                   srcVars, thrVars>>

(* Settle, without its conditionals.                                       *)
LEMMA SettleCases ==
    ASSUME TypeOK, NEW w \in Workers, Settle(w)
    PROVE  Settled(w)
<1> USE DEF Settled
<1>1. /\ pc[w] = "settle" /\ mtx = w
      /\ UNCHANGED <<waiting, waitingcpu, nwaiting, known, sig, cpu, tsroot, term,
                     srcVars, thrVars>>
  BY DEF Settle
<1>2. CASE SomeoneWaits
  BY <1>1, <1>2 DEF Settle, SomeoneWaits, Go
<1>3. CASE ~SomeoneWaits /\ term
  BY <1>1, <1>3 DEF Settle, SomeoneWaits, Go
<1>4. CASE ~SomeoneWaits /\ ~term
  BY <1>1, <1>4 DEF Settle, SomeoneWaits, Go
<1> QED
  BY <1>2, <1>3, <1>4 DEF TypeOK

Checked(w) ==
    /\ pc[w] = "rel" /\ Unlocked
    /\ \/ pc' = [pc EXCEPT ![w] = "rel2"]
       \/ \E u \in Workers : /\ pc[u] = "unborn" /\ u # w /\ pc'[w] = "relwait" /\ pc'[u] = "born"
                             /\ \A v \in Threads : v # w /\ v # u => pc'[v] = pc[v]
    /\ UNCHANGED <<poolVars, srcVars, lq, cur, first, joining, failed>>

(* ReleaseCheck, without its conditional.                                  *)
LEMMA ReleaseCheckCases ==
    ASSUME TypeOK, NEW w \in Workers, ReleaseCheck(w)
    PROVE  Checked(w)
<1> USE DEF Checked
<1>1. /\ pc[w] = "rel" /\ Unlocked
      /\ UNCHANGED <<poolVars, srcVars, lq, cur, first, joining, failed>>
  BY DEF ReleaseCheck
<1>2. CASE idle # {}
  BY <1>1, <1>2 DEF ReleaseCheck, Go
<1>3. CASE idle = {}
  <2>1. PICK u \in Workers : pc[u] = "unborn" /\ pc' = [pc EXCEPT ![w] = "relwait", ![u] = "born"]
    BY <1>3 DEF ReleaseCheck
  <2>2. u # w
    BY <1>1, <2>1
  <2>3. /\ pc'[w] = "relwait" /\ pc'[u] = "born"
        /\ \A v \in Threads : v # w /\ v # u => pc'[v] = pc[v]
    BY <2>1, <2>2 DEF TypeOK, Threads
  <2> QED
    BY <1>1, <2>1, <2>2, <2>3
<1> QED
  BY <1>2, <1>3

Acquired(w) ==
    /\ pc[w] = "acq" /\ Unlocked /\ waiting' = waiting \ {w}
    /\ \/ /\ nrunning < NCpus /\ running' = running \cup {w} /\ nrunning' = nrunning + 1
          /\ UNCHANGED waitingcpu
          /\ \/ pc' = [pc EXCEPT ![w] = "unsub"] /\ Nested[cur[w]] # NoSource
             \/ pc' = [pc EXCEPT ![w] = "tail"] /\ Nested[cur[w]] = NoSource
       \/ /\ ~(nrunning < NCpus) /\ waitingcpu' = waitingcpu \cup {w}
          /\ UNCHANGED <<running, nrunning>>
          /\ pc' = [pc EXCEPT ![w] = "cpuwait"]
    /\ UNCHANGED <<idle, nwaiting, known, state, sig, cpu, tsroot, term, mtx,
                   srcVars, thrVars>>

(* Acquire, without its conditional.                                       *)
LEMMA AcquireCases ==
    ASSUME TypeOK, NEW w \in Workers, Acquire(w)
    PROVE  Acquired(w)
<1> USE DEF Acquired
<1>1. /\ pc[w] = "acq" /\ Unlocked /\ waiting' = waiting \ {w}
      /\ UNCHANGED <<idle, nwaiting, known, state, sig, cpu, tsroot, term, mtx,
                     srcVars, thrVars>>
  BY DEF Acquire
<1>2. CASE FreeCpu /\ InTask(w)
  BY <1>1, <1>2, ThreadAssumption DEF Acquire, Go, AfterAcquire, InTask, FreeCpu, Threads
<1>3. CASE FreeCpu /\ ~InTask(w)
  BY <1>1, <1>3 DEF Acquire, Go, AfterAcquire, InTask, FreeCpu
<1>4. CASE ~FreeCpu
  BY <1>1, <1>4 DEF Acquire, Go, FreeCpu
<1> QED
  BY <1>2, <1>3, <1>4

Batched(w) ==
    /\ pc[w] = "batch" /\ Unlocked /\ mtx' = w
    /\ \/ waitingcpu = {} /\ PullInto(w) /\ pc' = [pc EXCEPT ![w] = "spawn2"]
       \/ UNCHANGED <<lq, srcVars>> /\ pc' = [pc EXCEPT ![w] = "settle"]
    /\ UNCHANGED <<lists, known, state, sig, cpu, tsroot, term,
                   cur, first, child, joining, failed>>

(* BatchPull, without its conditional.                                     *)
LEMMA BatchPullCases ==
    ASSUME NEW w \in Workers, BatchPull(w)
    PROVE  Batched(w)
  BY DEF Batched, BatchPull, SomeoneWaits, Go

Ended ==
    /\ pc[Main] = "terminate"
    /\ \/ pc' = [pc EXCEPT ![Main] = "finished"] /\ UNCHANGED <<sig, cpu, joining>>
       \/ \E u \in Workers : /\ pc' = [pc EXCEPT ![Main] = "join"]
                             /\ sig' = [sig EXCEPT ![u] = TRUE]
                             /\ cpu' = [cpu EXCEPT ![u] = TRUE]
    /\ UNCHANGED <<lists, known, state, tsroot, term, mtx, srcVars,
                   lq, cur, first, child, failed>>

(* TerminateNext, without its conditional.                                 *)
LEMMA TerminateCases ==
    ASSUME TypeOK, TerminateNext
    PROVE  Ended
<1> USE DEF Ended
<1>1. /\ pc[Main] = "terminate"
      /\ UNCHANGED <<lists, known, state, tsroot, term, mtx, srcVars,
                     lq, cur, first, child, failed>>
  BY DEF TerminateNext
<1>2. CASE known = {}
  BY <1>1, <1>2 DEF TerminateNext, Go
<1>3. CASE known # {}
  <2>1. PICK u \in known : /\ pc' = [pc EXCEPT ![Main] = "join"]
                           /\ sig' = [sig EXCEPT ![u] = TRUE]
                           /\ cpu' = [cpu EXCEPT ![u] = TRUE]
    BY <1>3 DEF TerminateNext, Go
  <2>2. u \in Workers
    BY DEF TypeOK
  <2> QED
    BY <1>1, <2>1, <2>2
<1> QED
  BY <1>2, <1>3

-----------------------------------------------------------------------------
(* The pool: where every worker is in the code and in the lists. *)

(* Workers stay at labels of workers, the client at its own.               *)
LEMMA PcStep ==
    ASSUME Inv, Next
    PROVE  PcInv'
<1> USE DEF Go, vars, poolVars, lists, srcVars, thrVars, Threads, Unlocked, PcInv, WorkerPcs, MainPcs, InTaskPcs, Calling, Locked, Over, TypeOK, InTask
<1>a. TypeOK /\ PcInv
  BY DEF Inv, PoolInv
<1> USE ThreadAssumption
<1>1. ASSUME NEW w \in Workers, WorkerStarts(w) PROVE PcInv'
  BY <1>a, <1>1 DEF WorkerStarts
<1>2. ASSUME NEW w \in Workers, LoopIdle(w) PROVE PcInv'
  BY <1>a, <1>2 DEF LoopIdle
<1>3. ASSUME NEW w \in Workers, SigWake(w) PROVE PcInv'
  BY <1>a, <1>3 DEF SigWake
<1>4. ASSUME NEW w \in Workers, CheckTerm(w) PROVE PcInv'
  BY <1>a, <1>4 DEF CheckTerm
<1>5. ASSUME NEW w \in Workers, LoopRunning(w) PROVE PcInv'
  BY <1>a, <1>5 DEF LoopRunning
<1>6. ASSUME NEW w \in Workers, FirstPull(w) PROVE PcInv'
  BY <1>a, <1>6 DEF FirstPull
<1>7. ASSUME NEW w \in Workers, FirstSpawn(w) PROVE PcInv'
  BY <1>a, <1>7 DEF FirstSpawn
<1>8. ASSUME NEW w \in Workers, StartTask(w) PROVE PcInv'
  BY <1>a, <1>8, AfterStart, ProgramAssumption DEF StartTask
<1>9. ASSUME NEW w \in Workers, QueueEmpty(w) PROVE PcInv'
  BY <1>a, <1>9 DEF QueueEmpty
<1>10. ASSUME NEW w \in Workers, BatchPull(w) PROVE PcInv'
  <2>1. Batched(w)
    BY <1>a, <1>10, BatchPullCases
  <2> QED
    BY <1>a, <2>1 DEF Batched
<1>11. ASSUME NEW w \in Workers, BatchSpawn(w) PROVE PcInv'
  BY <1>a, <1>11 DEF BatchSpawn
<1>12. ASSUME NEW w \in Workers, Settle(w) PROVE PcInv'
  <2>1. Settled(w)
    BY <1>a, <1>12, SettleCases
  <2> QED
    BY <1>a, <2>1 DEF Settled
<1>13. ASSUME NEW w \in Workers, Yield(w) PROVE PcInv'
  BY <1>a, <1>13 DEF Yield
<1>14. ASSUME NEW w \in Workers, WorkerExits(w) PROVE PcInv'
  BY <1>a, <1>14 DEF WorkerExits
<1>15. ASSUME NEW w \in Workers, SubmitNested(w) PROVE PcInv'
  BY <1>a, <1>15 DEF SubmitNested
<1>16. ASSUME NEW w \in Workers, TaskThrows(w) PROVE PcInv'
  BY <1>a, <1>16 DEF TaskThrows
<1>17. ASSUME NEW w \in Workers, notify_exception(w) PROVE PcInv'
  BY <1>a, <1>17 DEF notify_exception
<1>18. ASSUME NEW w \in Workers, notify_finish_task(w) PROVE PcInv'
  BY <1>a, <1>18 DEF notify_finish_task
<1>19. ASSUME NEW w \in Workers, ReleaseCheck(w) PROVE PcInv'
  <2>1. Checked(w)
    BY <1>a, <1>19, ReleaseCheckCases
  <2> QED
    BY <1>a, <2>1 DEF Checked
<1>20. ASSUME NEW w \in Workers, CreatedReady(w) PROVE PcInv'
  BY <1>a, <1>20 DEF CreatedReady
<1>21. ASSUME NEW w \in Workers, ReleaseMove(w) PROVE PcInv'
  BY <1>a, <1>21 DEF ReleaseMove
<1>22. ASSUME NEW w \in Workers, ExternalEvent(w) PROVE PcInv'
  BY <1>a, <1>22 DEF ExternalEvent
<1>23. ASSUME NEW w \in Workers, Acquire(w) PROVE PcInv'
  <2>1. Acquired(w)
    BY <1>a, <1>23, AcquireCases
  <2> QED
    BY <1>a, <2>1 DEF Acquired
<1>24. ASSUME NEW w \in Workers, CpuWake(w) PROVE PcInv'
  BY <1>a, <1>24 DEF CpuWake
<1>25. ASSUME NEW w \in Workers, CpuCheck(w) PROVE PcInv'
  BY <1>a, <1>25 DEF CpuCheck, AfterAcquire
<1>26. ASSUME NEW w \in Workers, SubmitReturns(w) PROVE PcInv'
  BY <1>a, <1>26 DEF SubmitReturns
<1>27. ASSUME NEW th \in Threads, ReleaseActivate(th) PROVE PcInv'
  BY <1>a, <1>27 DEF ReleaseActivate
<1>28. ASSUME NEW th \in Threads, WaitCheck(th) PROVE PcInv'
  BY <1>a, <1>28 DEF WaitCheck
<1>29. ASSUME NEW th \in Threads, WaitWake(th) PROVE PcInv'
  BY <1>a, <1>29 DEF WaitWake
<1>30. ASSUME SubmitRoot PROVE PcInv'
  BY <1>a, <1>30 DEF SubmitRoot
<1>31. ASSUME RootReturns PROVE PcInv'
  BY <1>a, <1>31 DEF RootReturns
<1>32. ASSUME SetTerm PROVE PcInv'
  BY <1>a, <1>32 DEF SetTerm
<1>33. ASSUME TerminateNext PROVE PcInv'
  <2>1. Ended
    BY <1>a, <1>33, TerminateCases
  <2> QED
    BY <1>a, <2>1 DEF Ended
<1>34. ASSUME Join PROVE PcInv'
  BY <1>a, <1>34 DEF Join
<1>35. ASSUME Finished PROVE PcInv'
  BY <1>a, <1>35 DEF Finished
<1> QED
  BY <1>1, <1>2, <1>3, <1>4, <1>5, <1>6, <1>7, <1>8, <1>9, <1>10, <1>11, <1>12, <1>13, <1>14, <1>15, <1>16, <1>17, <1>18, <1>19, <1>20, <1>21, <1>22, <1>23, <1>24, <1>25, <1>26, <1>27, <1>28, <1>29, <1>30, <1>31, <1>32, <1>33, <1>34, <1>35 DEF Next, WorkerMain, TaskBody, AnyThread, Client

(* A worker has a task exactly at the labels of a task.                    *)
LEMMA TaskStep ==
    ASSUME Inv, Next
    PROVE  TaskInv'
<1> USE DEF Go, vars, poolVars, lists, srcVars, thrVars, Threads, Unlocked, TaskInv, TypeOK, InTaskPcs, Calling, InTask
<1>a. TypeOK /\ TaskInv
  BY DEF Inv, PoolInv
<1> USE ThreadAssumption
<1>1. ASSUME NEW w \in Workers, WorkerStarts(w) PROVE TaskInv'
  BY <1>a, <1>1 DEF WorkerStarts
<1>2. ASSUME NEW w \in Workers, LoopIdle(w) PROVE TaskInv'
  BY <1>a, <1>2 DEF LoopIdle
<1>3. ASSUME NEW w \in Workers, SigWake(w) PROVE TaskInv'
  BY <1>a, <1>3 DEF SigWake
<1>4. ASSUME NEW w \in Workers, CheckTerm(w) PROVE TaskInv'
  BY <1>a, <1>4 DEF CheckTerm
<1>5. ASSUME NEW w \in Workers, LoopRunning(w) PROVE TaskInv'
  BY <1>a, <1>5 DEF LoopRunning
<1>6. ASSUME NEW w \in Workers, FirstPull(w) PROVE TaskInv'
  BY <1>a, <1>6 DEF FirstPull
<1>7. ASSUME NEW w \in Workers, FirstSpawn(w) PROVE TaskInv'
  BY <1>a, <1>7 DEF FirstSpawn
<1>8. ASSUME NEW w \in Workers, StartTask(w) PROVE TaskInv'
  BY <1>a, <1>8, AfterStart, ProgramAssumption DEF StartTask
<1>9. ASSUME NEW w \in Workers, QueueEmpty(w) PROVE TaskInv'
  BY <1>a, <1>9 DEF QueueEmpty
<1>10. ASSUME NEW w \in Workers, BatchPull(w) PROVE TaskInv'
  <2>1. Batched(w)
    BY <1>a, <1>10, BatchPullCases
  <2>2. CASE pc' = [pc EXCEPT ![w] = "spawn2"]
    <3>1. pc[w] = "batch" /\ UNCHANGED cur
      BY <2>1 DEF Batched
    <3> QED
      BY <1>a, <2>2, <3>1
  <2>3. CASE pc' = [pc EXCEPT ![w] = "settle"]
    <3>1. pc[w] = "batch" /\ UNCHANGED cur
      BY <2>1 DEF Batched
    <3> QED
      BY <1>a, <2>3, <3>1
  <2> QED
    BY <2>1, <2>2, <2>3 DEF Batched
<1>11. ASSUME NEW w \in Workers, BatchSpawn(w) PROVE TaskInv'
  BY <1>a, <1>11 DEF BatchSpawn
<1>12. ASSUME NEW w \in Workers, Settle(w) PROVE TaskInv'
  <2>1. Settled(w)
    BY <1>a, <1>12, SettleCases
  <2>2. CASE pc' = [pc EXCEPT ![w] = "yield"]
    <3>1. pc[w] = "settle" /\ UNCHANGED cur
      BY <2>1 DEF Settled
    <3> QED
      BY <1>a, <2>2, <3>1
  <2>3. CASE pc' = [pc EXCEPT ![w] = "exit"]
    <3>1. pc[w] = "settle" /\ UNCHANGED cur
      BY <2>1 DEF Settled
    <3> QED
      BY <1>a, <2>3, <3>1
  <2>4. CASE pc' = [pc EXCEPT ![w] = "loop"]
    <3>1. pc[w] = "settle" /\ UNCHANGED cur
      BY <2>1 DEF Settled
    <3> QED
      BY <1>a, <2>4, <3>1
  <2> QED
    BY <2>1, <2>2, <2>3, <2>4 DEF Settled
<1>13. ASSUME NEW w \in Workers, Yield(w) PROVE TaskInv'
  BY <1>a, <1>13 DEF Yield
<1>14. ASSUME NEW w \in Workers, WorkerExits(w) PROVE TaskInv'
  BY <1>a, <1>14 DEF WorkerExits
<1>15. ASSUME NEW w \in Workers, SubmitNested(w) PROVE TaskInv'
  BY <1>a, <1>15 DEF SubmitNested
<1>16. ASSUME NEW w \in Workers, TaskThrows(w) PROVE TaskInv'
  BY <1>a, <1>16 DEF TaskThrows
<1>17. ASSUME NEW w \in Workers, notify_exception(w) PROVE TaskInv'
  BY <1>a, <1>17 DEF notify_exception
<1>18. ASSUME NEW w \in Workers, notify_finish_task(w) PROVE TaskInv'
  BY <1>a, <1>18 DEF notify_finish_task
<1>19. ASSUME NEW w \in Workers, ReleaseCheck(w) PROVE TaskInv'
  <2>1. Checked(w)
    BY <1>a, <1>19, ReleaseCheckCases
  <2>2. CASE pc' = [pc EXCEPT ![w] = "rel2"]
    <3>1. pc[w] = "rel" /\ UNCHANGED cur
      BY <2>1 DEF Checked
    <3> QED
      BY <1>a, <2>2, <3>1
  <2>3. CASE \E u \in Workers : pc[u] = "unborn" /\ u # w /\ pc'[w] = "relwait" /\ pc'[u] = "born" /\ (\A v \in Threads : v # w /\ v # u => pc'[v] = pc[v])
    <3>1. pc[w] = "rel" /\ UNCHANGED cur
      BY <2>1 DEF Checked
    <3> QED
      BY <1>a, <2>3, <3>1
  <2> QED
    BY <2>1, <2>2, <2>3 DEF Checked
<1>20. ASSUME NEW w \in Workers, CreatedReady(w) PROVE TaskInv'
  BY <1>a, <1>20 DEF CreatedReady
<1>21. ASSUME NEW w \in Workers, ReleaseMove(w) PROVE TaskInv'
  BY <1>a, <1>21 DEF ReleaseMove
<1>22. ASSUME NEW w \in Workers, ExternalEvent(w) PROVE TaskInv'
  BY <1>a, <1>22 DEF ExternalEvent
<1>23. ASSUME NEW w \in Workers, Acquire(w) PROVE TaskInv'
  <2>1. Acquired(w)
    BY <1>a, <1>23, AcquireCases
  <2> QED
    BY <1>a, <2>1 DEF Acquired
<1>24. ASSUME NEW w \in Workers, CpuWake(w) PROVE TaskInv'
  BY <1>a, <1>24 DEF CpuWake
<1>25. ASSUME NEW w \in Workers, CpuCheck(w) PROVE TaskInv'
  BY <1>a, <1>25 DEF CpuCheck, AfterAcquire
<1>26. ASSUME NEW w \in Workers, SubmitReturns(w) PROVE TaskInv'
  BY <1>a, <1>26 DEF SubmitReturns
<1>27. ASSUME NEW th \in Threads, ReleaseActivate(th) PROVE TaskInv'
  BY <1>a, <1>27 DEF ReleaseActivate
<1>28. ASSUME NEW th \in Threads, WaitCheck(th) PROVE TaskInv'
  BY <1>a, <1>28 DEF WaitCheck
<1>29. ASSUME NEW th \in Threads, WaitWake(th) PROVE TaskInv'
  BY <1>a, <1>29 DEF WaitWake
<1>30. ASSUME SubmitRoot PROVE TaskInv'
  BY <1>a, <1>30 DEF SubmitRoot
<1>31. ASSUME RootReturns PROVE TaskInv'
  BY <1>a, <1>31 DEF RootReturns
<1>32. ASSUME SetTerm PROVE TaskInv'
  BY <1>a, <1>32 DEF SetTerm
<1>33. ASSUME TerminateNext PROVE TaskInv'
  <2>1. Ended
    BY <1>a, <1>33, TerminateCases
  <2> QED
    BY <1>a, <2>1 DEF Ended
<1>34. ASSUME Join PROVE TaskInv'
  BY <1>a, <1>34 DEF Join
<1>35. ASSUME Finished PROVE TaskInv'
  BY <1>a, <1>35 DEF Finished
<1> QED
  BY <1>1, <1>2, <1>3, <1>4, <1>5, <1>6, <1>7, <1>8, <1>9, <1>10, <1>11, <1>12, <1>13, <1>14, <1>15, <1>16, <1>17, <1>18, <1>19, <1>20, <1>21, <1>22, <1>23, <1>24, <1>25, <1>26, <1>27, <1>28, <1>29, <1>30, <1>31, <1>32, <1>33, <1>34, <1>35 DEF Next, WorkerMain, TaskBody, AnyThread, Client

(* m_mtx is held exactly at the labels between two sections.               *)
LEMMA LockStep ==
    ASSUME Inv, Next
    PROVE  LockInv'
<1> USE DEF Go, vars, poolVars, lists, srcVars, thrVars, Threads, Unlocked, LockInv, TypeOK, Locked
<1>a. TypeOK /\ LockInv
  BY DEF Inv, PoolInv
<1> USE ThreadAssumption
<1>1. ASSUME NEW w \in Workers, WorkerStarts(w) PROVE LockInv'
  BY <1>a, <1>1 DEF WorkerStarts
<1>2. ASSUME NEW w \in Workers, LoopIdle(w) PROVE LockInv'
  BY <1>a, <1>2 DEF LoopIdle
<1>3. ASSUME NEW w \in Workers, SigWake(w) PROVE LockInv'
  BY <1>a, <1>3 DEF SigWake
<1>4. ASSUME NEW w \in Workers, CheckTerm(w) PROVE LockInv'
  BY <1>a, <1>4 DEF CheckTerm
<1>5. ASSUME NEW w \in Workers, LoopRunning(w) PROVE LockInv'
  BY <1>a, <1>5 DEF LoopRunning
<1>6. ASSUME NEW w \in Workers, FirstPull(w) PROVE LockInv'
  BY <1>a, <1>6 DEF FirstPull
<1>7. ASSUME NEW w \in Workers, FirstSpawn(w) PROVE LockInv'
  BY <1>a, <1>7 DEF FirstSpawn
<1>8. ASSUME NEW w \in Workers, StartTask(w) PROVE LockInv'
  BY <1>a, <1>8, AfterStart, ProgramAssumption DEF StartTask
<1>9. ASSUME NEW w \in Workers, QueueEmpty(w) PROVE LockInv'
  BY <1>a, <1>9 DEF QueueEmpty
<1>10. ASSUME NEW w \in Workers, BatchPull(w) PROVE LockInv'
  <2>1. Batched(w)
    BY <1>a, <1>10, BatchPullCases
  <2> QED
    BY <1>a, <2>1 DEF Batched
<1>11. ASSUME NEW w \in Workers, BatchSpawn(w) PROVE LockInv'
  BY <1>a, <1>11 DEF BatchSpawn
<1>12. ASSUME NEW w \in Workers, Settle(w) PROVE LockInv'
  <2>1. Settled(w)
    BY <1>a, <1>12, SettleCases
  <2>2. CASE pc' = [pc EXCEPT ![w] = "yield"] /\ mtx' = mtx
    <3>1. pc[w] = "settle" /\ mtx = w
      BY <2>1 DEF Settled
    <3> QED
      BY <1>a, <2>2, <3>1
  <2>3. CASE pc' = [pc EXCEPT ![w] = "exit"] /\ mtx' = NoWorker
    <3>1. pc[w] = "settle" /\ mtx = w
      BY <2>1 DEF Settled
    <3> QED
      BY <1>a, <2>3, <3>1
  <2>4. CASE pc' = [pc EXCEPT ![w] = "loop"] /\ mtx' = NoWorker
    <3>1. pc[w] = "settle" /\ mtx = w
      BY <2>1 DEF Settled
    <3> QED
      BY <1>a, <2>4, <3>1
  <2> QED
    BY <2>1, <2>2, <2>3, <2>4 DEF Settled
<1>13. ASSUME NEW w \in Workers, Yield(w) PROVE LockInv'
  BY <1>a, <1>13 DEF Yield
<1>14. ASSUME NEW w \in Workers, WorkerExits(w) PROVE LockInv'
  BY <1>a, <1>14 DEF WorkerExits
<1>15. ASSUME NEW w \in Workers, SubmitNested(w) PROVE LockInv'
  BY <1>a, <1>15 DEF SubmitNested
<1>16. ASSUME NEW w \in Workers, TaskThrows(w) PROVE LockInv'
  BY <1>a, <1>16 DEF TaskThrows
<1>17. ASSUME NEW w \in Workers, notify_exception(w) PROVE LockInv'
  BY <1>a, <1>17 DEF notify_exception
<1>18. ASSUME NEW w \in Workers, notify_finish_task(w) PROVE LockInv'
  BY <1>a, <1>18 DEF notify_finish_task
<1>19. ASSUME NEW w \in Workers, ReleaseCheck(w) PROVE LockInv'
  <2>1. Checked(w)
    BY <1>a, <1>19, ReleaseCheckCases
  <2>2. CASE pc' = [pc EXCEPT ![w] = "rel2"]
    <3>1. pc[w] = "rel" /\ UNCHANGED mtx
      BY <2>1 DEF Checked
    <3> QED
      BY <1>a, <2>2, <3>1
  <2>3. CASE \E u \in Workers : pc[u] = "unborn" /\ u # w /\ pc'[w] = "relwait" /\ pc'[u] = "born" /\ (\A v \in Threads : v # w /\ v # u => pc'[v] = pc[v])
    <3>1. pc[w] = "rel" /\ UNCHANGED mtx
      BY <2>1 DEF Checked
    <3> QED
      BY <1>a, <2>3, <3>1
  <2> QED
    BY <2>1, <2>2, <2>3 DEF Checked
<1>20. ASSUME NEW w \in Workers, CreatedReady(w) PROVE LockInv'
  BY <1>a, <1>20 DEF CreatedReady
<1>21. ASSUME NEW w \in Workers, ReleaseMove(w) PROVE LockInv'
  BY <1>a, <1>21 DEF ReleaseMove
<1>22. ASSUME NEW w \in Workers, ExternalEvent(w) PROVE LockInv'
  BY <1>a, <1>22 DEF ExternalEvent
<1>23. ASSUME NEW w \in Workers, Acquire(w) PROVE LockInv'
  <2>1. Acquired(w)
    BY <1>a, <1>23, AcquireCases
  <2> QED
    BY <1>a, <2>1 DEF Acquired
<1>24. ASSUME NEW w \in Workers, CpuWake(w) PROVE LockInv'
  BY <1>a, <1>24 DEF CpuWake
<1>25. ASSUME NEW w \in Workers, CpuCheck(w) PROVE LockInv'
  BY <1>a, <1>25 DEF CpuCheck, AfterAcquire
<1>26. ASSUME NEW w \in Workers, SubmitReturns(w) PROVE LockInv'
  BY <1>a, <1>26 DEF SubmitReturns
<1>27. ASSUME NEW th \in Threads, ReleaseActivate(th) PROVE LockInv'
  BY <1>a, <1>27 DEF ReleaseActivate
<1>28. ASSUME NEW th \in Threads, WaitCheck(th) PROVE LockInv'
  BY <1>a, <1>28 DEF WaitCheck
<1>29. ASSUME NEW th \in Threads, WaitWake(th) PROVE LockInv'
  BY <1>a, <1>29 DEF WaitWake
<1>30. ASSUME SubmitRoot PROVE LockInv'
  BY <1>a, <1>30 DEF SubmitRoot
<1>31. ASSUME RootReturns PROVE LockInv'
  BY <1>a, <1>31 DEF RootReturns
<1>32. ASSUME SetTerm PROVE LockInv'
  BY <1>a, <1>32 DEF SetTerm
<1>33. ASSUME TerminateNext PROVE LockInv'
  <2>1. Ended
    BY <1>a, <1>33, TerminateCases
  <2>2. CASE pc' = [pc EXCEPT ![Main] = "finished"]
    <3>1. pc[Main] = "terminate" /\ UNCHANGED mtx
      BY <2>1 DEF Ended
    <3> QED
      BY <1>a, <2>2, <3>1
  <2>3. CASE pc' = [pc EXCEPT ![Main] = "join"]
    <3>1. pc[Main] = "terminate" /\ UNCHANGED mtx
      BY <2>1 DEF Ended
    <3> QED
      BY <1>a, <2>3, <3>1
  <2> QED
    BY <2>1, <2>2, <2>3 DEF Ended
<1>34. ASSUME Join PROVE LockInv'
  BY <1>a, <1>34 DEF Join
<1>35. ASSUME Finished PROVE LockInv'
  BY <1>a, <1>35 DEF Finished
<1> QED
  BY <1>1, <1>2, <1>3, <1>4, <1>5, <1>6, <1>7, <1>8, <1>9, <1>10, <1>11, <1>12, <1>13, <1>14, <1>15, <1>16, <1>17, <1>18, <1>19, <1>20, <1>21, <1>22, <1>23, <1>24, <1>25, <1>26, <1>27, <1>28, <1>29, <1>30, <1>31, <1>32, <1>33, <1>34, <1>35 DEF Next, WorkerMain, TaskBody, AnyThread, Client

(* No worker gets into two lists.                                          *)
LEMMA OneListStep ==
    ASSUME Inv, Next
    PROVE  OneList'
<1> USE DEF Go, vars, poolVars, lists, srcVars, thrVars, Threads, Unlocked, OneList, ListInv, TypeOK, OnCpu, OffPool
<1>a. TypeOK /\ OneList /\ ListInv
  BY DEF Inv, PoolInv
<1> USE ThreadAssumption
<1>1. ASSUME NEW w \in Workers, WorkerStarts(w) PROVE OneList'
  BY <1>a, <1>1 DEF WorkerStarts
<1>2. ASSUME NEW w \in Workers, LoopIdle(w) PROVE OneList'
  BY <1>a, <1>2 DEF LoopIdle
<1>3. ASSUME NEW w \in Workers, SigWake(w) PROVE OneList'
  BY <1>a, <1>3 DEF SigWake
<1>4. ASSUME NEW w \in Workers, CheckTerm(w) PROVE OneList'
  BY <1>a, <1>4 DEF CheckTerm
<1>5. ASSUME NEW w \in Workers, LoopRunning(w) PROVE OneList'
  BY <1>a, <1>5 DEF LoopRunning
<1>6. ASSUME NEW w \in Workers, FirstPull(w) PROVE OneList'
  BY <1>a, <1>6, PullType DEF FirstPull
<1>7. ASSUME NEW w \in Workers, FirstSpawn(w) PROVE OneList'
  <2>1. Same \/ WakesIdle
    BY <1>a, <1>7, Spawned DEF FirstSpawn
  <2>2. CASE Same
    BY <1>a, <1>7, <2>2 DEF FirstSpawn, Same
  <2>3. CASE WakesIdle
    BY <1>a, <1>7, <2>3 DEF FirstSpawn, WakesIdle
  <2> QED
    BY <2>1, <2>2, <2>3
<1>8. ASSUME NEW w \in Workers, StartTask(w) PROVE OneList'
  BY <1>a, <1>8, AfterStart, ProgramAssumption DEF StartTask
<1>9. ASSUME NEW w \in Workers, QueueEmpty(w) PROVE OneList'
  BY <1>a, <1>9 DEF QueueEmpty
<1>10. ASSUME NEW w \in Workers, BatchPull(w) PROVE OneList'
  <2>1. Batched(w)
    BY <1>a, <1>10, BatchPullCases
  <2> QED
    BY <1>a, <2>1, PullType DEF Batched
<1>11. ASSUME NEW w \in Workers, BatchSpawn(w) PROVE OneList'
  <2>1. Same \/ WakesIdle
    BY <1>a, <1>11, Spawned DEF BatchSpawn
  <2>2. CASE Same
    BY <1>a, <1>11, <2>2 DEF BatchSpawn, Same
  <2>3. CASE WakesIdle
    BY <1>a, <1>11, <2>3 DEF BatchSpawn, WakesIdle
  <2> QED
    BY <2>1, <2>2, <2>3
<1>12. ASSUME NEW w \in Workers, Settle(w) PROVE OneList'
  <2>1. Settled(w)
    BY <1>a, <1>12, SettleCases
  <2> QED
    BY <1>a, <2>1 DEF Settled
<1>13. ASSUME NEW w \in Workers, Yield(w) PROVE OneList'
  BY <1>a, <1>13, WaiterActivated DEF Yield
<1>14. ASSUME NEW w \in Workers, WorkerExits(w) PROVE OneList'
  BY <1>a, <1>14 DEF WorkerExits
<1>15. ASSUME NEW w \in Workers, SubmitNested(w) PROVE OneList'
  BY <1>a, <1>15 DEF SubmitNested
<1>16. ASSUME NEW w \in Workers, TaskThrows(w) PROVE OneList'
  BY <1>a, <1>16 DEF TaskThrows
<1>17. ASSUME NEW w \in Workers, notify_exception(w) PROVE OneList'
  BY <1>a, <1>17 DEF notify_exception
<1>18. ASSUME NEW w \in Workers, notify_finish_task(w) PROVE OneList'
  BY <1>a, <1>18 DEF notify_finish_task
<1>19. ASSUME NEW w \in Workers, ReleaseCheck(w) PROVE OneList'
  <2>1. Checked(w)
    BY <1>a, <1>19, ReleaseCheckCases
  <2> QED
    BY <1>a, <2>1 DEF Checked
<1>20. ASSUME NEW w \in Workers, CreatedReady(w) PROVE OneList'
  BY <1>a, <1>20 DEF CreatedReady
<1>21. ASSUME NEW w \in Workers, ReleaseMove(w) PROVE OneList'
  BY <1>a, <1>21 DEF ReleaseMove
<1>22. ASSUME NEW w \in Workers, ExternalEvent(w) PROVE OneList'
  BY <1>a, <1>22 DEF ExternalEvent
<1>23. ASSUME NEW w \in Workers, Acquire(w) PROVE OneList'
  <2>1. Acquired(w)
    BY <1>a, <1>23, AcquireCases
  <2> QED
    BY <1>a, <2>1 DEF Acquired
<1>24. ASSUME NEW w \in Workers, CpuWake(w) PROVE OneList'
  BY <1>a, <1>24 DEF CpuWake
<1>25. ASSUME NEW w \in Workers, CpuCheck(w) PROVE OneList'
  BY <1>a, <1>25 DEF CpuCheck, AfterAcquire
<1>26. ASSUME NEW w \in Workers, SubmitReturns(w) PROVE OneList'
  BY <1>a, <1>26 DEF SubmitReturns
<1>27. ASSUME NEW th \in Threads, ReleaseActivate(th) PROVE OneList'
  <2>1. (Same /\ (nrunning < NCpus => waitingcpu = {})) \/ (WakesIdle /\ waitingcpu = {}) \/ (WakesWaiter /\ nrunning < NCpus)
    BY <1>a, <1>27, Activated DEF ReleaseActivate
  <2>2. CASE Same /\ (nrunning < NCpus => waitingcpu = {})
    BY <1>a, <1>27, <2>2 DEF ReleaseActivate, Same
  <2>3. CASE WakesIdle /\ waitingcpu = {}
    BY <1>a, <1>27, <2>3 DEF ReleaseActivate, WakesIdle
  <2>4. CASE WakesWaiter /\ nrunning < NCpus
    BY <1>a, <1>27, <2>4 DEF ReleaseActivate, WakesWaiter
  <2> QED
    BY <2>1, <2>2, <2>3, <2>4
<1>28. ASSUME NEW th \in Threads, WaitCheck(th) PROVE OneList'
  BY <1>a, <1>28 DEF WaitCheck
<1>29. ASSUME NEW th \in Threads, WaitWake(th) PROVE OneList'
  BY <1>a, <1>29 DEF WaitWake
<1>30. ASSUME SubmitRoot PROVE OneList'
  BY <1>a, <1>30 DEF SubmitRoot
<1>31. ASSUME RootReturns PROVE OneList'
  BY <1>a, <1>31 DEF RootReturns
<1>32. ASSUME SetTerm PROVE OneList'
  BY <1>a, <1>32 DEF SetTerm
<1>33. ASSUME TerminateNext PROVE OneList'
  <2>1. Ended
    BY <1>a, <1>33, TerminateCases
  <2> QED
    BY <1>a, <2>1 DEF Ended
<1>34. ASSUME Join PROVE OneList'
  BY <1>a, <1>34 DEF Join
<1>35. ASSUME Finished PROVE OneList'
  BY <1>a, <1>35 DEF Finished
<1> QED
  BY <1>1, <1>2, <1>3, <1>4, <1>5, <1>6, <1>7, <1>8, <1>9, <1>10, <1>11, <1>12, <1>13, <1>14, <1>15, <1>16, <1>17, <1>18, <1>19, <1>20, <1>21, <1>22, <1>23, <1>24, <1>25, <1>26, <1>27, <1>28, <1>29, <1>30, <1>31, <1>32, <1>33, <1>34, <1>35 DEF Next, WorkerMain, TaskBody, AnyThread, Client

-----------------------------------------------------------------------------
(* Lists and queues. *)

(* A worker is in the list that its label implies.                         *)
LEMMA ListStep ==
    ASSUME Inv, Next
    PROVE  ListInv'
<1> USE DEF Go, vars, poolVars, lists, srcVars, thrVars, Threads, Unlocked, ListInv, OneList, TypeOK, OnCpu, OffPool
<1>a. TypeOK /\ PcInv /\ TaskInv /\ LockInv /\ OneList /\ ListInv /\ QueueInv /\ MainInv
  BY DEF Inv, PoolInv, SourceInv
<1> USE ThreadAssumption
<1>b. term => \A w \in Workers : pc[w] \notin InTaskPcs /\ lq[w] = <<>>
  BY <1>a, Quiet DEF Inv, SourceInv, MainInv, TaskInv, Over
<1>1. ASSUME NEW w \in Workers, WorkerStarts(w) PROVE ListInv'
  BY <1>a, <1>1 DEF WorkerStarts
<1>2. ASSUME NEW w \in Workers, LoopIdle(w) PROVE ListInv'
  BY <1>a, <1>2 DEF LoopIdle
<1>3. ASSUME NEW w \in Workers, SigWake(w) PROVE ListInv'
  BY <1>a, <1>3 DEF SigWake
<1>4. ASSUME NEW w \in Workers, CheckTerm(w) PROVE ListInv'
  BY <1>a, <1>4, <1>b DEF CheckTerm
<1>5. ASSUME NEW w \in Workers, LoopRunning(w) PROVE ListInv'
  BY <1>a, <1>5 DEF LoopRunning
<1>6. ASSUME NEW w \in Workers, FirstPull(w) PROVE ListInv'
  BY <1>a, <1>6, PullType DEF FirstPull
<1>7. ASSUME NEW w \in Workers, FirstSpawn(w) PROVE ListInv'
  <2>1. Same \/ WakesIdle
    BY <1>a, <1>7, Spawned DEF FirstSpawn
  <2>2. CASE Same
    BY <1>a, <1>7, <2>2 DEF FirstSpawn, Same
  <2>3. CASE WakesIdle
    BY <1>a, <1>7, <2>3 DEF FirstSpawn, WakesIdle
  <2> QED
    BY <2>1, <2>2, <2>3
<1>8. ASSUME NEW w \in Workers, StartTask(w) PROVE ListInv'
  BY <1>a, <1>8, AfterStart, ProgramAssumption DEF StartTask
<1>9. ASSUME NEW w \in Workers, QueueEmpty(w) PROVE ListInv'
  BY <1>a, <1>9 DEF QueueEmpty
<1>10. ASSUME NEW w \in Workers, BatchPull(w) PROVE ListInv'
  <2>1. Batched(w)
    BY <1>a, <1>10, BatchPullCases
  <2> QED
    BY <1>a, <2>1, PullType DEF Batched
<1>11. ASSUME NEW w \in Workers, BatchSpawn(w) PROVE ListInv'
  <2>1. Same \/ WakesIdle
    BY <1>a, <1>11, Spawned DEF BatchSpawn
  <2>2. CASE Same
    BY <1>a, <1>11, <2>2 DEF BatchSpawn, Same
  <2>3. CASE WakesIdle
    BY <1>a, <1>11, <2>3 DEF BatchSpawn, WakesIdle
  <2> QED
    BY <2>1, <2>2, <2>3
<1>12. ASSUME NEW w \in Workers, Settle(w) PROVE ListInv'
  <2>1. Settled(w)
    BY <1>a, <1>12, SettleCases
  <2> QED
    BY <1>a, <2>1, <1>b DEF Settled, InTaskPcs
<1>13. ASSUME NEW w \in Workers, Yield(w) PROVE ListInv'
  BY <1>a, <1>13, WaiterActivated, <1>b DEF Yield
<1>14. ASSUME NEW w \in Workers, WorkerExits(w) PROVE ListInv'
  BY <1>a, <1>14 DEF WorkerExits
<1>15. ASSUME NEW w \in Workers, SubmitNested(w) PROVE ListInv'
  BY <1>a, <1>15 DEF SubmitNested
<1>16. ASSUME NEW w \in Workers, TaskThrows(w) PROVE ListInv'
  BY <1>a, <1>16 DEF TaskThrows
<1>17. ASSUME NEW w \in Workers, notify_exception(w) PROVE ListInv'
  BY <1>a, <1>17 DEF notify_exception
<1>18. ASSUME NEW w \in Workers, notify_finish_task(w) PROVE ListInv'
  BY <1>a, <1>18 DEF notify_finish_task
<1>19. ASSUME NEW w \in Workers, ReleaseCheck(w) PROVE ListInv'
  <2>1. Checked(w)
    BY <1>a, <1>19, ReleaseCheckCases
  <2>2. CASE pc' = [pc EXCEPT ![w] = "rel2"]
    <3>1. pc[w] = "rel" /\ UNCHANGED poolVars
      BY <2>1 DEF Checked
    <3> QED
      BY <1>a, <2>2, <3>1
  <2>3. CASE \E u \in Workers : pc[u] = "unborn" /\ u # w /\ pc'[w] = "relwait" /\ pc'[u] = "born" /\ (\A v \in Threads : v # w /\ v # u => pc'[v] = pc[v])
    <3>1. pc[w] = "rel" /\ UNCHANGED poolVars
      BY <2>1 DEF Checked
    <3> QED
      BY <1>a, <2>3, <3>1
  <2> QED
    BY <2>1, <2>2, <2>3 DEF Checked
<1>20. ASSUME NEW w \in Workers, CreatedReady(w) PROVE ListInv'
  BY <1>a, <1>20 DEF CreatedReady
<1>21. ASSUME NEW w \in Workers, ReleaseMove(w) PROVE ListInv'
  BY <1>a, <1>21 DEF ReleaseMove, InTask
<1>22. ASSUME NEW w \in Workers, ExternalEvent(w) PROVE ListInv'
  BY <1>a, <1>22 DEF ExternalEvent
<1>23. ASSUME NEW w \in Workers, Acquire(w) PROVE ListInv'
  <2>1. Acquired(w)
    BY <1>a, <1>23, AcquireCases
  <2> QED
    BY <1>a, <2>1, <1>b DEF Acquired
<1>24. ASSUME NEW w \in Workers, CpuWake(w) PROVE ListInv'
  BY <1>a, <1>24, <1>b DEF CpuWake, Signalled, InTaskPcs, Calling
<1>25. ASSUME NEW w \in Workers, CpuCheck(w) PROVE ListInv'
  BY <1>a, <1>25, <1>b DEF CpuCheck, AfterAcquire, QueueInv, Working, InTaskPcs, Calling, InTask
<1>26. ASSUME NEW w \in Workers, SubmitReturns(w) PROVE ListInv'
  BY <1>a, <1>26 DEF SubmitReturns
<1>27. ASSUME NEW th \in Threads, ReleaseActivate(th) PROVE ListInv'
  <2>1. (Same /\ (nrunning < NCpus => waitingcpu = {})) \/ (WakesIdle /\ waitingcpu = {}) \/ (WakesWaiter /\ nrunning < NCpus)
    BY <1>a, <1>27, Activated DEF ReleaseActivate
  <2>2. CASE Same /\ (nrunning < NCpus => waitingcpu = {})
    BY <1>a, <1>27, <2>2 DEF ReleaseActivate, Same, InTask
  <2>3. CASE WakesIdle /\ waitingcpu = {}
    BY <1>a, <1>27, <2>3 DEF ReleaseActivate, WakesIdle, InTask
  <2>4. CASE WakesWaiter /\ nrunning < NCpus
    BY <1>a, <1>27, <2>4 DEF ReleaseActivate, WakesWaiter, InTask
  <2> QED
    BY <2>1, <2>2, <2>3, <2>4
<1>28. ASSUME NEW th \in Threads, WaitCheck(th) PROVE ListInv'
  BY <1>a, <1>28 DEF WaitCheck
<1>29. ASSUME NEW th \in Threads, WaitWake(th) PROVE ListInv'
  BY <1>a, <1>29 DEF WaitWake
<1>30. ASSUME SubmitRoot PROVE ListInv'
  BY <1>a, <1>30 DEF SubmitRoot
<1>31. ASSUME RootReturns PROVE ListInv'
  BY <1>a, <1>31 DEF RootReturns
<1>32. ASSUME SetTerm PROVE ListInv'
  BY <1>a, <1>32 DEF SetTerm
<1>33. ASSUME TerminateNext PROVE ListInv'
  <2>1. Ended
    BY <1>a, <1>33, TerminateCases
  <2>2. /\ term /\ term' /\ pc[Main] = "terminate" /\ UNCHANGED <<lists, state>>
        /\ \E l \in {"finished", "join"} : pc' = [pc EXCEPT ![Main] = l]
    BY <1>a, <2>1 DEF Ended, MainInv, Over
  <2>3. \A w \in Workers : pc[w] # "cpuwait"
    BY <1>b, <2>2 DEF InTaskPcs, Calling
  <2>4. \A w \in Workers : pc'[w] = pc[w]
    BY <1>a, <2>2
  <2> QED
    BY <1>a, <2>2, <2>3, <2>4
<1>34. ASSUME Join PROVE ListInv'
  BY <1>a, <1>34 DEF Join
<1>35. ASSUME Finished PROVE ListInv'
  BY <1>a, <1>35 DEF Finished
<1> QED
  BY <1>1, <1>2, <1>3, <1>4, <1>5, <1>6, <1>7, <1>8, <1>9, <1>10, <1>11, <1>12, <1>13, <1>14, <1>15, <1>16, <1>17, <1>18, <1>19, <1>20, <1>21, <1>22, <1>23, <1>24, <1>25, <1>26, <1>27, <1>28, <1>29, <1>30, <1>31, <1>32, <1>33, <1>34, <1>35 DEF Next, WorkerMain, TaskBody, AnyThread, Client

(* Only a working worker has tasks in its queue.                           *)
LEMMA QueueStep ==
    ASSUME Inv, Next
    PROVE  QueueInv'
<1> USE DEF Go, vars, poolVars, lists, srcVars, thrVars, Threads, Unlocked, QueueInv, TypeOK, Working, InTaskPcs, Calling
<1>a. TypeOK /\ PcInv /\ TaskInv /\ LockInv /\ OneList /\ ListInv /\ QueueInv /\ MainInv
  BY DEF Inv, PoolInv, SourceInv
<1> USE ThreadAssumption
<1>b. term => \A w \in Workers : pc[w] \notin InTaskPcs /\ lq[w] = <<>>
  BY <1>a, Quiet DEF Inv, SourceInv, MainInv, TaskInv, Over
<1>1. ASSUME NEW w \in Workers, WorkerStarts(w) PROVE QueueInv'
  BY <1>a, <1>1 DEF WorkerStarts
<1>2. ASSUME NEW w \in Workers, LoopIdle(w) PROVE QueueInv'
  BY <1>a, <1>2 DEF LoopIdle
<1>3. ASSUME NEW w \in Workers, SigWake(w) PROVE QueueInv'
  BY <1>a, <1>3 DEF SigWake
<1>4. ASSUME NEW w \in Workers, CheckTerm(w) PROVE QueueInv'
  BY <1>a, <1>4, <1>b DEF CheckTerm
<1>5. ASSUME NEW w \in Workers, LoopRunning(w) PROVE QueueInv'
  BY <1>a, <1>5 DEF LoopRunning
<1>6. ASSUME NEW w \in Workers, FirstPull(w) PROVE QueueInv'
  <2>1. /\ pc[w] = "first" /\ pc' = [pc EXCEPT ![w] = "spawn1"] /\ PullInto(w)
        /\ first' = [first EXCEPT ![w] = FALSE] /\ UNCHANGED <<waitingcpu, state>>
    BY <1>6 DEF FirstPull
  <2>2. \A v \in Workers : v # w /\ lq'[v] # <<>> => lq[v] # <<>>
    BY <2>1, PullType
  <2> QED
    BY <1>a, <2>1, <2>2
<1>7. ASSUME NEW w \in Workers, FirstSpawn(w) PROVE QueueInv'
  <2>1. Same \/ WakesIdle
    BY <1>a, <1>7, Spawned DEF FirstSpawn
  <2>2. CASE Same
    BY <1>a, <1>7, <2>2 DEF FirstSpawn, Same
  <2>3. CASE WakesIdle
    BY <1>a, <1>7, <2>3 DEF FirstSpawn, WakesIdle
  <2> QED
    BY <2>1, <2>2, <2>3
<1>8. ASSUME NEW w \in Workers, StartTask(w) PROVE QueueInv'
  BY <1>a, <1>8, AfterStart, ProgramAssumption DEF StartTask
<1>9. ASSUME NEW w \in Workers, QueueEmpty(w) PROVE QueueInv'
  BY <1>a, <1>9 DEF QueueEmpty
<1>10. ASSUME NEW w \in Workers, BatchPull(w) PROVE QueueInv'
  <2>1. Batched(w)
    BY <1>a, <1>10, BatchPullCases
  <2>2. CASE waitingcpu = {} /\ PullInto(w) /\ pc' = [pc EXCEPT ![w] = "spawn2"]
    <3>1. pc[w] = "batch" /\ UNCHANGED <<waitingcpu, state, first>>
      BY <2>1 DEF Batched
    <3>2. \A v \in Workers : v # w /\ lq'[v] # <<>> => lq[v] # <<>>
      BY <2>2, <3>1, PullType
    <3> QED
      BY <1>a, <2>2, <3>1, <3>2
  <2>3. CASE UNCHANGED <<lq, srcVars>> /\ pc' = [pc EXCEPT ![w] = "settle"]
    <3>1. pc[w] = "batch" /\ UNCHANGED <<waitingcpu, state, first>>
      BY <2>1 DEF Batched
    <3> QED
      BY <1>a, <2>3, <3>1
  <2> QED
    BY <2>1, <2>2, <2>3 DEF Batched
<1>11. ASSUME NEW w \in Workers, BatchSpawn(w) PROVE QueueInv'
  <2>1. Same \/ WakesIdle
    BY <1>a, <1>11, Spawned DEF BatchSpawn
  <2>2. CASE Same
    BY <1>a, <1>11, <2>2 DEF BatchSpawn, Same
  <2>3. CASE WakesIdle
    BY <1>a, <1>11, <2>3 DEF BatchSpawn, WakesIdle
  <2> QED
    BY <2>1, <2>2, <2>3
<1>12. ASSUME NEW w \in Workers, Settle(w) PROVE QueueInv'
  <2>1. Settled(w)
    BY <1>a, <1>12, SettleCases
  <2>2. pc[w] = "settle" /\ UNCHANGED <<waitingcpu, lq, first>>
    BY <2>1 DEF Settled
  <2>3. CASE lq[w] = <<>> /\ state' = [state EXCEPT ![w] = "idle"]
    <3>1. \E l \in {"yield", "exit", "loop"} : pc' = [pc EXCEPT ![w] = l]
      BY <2>1 DEF Settled
    <3> QED
      BY <1>a, <2>2, <2>3, <3>1
  <2>4. CASE lq[w] # <<>> /\ UNCHANGED state
    <3>1. pc' = [pc EXCEPT ![w] = "loop"]
      BY <1>a, <1>b, <2>1, <2>4 DEF Settled
    <3> QED
      BY <1>a, <2>2, <2>4, <3>1
  <2> QED
    BY <2>1, <2>3, <2>4 DEF Settled
<1>13. ASSUME NEW w \in Workers, Yield(w) PROVE QueueInv'
  BY <1>a, <1>13, WaiterActivated, <1>b DEF Yield
<1>14. ASSUME NEW w \in Workers, WorkerExits(w) PROVE QueueInv'
  BY <1>a, <1>14 DEF WorkerExits
<1>15. ASSUME NEW w \in Workers, SubmitNested(w) PROVE QueueInv'
  BY <1>a, <1>15 DEF SubmitNested
<1>16. ASSUME NEW w \in Workers, TaskThrows(w) PROVE QueueInv'
  BY <1>a, <1>16 DEF TaskThrows
<1>17. ASSUME NEW w \in Workers, notify_exception(w) PROVE QueueInv'
  BY <1>a, <1>17 DEF notify_exception
<1>18. ASSUME NEW w \in Workers, notify_finish_task(w) PROVE QueueInv'
  BY <1>a, <1>18 DEF notify_finish_task
<1>19. ASSUME NEW w \in Workers, ReleaseCheck(w) PROVE QueueInv'
  <2>1. Checked(w)
    BY <1>a, <1>19, ReleaseCheckCases
  <2>2. CASE pc' = [pc EXCEPT ![w] = "rel2"]
    <3>1. pc[w] = "rel" /\ UNCHANGED <<waitingcpu, state, first, lq>>
      BY <2>1 DEF Checked
    <3> QED
      BY <1>a, <2>2, <3>1
  <2>3. CASE \E u \in Workers : pc[u] = "unborn" /\ u # w /\ pc'[w] = "relwait" /\ pc'[u] = "born" /\ (\A v \in Threads : v # w /\ v # u => pc'[v] = pc[v])
    <3>1. pc[w] = "rel" /\ UNCHANGED <<waitingcpu, state, first, lq>>
      BY <2>1 DEF Checked
    <3> QED
      BY <1>a, <2>3, <3>1
  <2> QED
    BY <2>1, <2>2, <2>3 DEF Checked
<1>20. ASSUME NEW w \in Workers, CreatedReady(w) PROVE QueueInv'
  BY <1>a, <1>20 DEF CreatedReady
<1>21. ASSUME NEW w \in Workers, ReleaseMove(w) PROVE QueueInv'
  BY <1>a, <1>21 DEF ReleaseMove
<1>22. ASSUME NEW w \in Workers, ExternalEvent(w) PROVE QueueInv'
  BY <1>a, <1>22 DEF ExternalEvent
<1>23. ASSUME NEW w \in Workers, Acquire(w) PROVE QueueInv'
  <2>1. Acquired(w)
    BY <1>a, <1>23, AcquireCases
  <2> QED
    BY <1>a, <2>1, <1>b DEF Acquired, LockInv, Locked
<1>24. ASSUME NEW w \in Workers, CpuWake(w) PROVE QueueInv'
  BY <1>a, <1>24, <1>b DEF CpuWake
<1>25. ASSUME NEW w \in Workers, CpuCheck(w) PROVE QueueInv'
  BY <1>a, <1>25, <1>b DEF CpuCheck, AfterAcquire
<1>26. ASSUME NEW w \in Workers, SubmitReturns(w) PROVE QueueInv'
  BY <1>a, <1>26 DEF SubmitReturns
<1>27. ASSUME NEW th \in Threads, ReleaseActivate(th) PROVE QueueInv'
  <2>1. (Same /\ (nrunning < NCpus => waitingcpu = {})) \/ (WakesIdle /\ waitingcpu = {}) \/ (WakesWaiter /\ nrunning < NCpus)
    BY <1>a, <1>27, Activated DEF ReleaseActivate
  <2>2. CASE Same /\ (nrunning < NCpus => waitingcpu = {})
    BY <1>a, <1>27, <2>2 DEF ReleaseActivate, Same, ListInv, InTask
  <2>3. CASE WakesIdle /\ waitingcpu = {}
    BY <1>a, <1>27, <2>3 DEF ReleaseActivate, WakesIdle, ListInv, InTask
  <2>4. CASE WakesWaiter /\ nrunning < NCpus
    BY <1>a, <1>27, <2>4 DEF ReleaseActivate, WakesWaiter, ListInv, InTask
  <2> QED
    BY <2>1, <2>2, <2>3, <2>4
<1>28. ASSUME NEW th \in Threads, WaitCheck(th) PROVE QueueInv'
  BY <1>a, <1>28 DEF WaitCheck
<1>29. ASSUME NEW th \in Threads, WaitWake(th) PROVE QueueInv'
  BY <1>a, <1>29 DEF WaitWake
<1>30. ASSUME SubmitRoot PROVE QueueInv'
  BY <1>a, <1>30 DEF SubmitRoot
<1>31. ASSUME RootReturns PROVE QueueInv'
  BY <1>a, <1>31 DEF RootReturns
<1>32. ASSUME SetTerm PROVE QueueInv'
  BY <1>a, <1>32 DEF SetTerm
<1>33. ASSUME TerminateNext PROVE QueueInv'
  <2>1. Ended
    BY <1>a, <1>33, TerminateCases
  <2> QED
    BY <1>a, <2>1 DEF Ended
<1>34. ASSUME Join PROVE QueueInv'
  BY <1>a, <1>34 DEF Join
<1>35. ASSUME Finished PROVE QueueInv'
  BY <1>a, <1>35 DEF Finished
<1> QED
  BY <1>1, <1>2, <1>3, <1>4, <1>5, <1>6, <1>7, <1>8, <1>9, <1>10, <1>11, <1>12, <1>13, <1>14, <1>15, <1>16, <1>17, <1>18, <1>19, <1>20, <1>21, <1>22, <1>23, <1>24, <1>25, <1>26, <1>27, <1>28, <1>29, <1>30, <1>31, <1>32, <1>33, <1>34, <1>35 DEF Next, WorkerMain, TaskBody, AnyThread, Client

-----------------------------------------------------------------------------
(* CPUs *)

(* The size of a set with one more element.                                *)
LEMMA OneMore ==
    ASSUME NEW S, NEW x, IsFiniteSet(S), x \notin S
    PROVE  IsFiniteSet(S \cup {x}) /\ Cardinality(S \cup {x}) = Cardinality(S) + 1
  BY FS_AddElement

(* The size of a set with one element less.                                *)
LEMMA OneLess ==
    ASSUME NEW S, NEW x, IsFiniteSet(S), x \in S
    PROVE  IsFiniteSet(S \ {x}) /\ Cardinality(S \ {x}) = Cardinality(S) - 1
           /\ Cardinality(S) \in Nat \ {0}
<1>1. IsFiniteSet(S \ {x}) /\ Cardinality(S \ {x}) = Cardinality(S) - 1
  BY FS_RemoveElement
<1>2. Cardinality(S) \in Nat /\ Cardinality(S \ {x}) \in Nat
  BY <1>1, FS_CardinalityType
<1> QED
  BY <1>1, <1>2

(* A part of a finite set is finite and not larger.                        *)
LEMMA NotMore ==
    ASSUME NEW S, NEW R, IsFiniteSet(S), R \subseteq S
    PROVE  IsFiniteSet(R) /\ Cardinality(R) <= Cardinality(S)
           /\ Cardinality(R) \in Nat /\ Cardinality(S) \in Nat
<1>1. IsFiniteSet(R) /\ Cardinality(R) <= Cardinality(S)
  BY FS_Subset
<1> QED
  BY <1>1, FS_CardinalityType

(* The number of running workers after a change of their list. *)
LEMMA MoreRun ==
    ASSUME TypeOK, CpuInv, NEW u \in Workers, u \notin running,
           running' = running \cup {u}, nrunning' = nrunning + 1
    PROVE  nrunning' = Cardinality(running') /\ nrunning' \in Nat
<1>1. IsFiniteSet(running)
  BY FiniteAssumption, NotMore DEF TypeOK
<1>2. Cardinality(running \cup {u}) = Cardinality(running) + 1
  BY <1>1, OneMore
<1> QED
  BY <1>2 DEF TypeOK, CpuInv

(* The same for a worker that stops running.                               *)
LEMMA FewerRun ==
    ASSUME TypeOK, CpuInv, NEW u \in Workers, u \in running,
           running' = running \ {u}, nrunning' = nrunning - 1
    PROVE  nrunning' = Cardinality(running') /\ nrunning' \in Nat /\ nrunning \in Nat \ {0}
<1>1. IsFiniteSet(running)
  BY FiniteAssumption, NotMore DEF TypeOK
<1>2. Cardinality(running \ {u}) = Cardinality(running) - 1 /\ Cardinality(running) \in Nat \ {0}
  BY <1>1, OneLess
<1> QED
  BY <1>2 DEF TypeOK, CpuInv

(* m_nrunning stays the length of m_running and within m_ncpus.            *)
LEMMA CpuStep ==
    ASSUME Inv, Next
    PROVE  CpuInv' /\ nrunning' \in Nat
<1> USE DEF Go, vars, poolVars, lists, srcVars, thrVars, Threads, Unlocked, CpuInv, TypeOK, LockInv, Locked
<1>a. TypeOK /\ LockInv /\ OneList /\ ListInv /\ QueueInv /\ CpuInv
  BY DEF Inv, PoolInv
<1> USE ThreadAssumption
<1>1. ASSUME NEW w \in Workers, WorkerStarts(w) PROVE CpuInv' /\ nrunning' \in Nat
  BY <1>a, <1>1 DEF WorkerStarts
<1>2. ASSUME NEW w \in Workers, LoopIdle(w) PROVE CpuInv' /\ nrunning' \in Nat
  BY <1>a, <1>2 DEF LoopIdle
<1>3. ASSUME NEW w \in Workers, SigWake(w) PROVE CpuInv' /\ nrunning' \in Nat
  BY <1>a, <1>3 DEF SigWake
<1>4. ASSUME NEW w \in Workers, CheckTerm(w) PROVE CpuInv' /\ nrunning' \in Nat
  BY <1>a, <1>4 DEF CheckTerm
<1>5. ASSUME NEW w \in Workers, LoopRunning(w) PROVE CpuInv' /\ nrunning' \in Nat
  BY <1>a, <1>5 DEF LoopRunning
<1>6. ASSUME NEW w \in Workers, FirstPull(w) PROVE CpuInv' /\ nrunning' \in Nat
  BY <1>a, <1>6 DEF FirstPull
<1>7. ASSUME NEW w \in Workers, FirstSpawn(w) PROVE CpuInv' /\ nrunning' \in Nat
  <2>1. Same \/ WakesIdle
    BY <1>a, <1>7, Spawned DEF FirstSpawn
  <2>2. CASE Same
    BY <1>a, <1>7, <2>2 DEF FirstSpawn, Same
  <2>3. CASE WakesIdle
    <3>1. PICK u \in idle : u \in Workers /\ running' = running \cup {u} /\ nrunning' = nrunning + 1
      BY <2>3 DEF WakesIdle
    <3>2. u \notin running
      BY <1>a, <3>1 DEF OneList
    <3>3. nrunning' = Cardinality(running') /\ nrunning' \in Nat
      BY <1>a, <3>1, <3>2, MoreRun
    <3> QED
      BY <1>a, <1>7, <2>3, <3>1, <3>3, CpuAssumption DEF FirstSpawn, WakesIdle
  <2> QED
    BY <2>1, <2>2, <2>3
<1>8. ASSUME NEW w \in Workers, StartTask(w) PROVE CpuInv' /\ nrunning' \in Nat
  BY <1>a, <1>8, AfterStart, ProgramAssumption DEF StartTask
<1>9. ASSUME NEW w \in Workers, QueueEmpty(w) PROVE CpuInv' /\ nrunning' \in Nat
  BY <1>a, <1>9 DEF QueueEmpty
<1>10. ASSUME NEW w \in Workers, BatchPull(w) PROVE CpuInv' /\ nrunning' \in Nat
  <2>1. Batched(w)
    BY <1>a, <1>10, BatchPullCases
  <2> QED
    BY <1>a, <2>1 DEF Batched
<1>11. ASSUME NEW w \in Workers, BatchSpawn(w) PROVE CpuInv' /\ nrunning' \in Nat
  <2>1. Same \/ WakesIdle
    BY <1>a, <1>11, Spawned DEF BatchSpawn
  <2>2. CASE Same
    BY <1>a, <1>11, <2>2 DEF BatchSpawn, Same
  <2>3. CASE WakesIdle
    <3>1. PICK u \in idle : u \in Workers /\ running' = running \cup {u} /\ nrunning' = nrunning + 1
      BY <2>3 DEF WakesIdle
    <3>2. u \notin running
      BY <1>a, <3>1 DEF OneList
    <3>3. nrunning' = Cardinality(running') /\ nrunning' \in Nat
      BY <1>a, <3>1, <3>2, MoreRun
    <3> QED
      BY <1>a, <1>11, <2>3, <3>1, <3>3, CpuAssumption DEF BatchSpawn, WakesIdle
  <2> QED
    BY <2>1, <2>2, <2>3
<1>12. ASSUME NEW w \in Workers, Settle(w) PROVE CpuInv' /\ nrunning' \in Nat
  <2>1. Settled(w)
    BY <1>a, <1>12, SettleCases
  <2>2. CASE lq[w] = <<>> /\ running' = running \ {w} /\ nrunning' = nrunning - 1
    <3>1. w \in running
      BY <1>a, <2>1 DEF Settled, ListInv, OnCpu
    <3>2. nrunning' = Cardinality(running') /\ nrunning' \in Nat /\ nrunning \in Nat \ {0}
      BY <1>a, <2>2, <3>1, FewerRun
    <3> QED
      BY <1>a, <2>2, <3>2, CpuAssumption
  <2>3. CASE lq[w] # <<>> /\ UNCHANGED <<running, nrunning>>
    <3>1. pc[w] = "settle" /\ \E l \in {"exit", "loop"} : pc' = [pc EXCEPT ![w] = l]
      BY <1>a, <2>1, <2>3 DEF Settled, QueueInv
    <3> QED
      BY <1>a, <2>3, <3>1
  <2> QED
    BY <2>1, <2>2, <2>3 DEF Settled
<1>13. ASSUME NEW w \in Workers, Yield(w) PROVE CpuInv' /\ nrunning' \in Nat
  <2>1. PICK u \in waitingcpu : u \in Workers /\ running' = running \cup {u}
    BY <1>a, <1>13, WaiterActivated DEF Yield
  <2>2. u \notin running
    BY <1>a, <2>1 DEF OneList
  <2>3. nrunning' = nrunning + 1 /\ pc[w] = "yield" /\ mtx = w
        /\ \E l \in {"exit", "loop"} : pc' = [pc EXCEPT ![w] = l]
    BY <1>13 DEF Yield
  <2>4. nrunning' = Cardinality(running') /\ nrunning' \in Nat
    BY <1>a, <2>1, <2>2, <2>3, MoreRun
  <2>5. \A v \in Workers : pc'[v] # "yield"
    BY <1>a, <2>3
  <2> QED
    BY <1>a, <2>3, <2>4, <2>5, CpuAssumption
<1>14. ASSUME NEW w \in Workers, WorkerExits(w) PROVE CpuInv' /\ nrunning' \in Nat
  BY <1>a, <1>14 DEF WorkerExits
<1>15. ASSUME NEW w \in Workers, SubmitNested(w) PROVE CpuInv' /\ nrunning' \in Nat
  BY <1>a, <1>15 DEF SubmitNested
<1>16. ASSUME NEW w \in Workers, TaskThrows(w) PROVE CpuInv' /\ nrunning' \in Nat
  BY <1>a, <1>16 DEF TaskThrows
<1>17. ASSUME NEW w \in Workers, notify_exception(w) PROVE CpuInv' /\ nrunning' \in Nat
  BY <1>a, <1>17 DEF notify_exception
<1>18. ASSUME NEW w \in Workers, notify_finish_task(w) PROVE CpuInv' /\ nrunning' \in Nat
  BY <1>a, <1>18 DEF notify_finish_task
<1>19. ASSUME NEW w \in Workers, ReleaseCheck(w) PROVE CpuInv' /\ nrunning' \in Nat
  <2>1. Checked(w)
    BY <1>a, <1>19, ReleaseCheckCases
  <2>2. CASE pc' = [pc EXCEPT ![w] = "rel2"]
    <3>1. pc[w] = "rel" /\ UNCHANGED <<running, nrunning>>
      BY <2>1 DEF Checked
    <3> QED
      BY <1>a, <2>2, <3>1
  <2>3. CASE \E u \in Workers : pc[u] = "unborn" /\ u # w /\ pc'[w] = "relwait" /\ pc'[u] = "born" /\ (\A v \in Threads : v # w /\ v # u => pc'[v] = pc[v])
    <3>1. pc[w] = "rel" /\ UNCHANGED <<running, nrunning>>
      BY <2>1 DEF Checked
    <3> QED
      BY <1>a, <2>3, <3>1
  <2> QED
    BY <2>1, <2>2, <2>3 DEF Checked
<1>20. ASSUME NEW w \in Workers, CreatedReady(w) PROVE CpuInv' /\ nrunning' \in Nat
  BY <1>a, <1>20 DEF CreatedReady
<1>21. ASSUME NEW w \in Workers, ReleaseMove(w) PROVE CpuInv' /\ nrunning' \in Nat
  <2>1. /\ pc[w] = "rel2" /\ running' = running \ {w} /\ nrunning' = nrunning - 1
        /\ pc' = [pc EXCEPT ![w] = "rel3"]
    BY <1>21 DEF ReleaseMove
  <2>2. w \in running
    BY <1>a, <2>1 DEF ListInv, OnCpu
  <2>3. nrunning' = Cardinality(running') /\ nrunning' \in Nat /\ nrunning \in Nat \ {0}
    BY <1>a, <2>1, <2>2, FewerRun
  <2> QED
    BY <1>a, <2>1, <2>3, CpuAssumption
<1>22. ASSUME NEW w \in Workers, ExternalEvent(w) PROVE CpuInv' /\ nrunning' \in Nat
  BY <1>a, <1>22 DEF ExternalEvent
<1>23. ASSUME NEW w \in Workers, Acquire(w) PROVE CpuInv' /\ nrunning' \in Nat
  <2>1. Acquired(w)
    BY <1>a, <1>23, AcquireCases
  <2>2. \A v \in Workers : pc'[v] # "yield"
    BY <1>a, <2>1 DEF Acquired, Unlocked
  <2>3. CASE nrunning < NCpus /\ running' = running \cup {w} /\ nrunning' = nrunning + 1
    <3>1. w \notin running
      BY <1>a, <2>1 DEF Acquired, ListInv, OffPool, OneList
    <3>2. nrunning' = Cardinality(running') /\ nrunning' \in Nat
      BY <1>a, <2>3, <3>1, MoreRun
    <3> QED
      BY <1>a, <2>2, <2>3, <3>2, CpuAssumption
  <2>4. CASE UNCHANGED <<running, nrunning>>
    BY <1>a, <2>2, <2>4
  <2> QED
    BY <2>1, <2>3, <2>4 DEF Acquired
<1>24. ASSUME NEW w \in Workers, CpuWake(w) PROVE CpuInv' /\ nrunning' \in Nat
  BY <1>a, <1>24 DEF CpuWake
<1>25. ASSUME NEW w \in Workers, CpuCheck(w) PROVE CpuInv' /\ nrunning' \in Nat
  BY <1>a, <1>25 DEF CpuCheck, AfterAcquire
<1>26. ASSUME NEW w \in Workers, SubmitReturns(w) PROVE CpuInv' /\ nrunning' \in Nat
  BY <1>a, <1>26 DEF SubmitReturns
<1>27. ASSUME NEW th \in Threads, ReleaseActivate(th) PROVE CpuInv' /\ nrunning' \in Nat
  <2>1. Same \/ WakesIdle \/ (WakesWaiter /\ nrunning < NCpus)
    BY <1>a, <1>27, Activated
  <2>2. CASE Same
    BY <1>a, <1>27, <2>2 DEF ReleaseActivate, Same
  <2>3. CASE WakesIdle
    <3>1. PICK u \in idle : u \in Workers /\ running' = running \cup {u} /\ nrunning' = nrunning + 1
      BY <2>3 DEF WakesIdle
    <3>2. u \notin running
      BY <1>a, <3>1 DEF OneList
    <3>3. nrunning' = Cardinality(running') /\ nrunning' \in Nat
      BY <1>a, <3>1, <3>2, MoreRun
    <3> QED
      BY <1>a, <1>27, <2>3, <3>1, <3>3, CpuAssumption DEF ReleaseActivate, WakesIdle
  <2>4. CASE WakesWaiter /\ nrunning < NCpus
    <3>1. PICK u \in waitingcpu : u \in Workers /\ running' = running \cup {u} /\ nrunning' = nrunning + 1
      BY <2>4 DEF WakesWaiter
    <3>2. u \notin running
      BY <1>a, <3>1 DEF OneList
    <3>3. nrunning' = Cardinality(running') /\ nrunning' \in Nat
      BY <1>a, <3>1, <3>2, MoreRun
    <3> QED
      BY <1>a, <1>27, <2>4, <3>1, <3>3, CpuAssumption DEF ReleaseActivate, WakesWaiter
  <2> QED
    BY <2>1, <2>2, <2>3, <2>4
<1>28. ASSUME NEW th \in Threads, WaitCheck(th) PROVE CpuInv' /\ nrunning' \in Nat
  BY <1>a, <1>28 DEF WaitCheck
<1>29. ASSUME NEW th \in Threads, WaitWake(th) PROVE CpuInv' /\ nrunning' \in Nat
  BY <1>a, <1>29 DEF WaitWake
<1>30. ASSUME SubmitRoot PROVE CpuInv' /\ nrunning' \in Nat
  BY <1>a, <1>30 DEF SubmitRoot
<1>31. ASSUME RootReturns PROVE CpuInv' /\ nrunning' \in Nat
  BY <1>a, <1>31 DEF RootReturns
<1>32. ASSUME SetTerm PROVE CpuInv' /\ nrunning' \in Nat
  BY <1>a, <1>32 DEF SetTerm
<1>33. ASSUME TerminateNext PROVE CpuInv' /\ nrunning' \in Nat
  <2>1. Ended
    BY <1>a, <1>33, TerminateCases
  <2> QED
    BY <1>a, <2>1 DEF Ended
<1>34. ASSUME Join PROVE CpuInv' /\ nrunning' \in Nat
  BY <1>a, <1>34 DEF Join
<1>35. ASSUME Finished PROVE CpuInv' /\ nrunning' \in Nat
  BY <1>a, <1>35 DEF Finished
<1> QED
  BY <1>1, <1>2, <1>3, <1>4, <1>5, <1>6, <1>7, <1>8, <1>9, <1>10, <1>11, <1>12, <1>13, <1>14, <1>15, <1>16, <1>17, <1>18, <1>19, <1>20, <1>21, <1>22, <1>23, <1>24, <1>25, <1>26, <1>27, <1>28, <1>29, <1>30, <1>31, <1>32, <1>33, <1>34, <1>35 DEF Next, WorkerMain, TaskBody, AnyThread, Client

(* m_nwaiting goes up and down with the tasks that wait for something else. *)
BlockedChange ==
    \/ Blocked' \subseteq Blocked /\ nwaiting' = nwaiting
    \/ \E w \in Workers : w \notin Blocked /\ Blocked' \subseteq Blocked \cup {w} /\ nwaiting' = nwaiting + 1
    \/ \E w \in Blocked : Blocked' \subseteq Blocked \ {w} /\ nwaiting' = nwaiting - 1

(* What each step does to m_nwaiting and the tasks it counts.              *)
LEMMA BlockedStep ==
    ASSUME Inv, Next
    PROVE  BlockedChange
<1> USE DEF Go, vars, poolVars, lists, srcVars, thrVars, Threads, Unlocked, BlockedChange, Blocked, TypeOK, InTask
<1>a. TypeOK /\ PcInv /\ TaskInv /\ ListInv /\ QueueInv
  BY DEF Inv, PoolInv
<1> USE ThreadAssumption
<1>1. ASSUME NEW w \in Workers, WorkerStarts(w) PROVE BlockedChange
  BY <1>a, <1>1 DEF WorkerStarts
<1>2. ASSUME NEW w \in Workers, LoopIdle(w) PROVE BlockedChange
  BY <1>a, <1>2 DEF LoopIdle
<1>3. ASSUME NEW w \in Workers, SigWake(w) PROVE BlockedChange
  BY <1>a, <1>3 DEF SigWake
<1>4. ASSUME NEW w \in Workers, CheckTerm(w) PROVE BlockedChange
  BY <1>a, <1>4 DEF CheckTerm
<1>5. ASSUME NEW w \in Workers, LoopRunning(w) PROVE BlockedChange
  BY <1>a, <1>5 DEF LoopRunning
<1>6. ASSUME NEW w \in Workers, FirstPull(w) PROVE BlockedChange
  BY <1>a, <1>6 DEF FirstPull
<1>7. ASSUME NEW w \in Workers, FirstSpawn(w) PROVE BlockedChange
  BY <1>a, <1>7 DEF FirstSpawn
<1>8. ASSUME NEW w \in Workers, StartTask(w) PROVE BlockedChange
  BY <1>a, <1>8, AfterStart, ProgramAssumption DEF StartTask
<1>9. ASSUME NEW w \in Workers, QueueEmpty(w) PROVE BlockedChange
  BY <1>a, <1>9 DEF QueueEmpty
<1>10. ASSUME NEW w \in Workers, BatchPull(w) PROVE BlockedChange
  <2>1. Batched(w)
    BY <1>a, <1>10, BatchPullCases
  <2>2. CASE pc' = [pc EXCEPT ![w] = "spawn2"]
    <3>1. pc[w] = "batch" /\ UNCHANGED <<cur, nwaiting>>
      BY <2>1 DEF Batched
    <3> QED
      BY <1>a, <2>2, <3>1
  <2>3. CASE pc' = [pc EXCEPT ![w] = "settle"]
    <3>1. pc[w] = "batch" /\ UNCHANGED <<cur, nwaiting>>
      BY <2>1 DEF Batched
    <3> QED
      BY <1>a, <2>3, <3>1
  <2> QED
    BY <2>1, <2>2, <2>3 DEF Batched
<1>11. ASSUME NEW w \in Workers, BatchSpawn(w) PROVE BlockedChange
  BY <1>a, <1>11 DEF BatchSpawn
<1>12. ASSUME NEW w \in Workers, Settle(w) PROVE BlockedChange
  <2>1. Settled(w)
    BY <1>a, <1>12, SettleCases
  <2>2. CASE pc' = [pc EXCEPT ![w] = "yield"]
    <3>1. pc[w] = "settle" /\ UNCHANGED <<cur, nwaiting>>
      BY <2>1 DEF Settled
    <3> QED
      BY <1>a, <2>2, <3>1
  <2>3. CASE pc' = [pc EXCEPT ![w] = "exit"]
    <3>1. pc[w] = "settle" /\ UNCHANGED <<cur, nwaiting>>
      BY <2>1 DEF Settled
    <3> QED
      BY <1>a, <2>3, <3>1
  <2>4. CASE pc' = [pc EXCEPT ![w] = "loop"]
    <3>1. pc[w] = "settle" /\ UNCHANGED <<cur, nwaiting>>
      BY <2>1 DEF Settled
    <3> QED
      BY <1>a, <2>4, <3>1
  <2> QED
    BY <2>1, <2>2, <2>3, <2>4 DEF Settled
<1>13. ASSUME NEW w \in Workers, Yield(w) PROVE BlockedChange
  BY <1>a, <1>13 DEF Yield
<1>14. ASSUME NEW w \in Workers, WorkerExits(w) PROVE BlockedChange
  BY <1>a, <1>14 DEF WorkerExits
<1>15. ASSUME NEW w \in Workers, SubmitNested(w) PROVE BlockedChange
  BY <1>a, <1>15 DEF SubmitNested
<1>16. ASSUME NEW w \in Workers, TaskThrows(w) PROVE BlockedChange
  BY <1>a, <1>16 DEF TaskThrows
<1>17. ASSUME NEW w \in Workers, notify_exception(w) PROVE BlockedChange
  BY <1>a, <1>17 DEF notify_exception
<1>18. ASSUME NEW w \in Workers, notify_finish_task(w) PROVE BlockedChange
  BY <1>a, <1>18 DEF notify_finish_task
<1>19. ASSUME NEW w \in Workers, ReleaseCheck(w) PROVE BlockedChange
  <2>1. Checked(w)
    BY <1>a, <1>19, ReleaseCheckCases
  <2>2. CASE pc' = [pc EXCEPT ![w] = "rel2"]
    <3>1. pc[w] = "rel" /\ UNCHANGED <<cur, nwaiting>>
      BY <2>1 DEF Checked
    <3> QED
      BY <1>a, <2>2, <3>1
  <2>3. CASE \E u \in Workers : pc[u] = "unborn" /\ u # w /\ pc'[w] = "relwait" /\ pc'[u] = "born" /\ (\A v \in Threads : v # w /\ v # u => pc'[v] = pc[v])
    <3>1. pc[w] = "rel" /\ UNCHANGED <<cur, nwaiting>>
      BY <2>1 DEF Checked
    <3> QED
      BY <1>a, <2>3, <3>1
  <2> QED
    BY <2>1, <2>2, <2>3 DEF Checked
<1>20. ASSUME NEW w \in Workers, CreatedReady(w) PROVE BlockedChange
  BY <1>a, <1>20 DEF CreatedReady
<1>21. ASSUME NEW w \in Workers, ReleaseMove(w) PROVE BlockedChange
  BY <1>a, <1>21 DEF ReleaseMove
<1>22. ASSUME NEW w \in Workers, ExternalEvent(w) PROVE BlockedChange
  BY <1>a, <1>22 DEF ExternalEvent
<1>23. ASSUME NEW w \in Workers, Acquire(w) PROVE BlockedChange
  <2>1. Acquired(w)
    BY <1>a, <1>23, AcquireCases
  <2>2. CASE pc' = [pc EXCEPT ![w] = "unsub"]
    <3>1. pc[w] = "acq" /\ UNCHANGED <<cur, nwaiting>>
      BY <2>1 DEF Acquired
    <3> QED
      BY <1>a, <2>2, <3>1
  <2>3. CASE pc' = [pc EXCEPT ![w] = "tail"]
    <3>1. pc[w] = "acq" /\ UNCHANGED <<cur, nwaiting>>
      BY <2>1 DEF Acquired
    <3> QED
      BY <1>a, <2>3, <3>1
  <2>4. CASE pc' = [pc EXCEPT ![w] = "cpuwait"]
    <3>1. pc[w] = "acq" /\ UNCHANGED <<cur, nwaiting>>
      BY <2>1 DEF Acquired
    <3> QED
      BY <1>a, <2>4, <3>1
  <2> QED
    BY <2>1, <2>2, <2>3, <2>4 DEF Acquired
<1>24. ASSUME NEW w \in Workers, CpuWake(w) PROVE BlockedChange
  BY <1>a, <1>24 DEF CpuWake
<1>25. ASSUME NEW w \in Workers, CpuCheck(w) PROVE BlockedChange
  BY <1>a, <1>25 DEF CpuCheck, AfterAcquire, QueueInv, Working, InTaskPcs, Calling
<1>26. ASSUME NEW w \in Workers, SubmitReturns(w) PROVE BlockedChange
  BY <1>a, <1>26 DEF SubmitReturns
<1>27. ASSUME NEW th \in Threads, ReleaseActivate(th) PROVE BlockedChange
  BY <1>a, <1>27 DEF ReleaseActivate
<1>28. ASSUME NEW th \in Threads, WaitCheck(th) PROVE BlockedChange
  <2>1. pc[th] = "tswait" /\ (\E l \in {"tsblock", "unsub", "acq"} : pc' = [pc EXCEPT ![th] = l])
        /\ UNCHANGED <<cur, nwaiting>>
    BY <1>28 DEF WaitCheck
  <2>2. th \in Workers => Nested[cur[th]] # NoSource
    BY <1>a, <2>1 DEF TaskInv
  <2>3. Blocked' \subseteq Blocked
    BY <1>a, <2>1, <2>2
  <2> QED
    BY <2>1, <2>3
<1>29. ASSUME NEW th \in Threads, WaitWake(th) PROVE BlockedChange
  BY <1>a, <1>29 DEF WaitWake
<1>30. ASSUME SubmitRoot PROVE BlockedChange
  BY <1>a, <1>30 DEF SubmitRoot
<1>31. ASSUME RootReturns PROVE BlockedChange
  BY <1>a, <1>31 DEF RootReturns
<1>32. ASSUME SetTerm PROVE BlockedChange
  BY <1>a, <1>32 DEF SetTerm
<1>33. ASSUME TerminateNext PROVE BlockedChange
  <2>1. Ended
    BY <1>a, <1>33, TerminateCases
  <2>2. CASE pc' = [pc EXCEPT ![Main] = "finished"]
    <3>1. pc[Main] = "terminate" /\ UNCHANGED <<cur, nwaiting>>
      BY <2>1 DEF Ended
    <3> QED
      BY <1>a, <2>2, <3>1
  <2>3. CASE pc' = [pc EXCEPT ![Main] = "join"]
    <3>1. pc[Main] = "terminate" /\ UNCHANGED <<cur, nwaiting>>
      BY <2>1 DEF Ended
    <3> QED
      BY <1>a, <2>3, <3>1
  <2> QED
    BY <2>1, <2>2, <2>3 DEF Ended
<1>34. ASSUME Join PROVE BlockedChange
  BY <1>a, <1>34 DEF Join
<1>35. ASSUME Finished PROVE BlockedChange
  BY <1>a, <1>35 DEF Finished
<1> QED
  BY <1>1, <1>2, <1>3, <1>4, <1>5, <1>6, <1>7, <1>8, <1>9, <1>10, <1>11, <1>12, <1>13, <1>14, <1>15, <1>16, <1>17, <1>18, <1>19, <1>20, <1>21, <1>22, <1>23, <1>24, <1>25, <1>26, <1>27, <1>28, <1>29, <1>30, <1>31, <1>32, <1>33, <1>34, <1>35 DEF Next, WorkerMain, TaskBody, AnyThread, Client

(* m_nwaiting never falls below the number of those tasks.                 *)
LEMMA WaitStep ==
    ASSUME Inv, Next
    PROVE  WaitInv' /\ nwaiting' \in Nat
<1>a. TypeOK /\ WaitInv /\ BlockedChange
  BY BlockedStep DEF Inv
<1>1. IsFiniteSet(Blocked) /\ Cardinality(Blocked) \in Nat /\ nwaiting \in Nat
  BY <1>a, FiniteAssumption, NotMore DEF Blocked, TypeOK
<1>2. CASE Blocked' \subseteq Blocked /\ nwaiting' = nwaiting
  <2>1. Cardinality(Blocked') <= Cardinality(Blocked) /\ Cardinality(Blocked') \in Nat
    BY <1>1, <1>2, NotMore
  <2> QED
    BY <1>a, <1>1, <1>2, <2>1 DEF WaitInv
<1>3. ASSUME NEW w \in Workers, w \notin Blocked, Blocked' \subseteq Blocked \cup {w}, nwaiting' = nwaiting + 1
      PROVE  WaitInv' /\ nwaiting' \in Nat
  <2>1. IsFiniteSet(Blocked \cup {w}) /\ Cardinality(Blocked \cup {w}) = Cardinality(Blocked) + 1
    BY <1>1, <1>3, OneMore
  <2>2. Cardinality(Blocked') <= Cardinality(Blocked) + 1 /\ Cardinality(Blocked') \in Nat
    BY <1>3, <2>1, NotMore
  <2> QED
    BY <1>a, <1>1, <1>3, <2>2 DEF WaitInv
<1>4. ASSUME NEW w \in Blocked, Blocked' \subseteq Blocked \ {w}, nwaiting' = nwaiting - 1
      PROVE  WaitInv' /\ nwaiting' \in Nat
  <2>1. IsFiniteSet(Blocked \ {w}) /\ Cardinality(Blocked \ {w}) = Cardinality(Blocked) - 1
        /\ Cardinality(Blocked) \in Nat \ {0}
    BY <1>1, OneLess
  <2>2. Cardinality(Blocked') <= Cardinality(Blocked) - 1 /\ Cardinality(Blocked') \in Nat
    BY <1>4, <2>1, NotMore
  <2> QED
    BY <1>a, <1>1, <1>4, <2>1, <2>2 DEF WaitInv
<1> QED
  BY <1>a, <1>2, <1>3, <1>4 DEF BlockedChange

(* A thread that is about to give a CPU away, and what a step does to the  *)
(* number of them and of the CPUs that are taken.                          *)
Handing == {th \in Threads : pc[th] \in {"rel3", "yield"}}
HandingChange ==
    \/ waitingcpu' = {} \/ nrunning' >= NCpus
    \/ Handing \subseteq Handing' /\ nrunning' >= nrunning /\ waitingcpu # {}
    \/ waitingcpu # {} /\ \E th \in Threads :
          th \notin Handing /\ Handing \cup {th} \subseteq Handing' /\ nrunning' = nrunning - 1
    \/ waitingcpu # {} /\ \E th \in Handing :
          Handing \ {th} \subseteq Handing' /\ nrunning' = nrunning + 1

(* What each step does to the threads that are to hand a CPU over.         *)
LEMMA HandingStep ==
    ASSUME Inv, Next
    PROVE  HandingChange
<1> USE DEF Go, vars, poolVars, lists, srcVars, thrVars, Threads, Unlocked, HandingChange, Handing, TypeOK, InTask
<1>a. TypeOK /\ QueueInv
  BY DEF Inv, PoolInv
<1> USE ThreadAssumption
<1>1. ASSUME NEW w \in Workers, WorkerStarts(w) PROVE HandingChange
  BY <1>a, <1>1 DEF WorkerStarts
<1>2. ASSUME NEW w \in Workers, LoopIdle(w) PROVE HandingChange
  BY <1>a, <1>2 DEF LoopIdle
<1>3. ASSUME NEW w \in Workers, SigWake(w) PROVE HandingChange
  BY <1>a, <1>3 DEF SigWake
<1>4. ASSUME NEW w \in Workers, CheckTerm(w) PROVE HandingChange
  BY <1>a, <1>4 DEF CheckTerm
<1>5. ASSUME NEW w \in Workers, LoopRunning(w) PROVE HandingChange
  BY <1>a, <1>5 DEF LoopRunning
<1>6. ASSUME NEW w \in Workers, FirstPull(w) PROVE HandingChange
  BY <1>a, <1>6 DEF FirstPull
<1>7. ASSUME NEW w \in Workers, FirstSpawn(w) PROVE HandingChange
  <2>1. Same \/ WakesIdle
    BY <1>a, <1>7, Spawned DEF FirstSpawn
  <2>2. /\ pc[w] = "spawn1" /\ (\E l \in {"pop", "settle"} : pc' = [pc EXCEPT ![w] = l])
        /\ nrunning' >= nrunning /\ UNCHANGED waitingcpu
    BY <1>a, <1>7, <2>1 DEF FirstSpawn, Same, WakesIdle
  <2> QED
    BY <1>a, <2>2
<1>8. ASSUME NEW w \in Workers, StartTask(w) PROVE HandingChange
  BY <1>a, <1>8, AfterStart, ProgramAssumption DEF StartTask
<1>9. ASSUME NEW w \in Workers, QueueEmpty(w) PROVE HandingChange
  BY <1>a, <1>9 DEF QueueEmpty
<1>10. ASSUME NEW w \in Workers, BatchPull(w) PROVE HandingChange
  <2>1. Batched(w)
    BY <1>a, <1>10, BatchPullCases
  <2>2. CASE pc' = [pc EXCEPT ![w] = "spawn2"]
    <3>1. pc[w] = "batch" /\ UNCHANGED <<nrunning, waitingcpu>>
      BY <2>1 DEF Batched
    <3> QED
      BY <1>a, <2>2, <3>1
  <2>3. CASE pc' = [pc EXCEPT ![w] = "settle"]
    <3>1. pc[w] = "batch" /\ UNCHANGED <<nrunning, waitingcpu>>
      BY <2>1 DEF Batched
    <3> QED
      BY <1>a, <2>3, <3>1
  <2> QED
    BY <2>1, <2>2, <2>3 DEF Batched
<1>11. ASSUME NEW w \in Workers, BatchSpawn(w) PROVE HandingChange
  <2>1. Same \/ WakesIdle
    BY <1>a, <1>11, Spawned DEF BatchSpawn
  <2>2. /\ pc[w] = "spawn2" /\ (\E l \in {"pop", "settle"} : pc' = [pc EXCEPT ![w] = l])
        /\ nrunning' >= nrunning /\ UNCHANGED waitingcpu
    BY <1>a, <1>11, <2>1 DEF BatchSpawn, Same, WakesIdle
  <2> QED
    BY <1>a, <2>2
<1>12. ASSUME NEW w \in Workers, Settle(w) PROVE HandingChange
  <2>1. Settled(w)
    BY <1>a, <1>12, SettleCases
  <2>2. CASE waitingcpu = {}
    BY <2>1, <2>2 DEF Settled
  <2>3. CASE waitingcpu # {}
    <3>1. /\ pc[w] = "settle" /\ pc' = [pc EXCEPT ![w] = "yield"] /\ waitingcpu' = waitingcpu
          /\ nrunning' = nrunning - 1
      BY <1>a, <2>1, <2>3 DEF Settled, QueueInv
    <3>2. w \notin Handing /\ Handing \cup {w} \subseteq Handing'
      BY <1>a, <3>1
    <3> QED
      BY <2>3, <3>1, <3>2
  <2> QED
    BY <2>2, <2>3
<1>13. ASSUME NEW w \in Workers, Yield(w) PROVE HandingChange
  <2>1. \E u \in waitingcpu : u \in Workers
    BY <1>a, <1>13, WaiterActivated DEF Yield
  <2>2. nrunning' = nrunning + 1 /\ pc[w] = "yield" /\ \E l \in {"exit", "loop"} : pc' = [pc EXCEPT ![w] = l]
    BY <1>13 DEF Yield
  <2>3. w \in Handing /\ Handing \ {w} \subseteq Handing'
    BY <1>a, <2>2
  <2> QED
    BY <2>1, <2>2, <2>3
<1>14. ASSUME NEW w \in Workers, WorkerExits(w) PROVE HandingChange
  BY <1>a, <1>14 DEF WorkerExits
<1>15. ASSUME NEW w \in Workers, SubmitNested(w) PROVE HandingChange
  BY <1>a, <1>15 DEF SubmitNested
<1>16. ASSUME NEW w \in Workers, TaskThrows(w) PROVE HandingChange
  BY <1>a, <1>16 DEF TaskThrows
<1>17. ASSUME NEW w \in Workers, notify_exception(w) PROVE HandingChange
  BY <1>a, <1>17 DEF notify_exception
<1>18. ASSUME NEW w \in Workers, notify_finish_task(w) PROVE HandingChange
  BY <1>a, <1>18 DEF notify_finish_task
<1>19. ASSUME NEW w \in Workers, ReleaseCheck(w) PROVE HandingChange
  <2>1. Checked(w)
    BY <1>a, <1>19, ReleaseCheckCases
  <2>2. pc[w] = "rel" /\ UNCHANGED <<nrunning, waitingcpu>>
    BY <2>1 DEF Checked
  <2>3. \A v \in Threads : pc[v] \in {"rel3", "yield"} => pc'[v] = pc[v]
    BY <1>a, <2>1, <2>2 DEF Checked
  <2> QED
    BY <1>a, <2>2, <2>3
<1>20. ASSUME NEW w \in Workers, CreatedReady(w) PROVE HandingChange
  BY <1>a, <1>20 DEF CreatedReady
<1>21. ASSUME NEW w \in Workers, ReleaseMove(w) PROVE HandingChange
  <2>1. /\ pc[w] = "rel2" /\ pc' = [pc EXCEPT ![w] = "rel3"] /\ waitingcpu' = waitingcpu
        /\ nrunning' = nrunning - 1
    BY <1>21 DEF ReleaseMove
  <2>2. w \notin Handing /\ Handing \cup {w} \subseteq Handing'
    BY <1>a, <2>1
  <2> QED
    BY <2>1, <2>2
<1>22. ASSUME NEW w \in Workers, ExternalEvent(w) PROVE HandingChange
  BY <1>a, <1>22 DEF ExternalEvent
<1>23. ASSUME NEW w \in Workers, Acquire(w) PROVE HandingChange
  <2>1. Acquired(w)
    BY <1>a, <1>23, AcquireCases
  <2>2. pc[w] = "acq" /\ \E l \in {"unsub", "tail", "cpuwait"} : pc' = [pc EXCEPT ![w] = l]
    BY <2>1 DEF Acquired
  <2>3. CASE nrunning' = nrunning + 1 /\ UNCHANGED waitingcpu
    BY <1>a, <2>2, <2>3
  <2>4. CASE ~(nrunning < NCpus) /\ UNCHANGED nrunning
    BY <1>a, <2>4, CpuAssumption
  <2> QED
    BY <2>1, <2>3, <2>4 DEF Acquired
<1>24. ASSUME NEW w \in Workers, CpuWake(w) PROVE HandingChange
  BY <1>a, <1>24 DEF CpuWake
<1>25. ASSUME NEW w \in Workers, CpuCheck(w) PROVE HandingChange
  BY <1>a, <1>25 DEF CpuCheck, AfterAcquire
<1>26. ASSUME NEW w \in Workers, SubmitReturns(w) PROVE HandingChange
  BY <1>a, <1>26 DEF SubmitReturns
<1>27. ASSUME NEW th \in Threads, ReleaseActivate(th) PROVE HandingChange
  <2>1. \/ Same /\ (nrunning < NCpus => waitingcpu = {})
        \/ WakesIdle /\ waitingcpu = {}
        \/ WakesWaiter /\ nrunning < NCpus
    BY <1>a, <1>27, Activated
  <2>2. CASE Same /\ (nrunning < NCpus => waitingcpu = {})
    BY <1>a, <2>2, CpuAssumption DEF Same
  <2>3. CASE WakesIdle /\ waitingcpu = {}
    BY <2>3 DEF WakesIdle
  <2>4. CASE WakesWaiter
    <3>1. nrunning' = nrunning + 1 /\ waitingcpu # {}
      BY <2>4 DEF WakesWaiter
    <3>2. pc[th] = "rel3" /\ \E l \in {"tswait", "external"} : pc' = [pc EXCEPT ![th] = l]
      BY <1>27 DEF ReleaseActivate
    <3>3. th \in Handing /\ Handing \ {th} \subseteq Handing'
      BY <1>a, <3>2
    <3> QED
      BY <3>1, <3>3
  <2> QED
    BY <2>1, <2>2, <2>3, <2>4
<1>28. ASSUME NEW th \in Threads, WaitCheck(th) PROVE HandingChange
  BY <1>a, <1>28 DEF WaitCheck
<1>29. ASSUME NEW th \in Threads, WaitWake(th) PROVE HandingChange
  BY <1>a, <1>29 DEF WaitWake
<1>30. ASSUME SubmitRoot PROVE HandingChange
  BY <1>a, <1>30 DEF SubmitRoot
<1>31. ASSUME RootReturns PROVE HandingChange
  BY <1>a, <1>31 DEF RootReturns
<1>32. ASSUME SetTerm PROVE HandingChange
  BY <1>a, <1>32 DEF SetTerm
<1>33. ASSUME TerminateNext PROVE HandingChange
  <2>1. Ended
    BY <1>a, <1>33, TerminateCases
  <2>2. CASE pc' = [pc EXCEPT ![Main] = "finished"]
    <3>1. pc[Main] = "terminate" /\ UNCHANGED <<nrunning, waitingcpu>>
      BY <2>1 DEF Ended
    <3> QED
      BY <1>a, <2>2, <3>1
  <2>3. CASE pc' = [pc EXCEPT ![Main] = "join"]
    <3>1. pc[Main] = "terminate" /\ UNCHANGED <<nrunning, waitingcpu>>
      BY <2>1 DEF Ended
    <3> QED
      BY <1>a, <2>3, <3>1
  <2> QED
    BY <2>1, <2>2, <2>3 DEF Ended
<1>34. ASSUME Join PROVE HandingChange
  BY <1>a, <1>34 DEF Join
<1>35. ASSUME Finished PROVE HandingChange
  BY <1>a, <1>35 DEF Finished
<1> QED
  BY <1>1, <1>2, <1>3, <1>4, <1>5, <1>6, <1>7, <1>8, <1>9, <1>10, <1>11, <1>12, <1>13, <1>14, <1>15, <1>16, <1>17, <1>18, <1>19, <1>20, <1>21, <1>22, <1>23, <1>24, <1>25, <1>26, <1>27, <1>28, <1>29, <1>30, <1>31, <1>32, <1>33, <1>34, <1>35 DEF Next, WorkerMain, TaskBody, AnyThread, Client

(* No step leaves a CPU free that a worker waits for and nobody hands      *)
(* over.                                                                   *)
LEMMA WastedStep ==
    ASSUME Inv, Next, nrunning' \in Nat
    PROVE  NoCpuWasted'
<1>a. TypeOK /\ NoCpuWasted /\ HandingChange
  BY HandingStep DEF Inv
<1>1. IsFiniteSet(Threads)
  BY FiniteAssumption, OneMore, ThreadAssumption DEF Threads
<1>2. /\ IsFiniteSet(Handing) /\ Cardinality(Handing) \in Nat
      /\ IsFiniteSet(Handing') /\ Cardinality(Handing') \in Nat
  BY <1>1, NotMore DEF Handing
<1>3. waitingcpu # {} => nrunning + Cardinality(Handing) >= NCpus
  BY <1>a DEF NoCpuWasted, Handing
<1>b. nrunning \in Nat /\ NCpus \in Nat
  BY <1>a, CpuAssumption DEF TypeOK
<1> SUFFICES ASSUME waitingcpu' # {} PROVE nrunning' + Cardinality(Handing') >= NCpus
  BY DEF NoCpuWasted, Handing
<1>4. CASE nrunning' >= NCpus
  BY <1>2, <1>4, <1>b
<1>5. CASE Handing \subseteq Handing' /\ nrunning' >= nrunning /\ waitingcpu # {}
  <2>1. Cardinality(Handing) <= Cardinality(Handing')
    BY <1>2, <1>5, NotMore
  <2> QED
    BY <1>2, <1>3, <1>5, <1>b, <2>1
<1>6. ASSUME waitingcpu # {}, NEW th \in Threads, th \notin Handing,
             Handing \cup {th} \subseteq Handing', nrunning' = nrunning - 1
      PROVE  nrunning' + Cardinality(Handing') >= NCpus
  <2>1. Cardinality(Handing \cup {th}) = Cardinality(Handing) + 1
    BY <1>2, <1>6, OneMore
  <2>2. Cardinality(Handing \cup {th}) <= Cardinality(Handing')
    BY <1>2, <1>6, NotMore
  <2> QED
    BY <1>2, <1>3, <1>6, <1>b, <2>1, <2>2
<1>7. ASSUME waitingcpu # {}, NEW th \in Handing, Handing \ {th} \subseteq Handing', nrunning' = nrunning + 1
      PROVE  nrunning' + Cardinality(Handing') >= NCpus
  <2>1. Cardinality(Handing \ {th}) = Cardinality(Handing) - 1
    BY <1>2, <1>7, OneLess
  <2>2. Cardinality(Handing \ {th}) <= Cardinality(Handing')
    BY <1>2, <1>7, NotMore
  <2> QED
    BY <1>2, <1>3, <1>7, <1>b, <2>1, <2>2
<1> QED
  BY <1>a, <1>4, <1>5, <1>6, <1>7 DEF HandingChange

-----------------------------------------------------------------------------
(* The sources.  Most steps leave all of it as it is: the tasks in the     *)
(* queues and in work, the sources and who waits for which one.            *)

Still ==
    /\ UNCHANGED <<tsroot, sst, pos, npending, srunning, children, lq, cur>>
    /\ \A w \in Workers : cur[w] # NoTask /\ Nested[cur[w]] # NoSource =>
          /\ pc'[w] \in Calling <=> pc[w] \in Calling
          /\ pc'[w] \in After => pc[w] \in After \/ AllDone(Nested[cur[w]])

SourceStep == \/ \E w \in Workers : \/ FirstPull(w) \/ BatchPull(w) \/ StartTask(w)
                                    \/ SubmitNested(w) \/ notify_finish_task(w)
                                    \/ SubmitReturns(w)
              \/ SubmitRoot \/ RootReturns

(* Every step leaves the sources alone or is one of SourceStep.            *)
LEMMA StillStep ==
    ASSUME Inv, Next
    PROVE  Still \/ SourceStep
<1> USE DEF Go, vars, poolVars, lists, srcVars, thrVars, Threads, Unlocked, TypeOK, Calling, After, InTask
<1>a. TypeOK /\ PcInv /\ TaskInv /\ QueueInv
  BY DEF Inv, PoolInv
<1> USE ThreadAssumption
<1>1. ASSUME NEW w \in Workers, WorkerStarts(w) PROVE Still \/ SourceStep
  BY <1>a, <1>1 DEF WorkerStarts, Still
<1>2. ASSUME NEW w \in Workers, LoopIdle(w) PROVE Still \/ SourceStep
  BY <1>a, <1>2 DEF LoopIdle, Still
<1>3. ASSUME NEW w \in Workers, SigWake(w) PROVE Still \/ SourceStep
  BY <1>a, <1>3 DEF SigWake, Still
<1>4. ASSUME NEW w \in Workers, CheckTerm(w) PROVE Still \/ SourceStep
  BY <1>a, <1>4 DEF CheckTerm, Still
<1>5. ASSUME NEW w \in Workers, LoopRunning(w) PROVE Still \/ SourceStep
  BY <1>a, <1>5 DEF LoopRunning, Still
<1>6. ASSUME NEW w \in Workers, FirstPull(w) PROVE Still \/ SourceStep
  BY <1>6 DEF SourceStep
<1>7. ASSUME NEW w \in Workers, FirstSpawn(w) PROVE Still \/ SourceStep
  BY <1>a, <1>7 DEF FirstSpawn, Still
<1>8. ASSUME NEW w \in Workers, StartTask(w) PROVE Still \/ SourceStep
  BY <1>8 DEF SourceStep
<1>9. ASSUME NEW w \in Workers, QueueEmpty(w) PROVE Still \/ SourceStep
  BY <1>a, <1>9 DEF QueueEmpty, Still
<1>10. ASSUME NEW w \in Workers, BatchPull(w) PROVE Still \/ SourceStep
  BY <1>10 DEF SourceStep
<1>11. ASSUME NEW w \in Workers, BatchSpawn(w) PROVE Still \/ SourceStep
  BY <1>a, <1>11 DEF BatchSpawn, Still
<1>12. ASSUME NEW w \in Workers, Settle(w) PROVE Still \/ SourceStep
  <2>1. Settled(w)
    BY <1>a, <1>12, SettleCases
  <2> QED
    BY <1>a, <2>1 DEF Settled, Still
<1>13. ASSUME NEW w \in Workers, Yield(w) PROVE Still \/ SourceStep
  BY <1>a, <1>13 DEF Yield, Still
<1>14. ASSUME NEW w \in Workers, WorkerExits(w) PROVE Still \/ SourceStep
  <2>1. lq[w] = <<>>
    BY <1>a, <1>14 DEF WorkerExits, QueueInv, Working, InTaskPcs
  <2>2. lq' = lq
    BY <1>a, <1>14, <2>1 DEF WorkerExits
  <2> QED
    BY <1>a, <1>14, <2>2 DEF WorkerExits, Still
<1>15. ASSUME NEW w \in Workers, SubmitNested(w) PROVE Still \/ SourceStep
  BY <1>15 DEF SourceStep
<1>16. ASSUME NEW w \in Workers, TaskThrows(w) PROVE Still \/ SourceStep
  BY <1>a, <1>16 DEF TaskThrows, Still
<1>17. ASSUME NEW w \in Workers, notify_exception(w) PROVE Still \/ SourceStep
  BY <1>a, <1>17 DEF notify_exception, Still
<1>18. ASSUME NEW w \in Workers, notify_finish_task(w) PROVE Still \/ SourceStep
  BY <1>18 DEF SourceStep
<1>19. ASSUME NEW w \in Workers, ReleaseCheck(w) PROVE Still \/ SourceStep
  <2>1. Checked(w)
    BY <1>a, <1>19, ReleaseCheckCases
  <2>2. CASE pc' = [pc EXCEPT ![w] = "rel2"]
    <3>1. pc[w] = "rel" /\ UNCHANGED <<tsroot, sst, pos, npending, srunning, children, lq, cur>>
      BY <2>1 DEF Checked
    <3> QED
      BY <1>a, <2>2, <3>1 DEF Still
  <2>3. CASE \E u \in Workers : pc[u] = "unborn" /\ u # w /\ pc'[w] = "relwait" /\ pc'[u] = "born" /\ (\A v \in Threads : v # w /\ v # u => pc'[v] = pc[v])
    <3>1. pc[w] = "rel" /\ UNCHANGED <<tsroot, sst, pos, npending, srunning, children, lq, cur>>
      BY <2>1 DEF Checked
    <3> QED
      BY <1>a, <2>3, <3>1 DEF Still
  <2> QED
    BY <2>1, <2>2, <2>3 DEF Checked
<1>20. ASSUME NEW w \in Workers, CreatedReady(w) PROVE Still \/ SourceStep
  BY <1>a, <1>20 DEF CreatedReady, Still
<1>21. ASSUME NEW w \in Workers, ReleaseMove(w) PROVE Still \/ SourceStep
  BY <1>a, <1>21 DEF ReleaseMove, Still
<1>22. ASSUME NEW w \in Workers, ExternalEvent(w) PROVE Still \/ SourceStep
  <2>1. Nested[cur[w]] = NoSource
    BY <1>a, <1>22 DEF ExternalEvent, TaskInv
  <2> QED
    BY <1>a, <1>22, <2>1 DEF ExternalEvent, Still
<1>23. ASSUME NEW w \in Workers, Acquire(w) PROVE Still \/ SourceStep
  <2>1. Acquired(w)
    BY <1>a, <1>23, AcquireCases
  <2> QED
    BY <1>a, <2>1 DEF Acquired, Still
<1>24. ASSUME NEW w \in Workers, CpuWake(w) PROVE Still \/ SourceStep
  BY <1>a, <1>24 DEF CpuWake, Still
<1>25. ASSUME NEW w \in Workers, CpuCheck(w) PROVE Still \/ SourceStep
  BY <1>a, <1>25 DEF CpuCheck, AfterAcquire, Still
<1>26. ASSUME NEW w \in Workers, SubmitReturns(w) PROVE Still \/ SourceStep
  BY <1>26 DEF SourceStep
<1>27. ASSUME NEW th \in Threads, ReleaseActivate(th) PROVE Still \/ SourceStep
  BY <1>a, <1>27 DEF ReleaseActivate, Still
<1>28. ASSUME NEW th \in Threads, WaitCheck(th) PROVE Still \/ SourceStep
  <2>1. /\ pc[th] = "tswait" /\ UNCHANGED <<tsroot, sst, pos, npending, srunning, children, lq, cur>>
        /\ \E l \in {"tsblock", "unsub", "acq"} : pc' = [pc EXCEPT ![th] = l] /\ (l = "tsblock" \/ AllDone(Awaited(th)))
    BY <1>28 DEF WaitCheck, AllDone
  <2>2. th \in Workers => Awaited(th) = Nested[cur[th]]
    BY DEF Awaited
  <2> QED
    BY <1>a, <2>1, <2>2 DEF Still
<1>29. ASSUME NEW th \in Threads, WaitWake(th) PROVE Still \/ SourceStep
  BY <1>a, <1>29 DEF WaitWake, Still
<1>30. ASSUME SubmitRoot PROVE Still \/ SourceStep
  BY <1>30 DEF SourceStep
<1>31. ASSUME RootReturns PROVE Still \/ SourceStep
  BY <1>31 DEF SourceStep
<1>32. ASSUME SetTerm PROVE Still \/ SourceStep
  BY <1>a, <1>32 DEF SetTerm, Still
<1>33. ASSUME TerminateNext PROVE Still \/ SourceStep
  <2>1. Ended
    BY <1>a, <1>33, TerminateCases
  <2> QED
    BY <1>a, <2>1 DEF Ended, Still
<1>34. ASSUME Join PROVE Still \/ SourceStep
  BY <1>a, <1>34 DEF Join, Still
<1>35. ASSUME Finished PROVE Still \/ SourceStep
  BY <1>a, <1>35 DEF Finished, Still
<1> QED
  BY <1>1, <1>2, <1>3, <1>4, <1>5, <1>6, <1>7, <1>8, <1>9, <1>10, <1>11, <1>12, <1>13, <1>14, <1>15, <1>16, <1>17, <1>18, <1>19, <1>20, <1>21, <1>22, <1>23, <1>24, <1>25, <1>26, <1>27, <1>28, <1>29, <1>30, <1>31, <1>32, <1>33, <1>34, <1>35 DEF Next, WorkerMain, TaskBody, AnyThread, Client

(* A source with a task in a queue or in work is not done. *)
LEMMA NotDone ==
    ASSUME Inv, NEW s \in Source, AllDone(s)
    PROVE  /\ \A w \in Workers : cur[w] \notin InSource(s)
           /\ \A w \in Workers : \A i \in DOMAIN lq[w] : lq[w][i] \notin InSource(s)
           /\ children[s] = <<>> /\ ~HasMore(s) /\ npending[s] = 0 /\ srunning[s] = 0
<1>1. npending[s] = 0 /\ srunning[s] = 0 /\ children[s] = <<>> /\ ~HasMore(s)
  BY DEF AllDone, IsAllDone
<1>2. Cardinality(QueuedOf(s)) = 0 /\ Cardinality(RunnersOf(s)) = 0
  BY <1>1 DEF Inv, SourceInv, CountInv
<1>3. IsFiniteSet(RunnersOf(s))
  BY FiniteAssumption, NotMore DEF RunnersOf
<1>4. QueuedOf(s) \subseteq Task
  BY SourceOfTask DEF QueuedOf
<1>5. IsFiniteSet(QueuedOf(s))
  BY <1>4, FiniteAssumption, NotMore
<1>6. QueuedOf(s) = {} /\ RunnersOf(s) = {}
  BY <1>2, <1>3, <1>5, FS_EmptySet
<1> QED
  BY <1>1, <1>6 DEF QueuedOf, RunnersOf, Queued

(* The invariant of the sources survives a step that leaves them. *)
LEMMA StillKeeps ==
    ASSUME Inv, Still, TaskInv'
    PROVE  OpenInv' /\ CallInv' /\ ChildInv' /\ PosInv' /\ HeldInv' /\ OnceInv' /\ CountInv'
<1>a. TypeOK /\ SourceInv
  BY DEF Inv
<1> USE DEF Still
<1>1. \A w \in Workers : \A s \in Source : Calls(w, s)' <=> Calls(w, s)
  <2> SUFFICES ASSUME NEW w \in Workers, NEW s \in Source PROVE Calls(w, s)' <=> Calls(w, s)
    OBVIOUS
  <2> QED
    BY ProgramAssumption DEF Calls
<1>2. OpenInv'
  BY <1>a, <1>1 DEF SourceInv, OpenInv
<1>3. \A s : AllDone(s)' <=> AllDone(s)
  BY DEF AllDone, IsAllDone, HasMore
<1>4. CallInv'
  <2> SUFFICES ASSUME NEW w \in Workers, NEW s \in Source, Calls(w, s)'
               PROVE  /\ sst'[s] = "open"
                      /\ \E i \in DOMAIN children'[SourceOf(cur'[w])] : children'[SourceOf(cur'[w])][i] = s
                      /\ pc'[w] \in After => AllDone(s)'
    BY DEF CallInv, SourceOf
  <2>1. Calls(w, s)
    BY <1>1
  <2>2. /\ sst[s] = "open"
        /\ \E i \in DOMAIN children[SourceOf(cur[w])] : children[SourceOf(cur[w])][i] = s
        /\ pc[w] \in After => AllDone(s)
    BY <1>a, <2>1 DEF SourceInv, CallInv
  <2>3. pc'[w] \in After => AllDone(s)
    BY <2>1, <2>2, ProgramAssumption DEF Calls
  <2> QED
    BY <1>3, <2>2, <2>3
<1>5. ChildInv'
  <2> SUFFICES ASSUME NEW p \in Source, NEW i \in DOMAIN children[p]
               PROVE  /\ \E w \in Workers : Calls(w, children[p][i])' /\ cur'[w] \in InSource(p)
                      /\ \A j \in DOMAIN children[p] : children[p][i] = children[p][j] => i = j
    BY DEF ChildInv, Calls
  <2>1. children[p][i] \in Source
    BY <1>a, LenProperties, ElementOfSeq DEF TypeOK
  <2> QED
    BY <1>a, <1>1, <2>1 DEF SourceInv, ChildInv
<1>6. PosInv' /\ HeldInv' /\ OnceInv'
  BY <1>a DEF SourceInv, PosInv, HeldInv, OnceInv, OpenTask, TakenOf
<1>7. CountInv'
  <2>1. \A s \in Source : QueuedOf(s)' = QueuedOf(s) /\ RunnersOf(s)' = RunnersOf(s)
    BY <1>a DEF QueuedOf, RunnersOf, Queued
  <2>2. \A s \in Source : npending[s] = Cardinality(QueuedOf(s)) /\ srunning[s] = Cardinality(RunnersOf(s))
    BY DEF Inv, SourceInv, CountInv
  <2>3. UNCHANGED <<npending, srunning>>
    BY <1>a
  <2> QED
    BY <2>1, <2>2, <2>3 DEF CountInv
<1> QED
  BY <1>2, <1>4, <1>5, <1>6, <1>7

OpenAfter(t) == \E s \in Source : sst'[s] = "open" /\ \E i \in 1..pos'[s] : t = TaskSeq[s][i]

(* HeldInv after a step, from the tasks that are open then.                *)
LEMMA HeldAfter ==
    ASSUME \A w \in Workers : /\ cur'[w] # NoTask => OpenAfter(cur'[w])
                              /\ \A i \in DOMAIN lq'[w] : OpenAfter(lq'[w][i])
    PROVE  HeldInv'
  BY DEF HeldInv, OpenTask, TakenOf, OpenAfter

(* Tasks taken earlier stay taken. *)
LEMMA StillTaken ==
    ASSUME TypeOK, PosInv, \A s \in Source : sst[s] = "open" => sst'[s] = "open",
           \A s \in Source : pos'[s] \in Nat /\ pos[s] <= pos'[s], NEW t, OpenTask(t)
    PROVE  OpenAfter(t)
<1>1. PICK s \in Source : sst[s] = "open" /\ \E i \in 1..pos[s] : t = TaskSeq[s][i]
  BY DEF OpenTask, TakenOf
<1>2. PICK i \in 1..pos[s] : t = TaskSeq[s][i]
  BY <1>1
<1>3. i \in 1..pos'[s]
  BY DEF TypeOK
<1> QED
  BY <1>1, <1>2, <1>3 DEF OpenAfter

(* The tasks of a batch come straight from the source into the queue. *)
NewTasks(s, n) == {TaskSeq[s][pos[s] + i] : i \in 1..n}

(* A batch puts untaken tasks of its source into a queue.                  *)
LEMMA BatchQueued ==
    ASSUME TypeOK, PosInv, NEW w \in Workers, NEW s \in Source, NEW n \in Nat,
           PullsBatch(w, s, n), lq[w] = <<>>
    PROVE  /\ NewTasks(s, n) \subseteq InSource(s)
           /\ \A t \in NewTasks(s, n) : ~Taken(t)
           /\ \A t : Queued(t)' <=> Queued(t) \/ t \in NewTasks(s, n)
           /\ \A t : Taken(t)' <=> Taken(t) \/ t \in NewTasks(s, n)
<1> DEFINE new == NewTasks(s, n)
<1>b. pos[s] \in Nat /\ pos' = [pos EXCEPT ![s] = pos[s] + n]
  BY DEF PullsBatch, TypeOK
<1>c. /\ \A v \in Workers : v # w => lq'[v] = lq[v]
      /\ DOMAIN lq'[w] = 1..n
      /\ \A i \in 1..n : /\ pos[s] + i \in DOMAIN TaskSeq[s]
                         /\ lq'[w][i] = TaskSeq[s][pos[s] + i]
  BY AfterBatch
<1>d. DOMAIN lq[w] = {}
  OBVIOUS
<1>1. new \subseteq InSource(s)
  BY <1>c DEF InSource, NewTasks
<1>2. ASSUME NEW i \in 1..n PROVE ~Taken(TaskSeq[s][pos[s] + i])
  <2> SUFFICES ASSUME NEW r \in Source, NEW j \in 1..pos[r], TaskSeq[r][j] = TaskSeq[s][pos[s] + i]
               PROVE  FALSE
    BY DEF Taken
  <2>1. j \in DOMAIN TaskSeq[r]
    <3>1. TaskSeq[r] \in Seq(Task) /\ pos[r] \in Nat /\ pos[r] <= Len(TaskSeq[r])
      BY ProgramAssumption DEF TypeOK, PosInv
    <3>2. DOMAIN TaskSeq[r] = 1..Len(TaskSeq[r]) /\ Len(TaskSeq[r]) \in Nat
      BY <3>1, LenProperties
    <3> QED
      BY <3>1, <3>2
  <2>2. r = s /\ j = pos[s] + i
    BY <1>c, <2>1, OnceAssumption
  <2> QED
    BY <1>b, <2>2
<1>3. \A t : Queued(t)' <=> Queued(t) \/ t \in new
  <2> TAKE t
  <2>1. ASSUME Queued(t)' PROVE Queued(t) \/ t \in new
    <3>1. PICK v \in Workers : \E i \in DOMAIN lq'[v] : lq'[v][i] = t
      BY <2>1 DEF Queued
    <3> QED
      BY <1>c, <3>1 DEF Queued, NewTasks
  <2>2. ASSUME Queued(t) PROVE Queued(t)'
    <3>1. PICK v \in Workers : \E i \in DOMAIN lq[v] : lq[v][i] = t
      BY <2>2 DEF Queued
    <3>2. v # w
      BY <1>d, <3>1
    <3> QED
      BY <1>c, <3>1, <3>2 DEF Queued
  <2>3. ASSUME t \in new PROVE Queued(t)'
    BY <1>c, <2>3 DEF Queued, NewTasks
  <2> QED
    BY <2>1, <2>2, <2>3
<1>4. \A t : Taken(t)' <=> Taken(t) \/ t \in new
  <2>1. \A r \in Source : pos'[r] = IF r = s THEN pos[s] + n ELSE pos[r]
    BY <1>b DEF TypeOK
  <2>2. \A j : j \in 1..(pos[s] + n) <=> j \in 1..pos[s] \/ \E i \in 1..n : j = pos[s] + i
    <3> DEFINE p == pos[s]
    <3>1. p \in Nat
      BY <1>b
    <3> HIDE DEF p
    <3>2. ASSUME NEW j \in 1..(p + n), j \notin 1..p PROVE \E i \in 1..n : j = p + i
      <4>1. j - p \in 1..n /\ j = p + (j - p)
        BY <3>1, <3>2
      <4> QED
        BY <4>1
    <3>3. \A j \in 1..p : j \in 1..(p + n)
      BY <3>1
    <3>4. \A i \in 1..n : p + i \in 1..(p + n)
      BY <3>1
    <3>5. \A j : j \in 1..(p + n) <=> j \in 1..p \/ \E i \in 1..n : j = p + i
      BY <3>2, <3>3, <3>4
    <3> QED
      BY <3>5 DEF p
  <2> TAKE t
  <2>3. ASSUME Taken(t)' PROVE Taken(t) \/ t \in new
    <3>1. PICK r \in Source : \E j \in 1..pos'[r] : TaskSeq[r][j] = t
      BY <2>3 DEF Taken
    <3> QED
      BY <2>1, <2>2, <3>1 DEF Taken, NewTasks
  <2>4. ASSUME Taken(t) PROVE Taken(t)'
    <3>1. PICK r \in Source : \E j \in 1..pos[r] : TaskSeq[r][j] = t
      BY <2>4 DEF Taken
    <3> QED
      BY <2>1, <2>2, <3>1 DEF Taken
  <2>5. ASSUME t \in new PROVE Taken(t)'
    <3>1. PICK i \in 1..n : t = TaskSeq[s][pos[s] + i]
      BY <2>5 DEF NewTasks
    <3>2. pos[s] + i \in 1..pos'[s]
      BY <2>1, <2>2
    <3> QED
      BY <3>1, <3>2 DEF Taken
  <2> QED
    BY <2>3, <2>4, <2>5
<1> QED
  BY <1>1, <1>2, <1>3, <1>4 DEF NewTasks

(* A batch: tasks that nobody has. *)
LEMMA BatchKeeps ==
    ASSUME Inv, NEW w \in Workers, NEW s \in Source, NEW n \in Nat, PullsBatch(w, s, n),
           cur' = cur, tsroot' = tsroot, lq[w] = <<>>,
           \A v \in Workers : (pc'[v] \in Calling <=> pc[v] \in Calling) /\ (pc'[v] \in After <=> pc[v] \in After)
    PROVE  OpenInv' /\ CallInv' /\ ChildInv' /\ PosInv' /\ HeldInv' /\ OnceInv' /\ CountInv'
<1>a. TypeOK /\ SourceInv /\ PosInv
  BY DEF Inv, SourceInv
<1>b. /\ sst[s] = "open" /\ pos[s] + n <= Len(TaskSeq[s]) /\ HasMore(s)
      /\ pos' = [pos EXCEPT ![s] = pos[s] + n]
      /\ npending' = [npending EXCEPT ![s] = npending[s] + n]
      /\ UNCHANGED <<sst, srunning, children>>
  BY DEF PullsBatch
<1>c. /\ lq' \in [Workers -> Seq(Task)]
      /\ \A v \in Workers : v # w => lq'[v] = lq[v]
      /\ DOMAIN lq'[w] = 1..n
      /\ \A i \in 1..n : /\ pos[s] + i \in DOMAIN TaskSeq[s]
                         /\ lq'[w][i] = TaskSeq[s][pos[s] + i]
  BY <1>a, AfterBatch
<1>d. DOMAIN lq[w] = {} /\ pos[s] \in Nat
  BY <1>a DEF TypeOK
<1>q. /\ NewTasks(s, n) \subseteq InSource(s)
      /\ \A t \in NewTasks(s, n) : ~Taken(t)
      /\ \A t : Queued(t)' <=> Queued(t) \/ t \in NewTasks(s, n)
  BY <1>a, BatchQueued DEF SourceInv
<1>1. \A v \in Workers : \A r : Calls(v, r)' <=> Calls(v, r)
  BY DEF Calls
<1>2. ASSUME NEW r \in Source, AllDone(r) PROVE AllDone(r)'
  <2>1. r # s
    BY <1>b, <1>2 DEF AllDone, IsAllDone
  <2> QED
    BY <1>a, <1>b, <1>2, <2>1 DEF AllDone, IsAllDone, HasMore, TypeOK
<1>3. OpenInv' /\ ChildInv'
  BY <1>a, <1>b, <1>1 DEF SourceInv, OpenInv, ChildInv
<1>4. CallInv'
  <2> SUFFICES ASSUME NEW v \in Workers, NEW r \in Source, Calls(v, r)'
               PROVE  /\ sst'[r] = "open"
                      /\ \E i \in DOMAIN children'[SourceOf(cur'[v])] : children'[SourceOf(cur'[v])][i] = r
                      /\ pc'[v] \in After => AllDone(r)'
    BY DEF CallInv, SourceOf
  <2>1. Calls(v, r)
    BY <1>1
  <2>2. /\ sst[r] = "open"
        /\ \E i \in DOMAIN children[SourceOf(cur[v])] : children[SourceOf(cur[v])][i] = r
        /\ pc[v] \in After => AllDone(r)
    BY <1>a, <2>1 DEF SourceInv, CallInv
  <2> QED
    BY <1>b, <1>2, <2>2
<1>5. PosInv' /\ \A r \in Source : pos'[r] \in Nat /\ pos[r] <= pos'[r]
  <2>1. pos \in [Source -> Nat]
    BY <1>a DEF TypeOK
  <2>2. pos'[s] = pos[s] + n /\ \A r \in Source : r # s => pos'[r] = pos[r]
    BY <1>b, <2>1
  <2>3. \A r \in Source : pos[r] \in Nat /\ pos'[r] \in Nat /\ pos[r] <= pos'[r]
    BY <2>1, <2>2
  <2>4. \A r \in Source : pos[r] <= Len(TaskSeq[r])
    BY <1>a DEF PosInv
  <2>5. \A r \in Source : pos'[r] <= Len(TaskSeq[r])
    BY <1>b, <2>2, <2>4
  <2> QED
    BY <2>3, <2>5 DEF PosInv
<1>6. \A t : OpenTask(t) => OpenAfter(t)
  BY <1>a, <1>b, <1>5, StillTaken
<1>7. ASSUME NEW i \in 1..n PROVE OpenAfter(lq'[w][i])
  <2>1. pos[s] + i \in 1..pos'[s]
    BY <1>a, <1>b, <1>d DEF TypeOK
  <2>2. lq'[w][i] = TaskSeq[s][pos[s] + i]
    BY <1>c
  <2> QED
    BY <1>b, <2>1, <2>2 DEF OpenAfter
<1>8. HeldInv'
  <2> SUFFICES ASSUME NEW v \in Workers
               PROVE  /\ cur[v] # NoTask => OpenAfter(cur[v])
                      /\ \A i \in DOMAIN lq'[v] : OpenAfter(lq'[v][i])
    BY HeldAfter
  <2>1. /\ cur[v] # NoTask => OpenTask(cur[v])
        /\ \A i \in DOMAIN lq[v] : OpenTask(lq[v][i])
    BY <1>a DEF SourceInv, HeldInv
  <2> QED
    BY <1>6, <1>7, <1>c, <2>1
<1>9. ASSUME NEW i \in 1..n, NEW t, OpenTask(t) PROVE t # lq'[w][i]
  <2>1. Taken(t)
    BY <1>9 DEF OpenTask, TakenOf, Taken
  <2>2. lq'[w][i] \in NewTasks(s, n)
    BY <1>c DEF NewTasks
  <2> QED
    BY <1>q, <2>1, <2>2
<1>10. ASSUME NEW i \in 1..n, NEW j \in 1..n, lq'[w][i] = lq'[w][j] PROVE i = j
  <2>1. pos[s] + i = pos[s] + j
    BY <1>c, <1>10, OnceAssumption
  <2> QED
    BY <1>d, <2>1
<1>11. OnceInv'
  <2> SUFFICES ASSUME NEW u \in Workers, NEW v \in Workers
               PROVE  /\ cur[u] = cur[v] /\ cur[u] # NoTask => u = v
                      /\ \A i \in DOMAIN lq'[u] : cur[v] # lq'[u][i]
                      /\ \A i \in DOMAIN lq'[u] : \A j \in DOMAIN lq'[v] :
                            lq'[u][i] = lq'[v][j] => u = v /\ i = j
    BY DEF OnceInv
  <2>1. /\ cur[u] = cur[v] /\ cur[u] # NoTask => u = v
        /\ \A i \in DOMAIN lq[u] : cur[v] # lq[u][i]
        /\ \A i \in DOMAIN lq[u] : \A j \in DOMAIN lq[v] : lq[u][i] = lq[v][j] => u = v /\ i = j
    BY <1>a DEF SourceInv, OnceInv
  <2>2. /\ cur[v] # NoTask => OpenTask(cur[v])
        /\ \A i \in DOMAIN lq[u] : OpenTask(lq[u][i])
        /\ \A i \in DOMAIN lq[v] : OpenTask(lq[v][i])
    BY <1>a DEF SourceInv, HeldInv
  <2>3. ASSUME NEW i \in DOMAIN lq'[u] PROVE cur[v] # lq'[u][i]
    <3>1. lq'[u][i] # NoTask
      BY <1>c, ProgramAssumption, ElementOfSeq, LenProperties
    <3> QED
      BY <1>9, <1>c, <2>1, <2>2, <2>3, <3>1
  <2>4. ASSUME NEW i \in DOMAIN lq'[u], NEW j \in DOMAIN lq'[v], lq'[u][i] = lq'[v][j]
        PROVE  u = v /\ i = j
    <3>1. CASE u = w /\ v = w
      BY <1>10, <1>c, <2>4, <3>1
    <3>2. CASE u # w /\ v = w
      BY <1>9, <1>c, <2>2, <2>4, <3>2
    <3>3. CASE u = w /\ v # w
      BY <1>9, <1>c, <2>2, <2>4, <3>3
    <3>4. CASE u # w /\ v # w
      BY <1>c, <2>1, <2>4, <3>4
    <3> QED
      BY <3>1, <3>2, <3>3, <3>4
  <2> QED
    BY <2>1, <2>3, <2>4
<1> DEFINE new == NewTasks(s, n)
<1>12. new \subseteq InSource(s) /\ \A t \in new : ~Queued(t)
  <2>1. \A t : Queued(t) => OpenTask(t)
    BY <1>a DEF Queued, SourceInv, HeldInv
  <2>2. \A t : OpenTask(t) => Taken(t)
    BY DEF OpenTask, TakenOf, Taken
  <2> QED
    BY <1>q, <2>1, <2>2
<1>13. \A t : Queued(t)' <=> Queued(t) \/ t \in new
  BY <1>q
<1>14. IsFiniteSet(new) /\ Cardinality(new) = n
  <2> DEFINE f == [i \in 1..n |-> TaskSeq[s][pos[s] + i]]
  <2>1. \A i, j \in 1..n : f[i] = f[j] => i = j
    BY <1>10, <1>c
  <2>2. f \in Surjection(1..n, new) /\ f \in Injection(1..n, new)
    BY <2>1 DEF Injection, Surjection, IsInjective, NewTasks
  <2>3. IsFiniteSet(1..n) /\ Cardinality(1..n) = n
    <3>1. IsFiniteSet(1..n) /\ Cardinality(1..n) = IF 1 > n THEN 0 ELSE n - 1 + 1
      BY FS_Interval
    <3> QED
      BY <3>1
  <2> HIDE DEF f, new
  <2> QED
    BY <2>2, <2>3, FS_Surjection
<1>15. CountInv'
  <2> SUFFICES ASSUME NEW r \in Source
               PROVE  /\ npending'[r] = Cardinality(QueuedOf(r)')
                      /\ srunning'[r] = Cardinality(RunnersOf(r)')
    BY DEF CountInv, QueuedOf, RunnersOf, Queued
  <2>1. npending[r] = Cardinality(QueuedOf(r)) /\ srunning[r] = Cardinality(RunnersOf(r))
    BY <1>a DEF SourceInv, CountInv
  <2>2. RunnersOf(r)' = RunnersOf(r)
    BY DEF RunnersOf
  <2>3. QueuedOf(r)' = {t \in InSource(r) : Queued(t)'}
    BY DEF QueuedOf, Queued
  <2>4. CASE r = s
    <3>1. QueuedOf(r)' = QueuedOf(r) \cup new /\ QueuedOf(r) \cap new = {}
      BY <1>12, <1>13, <2>3, <2>4 DEF QueuedOf
    <3>2. QueuedOf(r) \subseteq Task
      BY SourceOfTask DEF QueuedOf
    <3>3. IsFiniteSet(QueuedOf(r)) /\ Cardinality(QueuedOf(r)) \in Nat
      BY <3>2, FiniteAssumption, NotMore
    <3>4. Cardinality(QueuedOf(r) \cup new) = Cardinality(QueuedOf(r)) + Cardinality(new) - Cardinality(QueuedOf(r) \cap new)
      BY <1>14, <3>3, FS_Union
    <3>a. Cardinality(QueuedOf(r) \cap new) = 0
      BY <3>1, FS_EmptySet
    <3>5. Cardinality(QueuedOf(r)') = npending[r] + n
      BY <1>14, <2>1, <3>1, <3>3, <3>4, <3>a
    <3> QED
      BY <1>a, <1>b, <2>1, <2>2, <2>4, <3>5 DEF TypeOK
  <2>5. CASE r # s
    <3>1. \A t \in InSource(r) : t \notin new
      BY <1>12, <2>5, SourceOfTask
    <3>2. QueuedOf(r)' = QueuedOf(r)
      BY <1>13, <2>3, <3>1 DEF QueuedOf
    <3> QED
      BY <1>a, <1>b, <2>1, <2>2, <2>5, <3>2 DEF TypeOK
  <2> QED
    BY <2>4, <2>5
<1> QED
  BY <1>3, <1>4, <1>5, <1>8, <1>11, <1>15

(* Who calls which source does not change. *)
LEMMA CallsKeep ==
    ASSUME TypeOK, OpenInv, CallInv, ChildInv, UNCHANGED <<tsroot, sst, children>>,
           \A v \in Workers : \A r \in Source :
              /\ Calls(v, r)' <=> Calls(v, r)
              /\ Calls(v, r) => cur'[v] = cur[v] /\ (pc'[v] \in After => pc[v] \in After),
           \A r \in Source : AllDone(r) => AllDone(r)'
    PROVE  OpenInv' /\ CallInv' /\ ChildInv'
<1>1. OpenInv'
  BY DEF OpenInv
<1>2. CallInv'
  <2> SUFFICES ASSUME NEW v \in Workers, NEW r \in Source, Calls(v, r)'
               PROVE  /\ sst'[r] = "open"
                      /\ \E i \in DOMAIN children'[SourceOf(cur'[v])] : children'[SourceOf(cur'[v])][i] = r
                      /\ pc'[v] \in After => AllDone(r)'
    BY DEF CallInv, SourceOf
  <2>1. Calls(v, r) /\ cur'[v] = cur[v] /\ (pc'[v] \in After => pc[v] \in After)
    OBVIOUS
  <2>2. /\ sst[r] = "open"
        /\ \E i \in DOMAIN children[SourceOf(cur[v])] : children[SourceOf(cur[v])][i] = r
        /\ pc[v] \in After => AllDone(r)
    BY <2>1 DEF CallInv
  <2> QED
    BY <2>1, <2>2
<1>3. ChildInv'
  <2> SUFFICES ASSUME NEW p \in Source, NEW i \in DOMAIN children[p]
               PROVE  /\ \E v \in Workers : Calls(v, children[p][i])' /\ cur'[v] \in InSource(p)
                      /\ \A j \in DOMAIN children[p] : children[p][i] = children[p][j] => i = j
    BY DEF ChildInv, Calls
  <2>1. children[p][i] \in Source
    BY LenProperties, ElementOfSeq DEF TypeOK
  <2>2. PICK v \in Workers : Calls(v, children[p][i]) /\ cur[v] \in InSource(p)
    BY DEF ChildInv
  <2>3. Calls(v, children[p][i])' /\ cur'[v] = cur[v]
    BY <2>1, <2>2
  <2> QED
    BY <2>2, <2>3 DEF ChildInv
<1> QED
  BY <1>1, <1>2, <1>3

(* A theft leaves every task in a queue. *)
LEMMA TheftQueued ==
    ASSUME TypeOK, NEW w \in Workers, NEW v \in Workers, Steals(w, v), lq[w] = <<>>
    PROVE  \A t : Queued(t)' <=> Queued(t)
<1> DEFINE n == Len(lq[v])
<1>1. /\ \A u \in Workers : u # w /\ u # v => lq'[u] = lq[u]
      /\ n \in DOMAIN lq[v]
      /\ \A i \in DOMAIN lq'[v] : i \in DOMAIN lq[v] /\ lq'[v][i] = lq[v][i]
      /\ \A i \in DOMAIN lq[v] : i # n => i \in DOMAIN lq'[v] /\ lq'[v][i] = lq[v][i]
      /\ DOMAIN lq'[w] = {1} /\ lq'[w][1] = lq[v][n]
  <2>1. /\ \A u \in Workers : u # w /\ u # v => lq'[u] = lq[u]
        /\ n \in Nat \ {0} /\ DOMAIN lq[v] = 1..n /\ DOMAIN lq'[v] = 1..(n - 1)
        /\ \A i \in 1..(n - 1) : lq'[v][i] = lq[v][i]
        /\ DOMAIN lq'[w] = {1} /\ lq'[w][1] = lq[v][n]
    BY AfterTheft
  <2> HIDE DEF n
  <2>2. n \in 1..n /\ (\A i \in 1..(n - 1) : i \in 1..n) /\ (\A i \in 1..n : i # n => i \in 1..(n - 1))
    BY <2>1
  <2> QED
    BY <2>1, <2>2
<1>2. DOMAIN lq[w] = {}
  OBVIOUS
<1> HIDE DEF n
<1> TAKE t
<1>3. ASSUME Queued(t)' PROVE Queued(t)
  <2>1. PICK u \in Workers : \E i \in DOMAIN lq'[u] : lq'[u][i] = t
    BY <1>3 DEF Queued
  <2> QED
    BY <1>1, <2>1 DEF Queued
<1>4. ASSUME Queued(t) PROVE Queued(t)'
  <2>1. PICK u \in Workers : \E i \in DOMAIN lq[u] : lq[u][i] = t
    BY <1>4 DEF Queued
  <2>2. PICK i \in DOMAIN lq[u] : lq[u][i] = t
    BY <2>1
  <2>3. CASE u = v /\ i = n
    BY <1>1, <2>2, <2>3 DEF Queued
  <2>4. CASE u = v /\ i # n
    BY <1>1, <2>2, <2>4 DEF Queued
  <2>5. CASE u # v
    BY <1>1, <1>2, <2>2, <2>5 DEF Queued
  <2> QED
    BY <2>3, <2>4, <2>5
<1> QED
  BY <1>3, <1>4

(* A theft: the task is in another queue. *)
LEMMA TheftKeeps ==
    ASSUME Inv, NEW w \in Workers, NEW v \in Workers, Steals(w, v),
           cur' = cur, tsroot' = tsroot, lq[w] = <<>>,
           \A u \in Workers : (pc'[u] \in Calling <=> pc[u] \in Calling) /\ (pc'[u] \in After <=> pc[u] \in After)
    PROVE  OpenInv' /\ CallInv' /\ ChildInv' /\ PosInv' /\ HeldInv' /\ OnceInv' /\ CountInv'
<1>a. TypeOK /\ SourceInv
  BY DEF Inv
<1>b. UNCHANGED <<sst, pos, npending, srunning, exc, alldone, children>>
  BY DEF Steals, srcVars
<1>c. /\ v # w
      /\ \A u \in Workers : u # w /\ u # v => lq'[u] = lq[u]
      /\ Len(lq[v]) \in Nat \ {0} /\ DOMAIN lq[v] = 1..Len(lq[v])
      /\ DOMAIN lq'[v] = 1..(Len(lq[v]) - 1)
      /\ \A i \in 1..(Len(lq[v]) - 1) : lq'[v][i] = lq[v][i]
      /\ DOMAIN lq'[w] = {1} /\ lq'[w][1] = lq[v][Len(lq[v])]
  BY <1>a, AfterTheft
<1> DEFINE n == Len(lq[v])
<1>d. n \in DOMAIN lq[v] /\ DOMAIN lq'[v] \subseteq DOMAIN lq[v] /\ n \notin DOMAIN lq'[v]
  BY <1>c
<1>e. DOMAIN lq[w] = {}
  OBVIOUS
<1>1. \A u \in Workers : \A r : Calls(u, r)' <=> Calls(u, r)
  BY DEF Calls
<1>2. \A r : AllDone(r)' <=> AllDone(r)
  BY <1>b DEF AllDone, IsAllDone, HasMore
<1>3. OpenInv' /\ CallInv' /\ ChildInv'
  BY <1>a, <1>b, <1>1, <1>2, CallsKeep DEF SourceInv
<1>4. PosInv'
  BY <1>a, <1>b DEF SourceInv, PosInv
<1> HIDE DEF n
<1>5. \A u \in Workers : u # w =>
          \A i \in DOMAIN lq'[u] : i \in DOMAIN lq[u] /\ lq'[u][i] = lq[u][i]
  BY <1>c, <1>d
<1>6. DOMAIN lq'[w] = {1} /\ lq'[w][1] = lq[v][n]
  BY <1>c DEF n
<1>7. HeldInv'
  <2> SUFFICES ASSUME NEW u \in Workers
               PROVE  /\ cur[u] # NoTask => OpenAfter(cur[u])
                      /\ \A i \in DOMAIN lq'[u] : OpenAfter(lq'[u][i])
    BY HeldAfter
  <2>1. \A t : OpenTask(t) => OpenAfter(t)
    BY <1>b DEF OpenTask, OpenAfter, TakenOf
  <2>2. /\ cur[u] # NoTask => OpenTask(cur[u])
        /\ \A i \in DOMAIN lq[u] : OpenTask(lq[u][i])
        /\ OpenTask(lq[v][n])
    BY <1>a, <1>d DEF SourceInv, HeldInv
  <2> QED
    BY <1>5, <1>6, <2>1, <2>2
<1>8. OnceInv'
  <2> SUFFICES ASSUME NEW a \in Workers, NEW b \in Workers
               PROVE  /\ cur[a] = cur[b] /\ cur[a] # NoTask => a = b
                      /\ \A i \in DOMAIN lq'[a] : cur[b] # lq'[a][i]
                      /\ \A i \in DOMAIN lq'[a] : \A j \in DOMAIN lq'[b] :
                            lq'[a][i] = lq'[b][j] => a = b /\ i = j
    BY DEF OnceInv
  <2>1. /\ cur[a] = cur[b] /\ cur[a] # NoTask => a = b
        /\ \A i \in DOMAIN lq[a] : cur[b] # lq[a][i]
        /\ \A i \in DOMAIN lq[a] : \A j \in DOMAIN lq[b] : lq[a][i] = lq[b][j] => a = b /\ i = j
        /\ cur[b] # lq[v][n]
        /\ \A i \in DOMAIN lq[a] : lq[a][i] = lq[v][n] => a = v /\ i = n
        /\ \A i \in DOMAIN lq[b] : lq[b][i] = lq[v][n] => b = v /\ i = n
    BY <1>a, <1>d DEF SourceInv, OnceInv
  <2>2. \A i \in DOMAIN lq'[a] : cur[b] # lq'[a][i]
    BY <1>5, <1>6, <2>1
  <2>3. ASSUME NEW i \in DOMAIN lq'[a], NEW j \in DOMAIN lq'[b], lq'[a][i] = lq'[b][j]
        PROVE  a = b /\ i = j
    <3>1. CASE a = w /\ b = w
      BY <1>6, <3>1
    <3>2. CASE a = w /\ b # w
      BY <1>5, <1>6, <1>d, <2>1, <2>3, <3>2
    <3>3. CASE a # w /\ b = w
      BY <1>5, <1>6, <1>d, <2>1, <2>3, <3>3
    <3>4. CASE a # w /\ b # w
      BY <1>5, <2>1, <2>3, <3>4
    <3> QED
      BY <3>1, <3>2, <3>3, <3>4
  <2> QED
    BY <2>1, <2>2, <2>3
<1>9. \A t : Queued(t)' <=> Queued(t)
  BY <1>a, TheftQueued
<1>10. CountInv'
  <2>1. \A s \in Source : QueuedOf(s)' = QueuedOf(s) /\ RunnersOf(s)' = RunnersOf(s)
    BY <1>9 DEF QueuedOf, RunnersOf
  <2> QED
    BY <1>a, <1>b, <2>1 DEF SourceInv, CountInv
<1> QED
  BY <1>3, <1>4, <1>7, <1>8, <1>10

(* enqueue_local, at the start of a worker's work and at the end of a batch. *)
LEMMA PullKeeps ==
    ASSUME Inv, NEW w \in Workers, TaskInv', FirstPull(w) \/ BatchPull(w)
    PROVE  OpenInv' /\ CallInv' /\ ChildInv' /\ PosInv' /\ HeldInv' /\ OnceInv' /\ CountInv'
<1>a. TypeOK
  BY DEF Inv
<1>1. /\ pc[w] \in {"first", "batch"} /\ cur' = cur /\ tsroot' = tsroot
      /\ \E l \in {"spawn1", "spawn2", "settle"} : pc' = [pc EXCEPT ![w] = l]
      /\ PullInto(w) \/ UNCHANGED <<lq, srcVars>>
  <2>1. CASE FirstPull(w)
    BY <2>1 DEF FirstPull, Go
  <2>2. CASE BatchPull(w)
    <3>1. Batched(w)
      BY <2>2, BatchPullCases
    <3> QED
      BY <3>1 DEF Batched
  <2> QED
    BY <2>1, <2>2
<1>2. \A u \in Workers : (pc'[u] \in Calling <=> pc[u] \in Calling) /\ (pc'[u] \in After <=> pc[u] \in After)
  BY <1>a, <1>1 DEF TypeOK, Threads, Calling, After
<1>3. CASE UNCHANGED <<lq, srcVars>>
  <2>1. Still
    BY <1>1, <1>2, <1>3 DEF Still, srcVars
  <2> QED
    BY <2>1, StillKeeps
<1>4. CASE PullInto(w)
  <2>1. /\ lq[w] = <<>>
        /\ \/ UNCHANGED <<lq, srcVars>>
           \/ \E s \in Source, n \in Nat : PullsBatch(w, s, n)
           \/ \E v \in Workers : Steals(w, v)
    BY <1>1, <1>4, PullType
  <2>2. ASSUME NEW s \in Source, NEW n \in Nat, PullsBatch(w, s, n)
        PROVE  OpenInv' /\ CallInv' /\ ChildInv' /\ PosInv' /\ HeldInv' /\ OnceInv' /\ CountInv'
    BY <1>1, <1>2, <2>1, <2>2, BatchKeeps
  <2>3. ASSUME NEW v \in Workers, Steals(w, v)
        PROVE  OpenInv' /\ CallInv' /\ ChildInv' /\ PosInv' /\ HeldInv' /\ OnceInv' /\ CountInv'
    BY <1>1, <1>2, <2>1, <2>3, TheftKeeps
  <2> QED
    BY <1>3, <2>1, <2>2, <2>3
<1> QED
  BY <1>1, <1>3, <1>4

(* Where the tasks of a queue go when its front is popped. *)
LEMMA StartIndexes ==
    ASSUME TypeOK, NEW w \in Workers, lq[w] # <<>>, lq' = [lq EXCEPT ![w] = Tail(@)]
    PROVE  /\ 1 \in DOMAIN lq[w] /\ Head(lq[w]) = lq[w][1]
           /\ \A i \in DOMAIN lq'[w] : i + 1 \in DOMAIN lq[w] /\ i + 1 # 1 /\ lq'[w][i] = lq[w][i + 1]
           /\ \A i \in DOMAIN lq[w] : i # 1 => i - 1 \in DOMAIN lq'[w] /\ lq'[w][i - 1] = lq[w][i]
           /\ \A i, j \in DOMAIN lq'[w] : i + 1 = j + 1 => i = j
<1> DEFINE n == Len(lq[w])
<1>1. n \in Nat \ {0} /\ DOMAIN lq[w] = 1..n /\ DOMAIN lq'[w] = 1..(n - 1)
      /\ Head(lq[w]) = lq[w][1]
  BY AfterStart
<1>2. \A i \in 1..(n - 1) : lq'[w][i] = lq[w][i + 1]
  BY AfterStart
<1> HIDE DEF n
<1>3. /\ 1 \in 1..n
      /\ \A i \in 1..(n - 1) : i + 1 \in 1..n /\ i + 1 # 1
      /\ \A i \in 1..n : i # 1 => i - 1 \in 1..(n - 1) /\ (i - 1) + 1 = i
      /\ \A i, j \in 1..(n - 1) : i + 1 = j + 1 => i = j
  BY <1>1
<1>4. \A i \in 1..n : i # 1 => lq'[w][i - 1] = lq[w][i]
  BY <1>2, <1>3
<1> QED
  BY <1>1, <1>2, <1>3, <1>4

(* The task that starts was queued, and is not any more. *)
LEMMA StartQueued ==
    ASSUME Inv, NEW w \in Workers, StartTask(w)
    PROVE  LET t == Head(lq[w])
               s == SourceOf(t)
           IN  /\ s \in Source /\ t \in InSource(s) /\ sst[s] = "open" /\ Queued(t)
               /\ \A v \in Workers : cur[v] # t
               /\ \A x : Queued(x)' <=> Queued(x) /\ x # t
<1> DEFINE t == Head(lq[w])
           s == SourceOf(t)
<1>a. TypeOK /\ PosInv /\ HeldInv /\ OnceInv
  BY DEF Inv, SourceInv
<1>b. lq[w] # <<>> /\ lq' = [lq EXCEPT ![w] = Tail(@)]
  BY DEF StartTask
<1>c. /\ \A u \in Workers : u # w => lq'[u] = lq[u]
      /\ t = lq[w][1]
  BY <1>a, <1>b, AfterStart
<1>e. /\ 1 \in DOMAIN lq[w]
      /\ \A i \in DOMAIN lq'[w] : i + 1 \in DOMAIN lq[w] /\ i + 1 # 1 /\ lq'[w][i] = lq[w][i + 1]
      /\ \A i \in DOMAIN lq[w] : i # 1 => i - 1 \in DOMAIN lq'[w] /\ lq'[w][i - 1] = lq[w][i]
  BY <1>a, <1>b, StartIndexes
<1>1. s \in Source /\ t \in InSource(s) /\ sst[s] = "open"
  <2>1. OpenTask(t)
    BY <1>a, <1>c, <1>e DEF HeldInv
  <2>2. PICK r \in Source : sst[r] = "open" /\ t \in TakenOf(r)
    BY <2>1 DEF OpenTask
  <2>3. t \in InSource(r)
    BY <1>a, <2>2, TakenInSource
  <2>4. s = r
    BY <2>3, SourceOfTask
  <2> QED
    BY <2>2, <2>3, <2>4
<1>2. \A x : Queued(x)' <=> Queued(x) /\ x # t
  <2> TAKE x
  <2>1. ASSUME Queued(x)' PROVE Queued(x) /\ x # t
    <3>1. PICK u \in Workers : \E i \in DOMAIN lq'[u] : lq'[u][i] = x
      BY <2>1 DEF Queued
    <3>2. PICK i \in DOMAIN lq'[u] : lq'[u][i] = x
      BY <3>1
    <3>3. CASE u = w
      <4>1. i + 1 \in DOMAIN lq[w] /\ lq[w][i + 1] = x /\ i + 1 # 1
        BY <1>e, <3>2, <3>3
      <4>2. lq[w][1] # lq[w][i + 1]
        BY <1>a, <1>e, <4>1 DEF OnceInv
      <4> QED
        BY <1>c, <4>1, <4>2 DEF Queued
    <3>4. CASE u # w
      <4>1. i \in DOMAIN lq[u] /\ lq[u][i] = x
        BY <1>c, <3>2, <3>4
      <4>2. lq[w][1] # lq[u][i]
        BY <1>a, <1>e, <3>4, <4>1 DEF OnceInv
      <4> QED
        BY <1>c, <4>1, <4>2 DEF Queued
    <3> QED
      BY <3>3, <3>4
  <2>2. ASSUME Queued(x), x # t PROVE Queued(x)'
    <3>1. PICK u \in Workers : \E i \in DOMAIN lq[u] : lq[u][i] = x
      BY <2>2 DEF Queued
    <3>2. PICK i \in DOMAIN lq[u] : lq[u][i] = x
      BY <3>1
    <3>3. CASE u = w
      <4>1. i # 1
        BY <1>c, <2>2, <3>2, <3>3
      <4> QED
        BY <1>e, <3>2, <3>3, <4>1 DEF Queued
    <3>4. CASE u # w
      BY <1>c, <3>2, <3>4 DEF Queued
    <3> QED
      BY <3>3, <3>4
  <2> QED
    BY <2>1, <2>2
<1>3. Queued(t)
  BY <1>c, <1>e DEF Queued
<1>4. \A v \in Workers : cur[v] # t
  BY <1>a, <1>c, <1>e DEF OnceInv
<1> QED
  BY <1>1, <1>2, <1>3, <1>4

(* notify_start_task: the task goes from a queue into the worker's hands. *)
LEMMA StartKeeps ==
    ASSUME Inv, NEW w \in Workers, StartTask(w)
    PROVE  OpenInv' /\ CallInv' /\ ChildInv' /\ PosInv' /\ HeldInv' /\ OnceInv' /\ CountInv'
<1> DEFINE t == Head(lq[w])
           s == SourceOf(t)
<1>a. TypeOK /\ SourceInv /\ PosInv /\ TaskInv
  BY DEF Inv, SourceInv, PoolInv
<1>b. /\ pc[w] = "pop" /\ lq[w] # <<>>
      /\ lq' = [lq EXCEPT ![w] = Tail(@)]
      /\ cur' = [cur EXCEPT ![w] = t]
      /\ npending' = [npending EXCEPT ![s] = @ - 1]
      /\ srunning' = [srunning EXCEPT ![s] = @ + 1]
      /\ pc' = [pc EXCEPT ![w] = IF Nested[t] # NoSource THEN "perform"
                                 ELSE IF t \in Blocking THEN "rel" ELSE "tail"]
      /\ UNCHANGED <<sst, pos, children, tsroot>>
  BY DEF StartTask, Go, poolVars
<1>c. /\ \A u \in Workers : u # w => lq'[u] = lq[u]
      /\ Len(lq[w]) \in Nat \ {0} /\ DOMAIN lq[w] = 1..Len(lq[w])
      /\ DOMAIN lq'[w] = 1..(Len(lq[w]) - 1)
      /\ \A i \in 1..(Len(lq[w]) - 1) : lq'[w][i] = lq[w][i + 1]
      /\ t = lq[w][1] /\ t \in Task
  BY <1>a, <1>b, AfterStart
<1>d. cur[w] = NoTask
  BY <1>a, <1>b DEF TaskInv, InTaskPcs, Calling
<1>e. /\ 1 \in DOMAIN lq[w]
      /\ \A i \in DOMAIN lq'[w] : i + 1 \in DOMAIN lq[w] /\ lq'[w][i] = lq[w][i + 1]
      /\ \A i, j \in DOMAIN lq'[w] : i + 1 = j + 1 => i = j
  BY <1>a, <1>b, StartIndexes
<1>q. /\ s \in Source /\ t \in InSource(s) /\ sst[s] = "open" /\ Queued(t)
      /\ \A v \in Workers : cur[v] # t
      /\ \A x : Queued(x)' <=> Queued(x) /\ x # t
  BY StartQueued
<1>1. s \in Source /\ t \in InSource(s) /\ sst[s] = "open"
  BY <1>q
<1>2. \A x : Queued(x)' <=> Queued(x) /\ x # t
  BY <1>q
<1>3. Queued(t)
  BY <1>q
<1> HIDE DEF t, s
<1>4. \A r \in Source : AllDone(r) => r # s
  <2> SUFFICES ASSUME NEW r \in Source, AllDone(r), r = s PROVE FALSE
    OBVIOUS
  <2>1. \A i \in DOMAIN lq[w] : lq[w][i] \notin InSource(s)
    BY NotDone
  <2> QED
    BY <1>1, <1>c, <1>e, <2>1
<1>5. \A r \in Source : AllDone(r) => AllDone(r)'
  BY <1>4, <1>b DEF AllDone, IsAllDone, HasMore
<1>6. \A v \in Workers : \A r \in Source :
         /\ Calls(v, r)' <=> Calls(v, r)
         /\ Calls(v, r) => cur'[v] = cur[v] /\ (pc'[v] \in After => pc[v] \in After)
  <2> SUFFICES ASSUME NEW v \in Workers, NEW r \in Source
               PROVE  /\ Calls(v, r)' <=> Calls(v, r)
                      /\ Calls(v, r) => cur'[v] = cur[v] /\ (pc'[v] \in After => pc[v] \in After)
    OBVIOUS
  <2>1. CASE v # w
    <3>1. cur'[v] = cur[v] /\ pc'[v] = pc[v]
      BY <1>a, <1>b, <2>1 DEF TypeOK, Threads
    <3> QED
      BY <3>1 DEF Calls
  <2>2. CASE v = w
    <3>1. /\ cur'[w] = t
          /\ pc'[w] = IF Nested[t] # NoSource THEN "perform" ELSE IF t \in Blocking THEN "rel" ELSE "tail"
      BY <1>a, <1>b DEF TypeOK, Threads
    <3> QED
      BY <1>d, <2>2, <3>1, ProgramAssumption DEF Calls, Calling
  <2> QED
    BY <2>1, <2>2
<1>7. OpenInv' /\ CallInv' /\ ChildInv'
  BY <1>a, <1>b, <1>5, <1>6, CallsKeep DEF SourceInv
<1>8. PosInv'
  BY <1>a, <1>b DEF PosInv
<1>9. \A v \in Workers : cur'[v] = IF v = w THEN t ELSE cur[v]
  BY <1>a, <1>b DEF TypeOK
<1> DEFINE Old(a, i) == IF a = w THEN i + 1 ELSE i
<1>o. \A a \in Workers : \A i \in DOMAIN lq'[a] :
         Old(a, i) \in DOMAIN lq[a] /\ lq'[a][i] = lq[a][Old(a, i)]
  <2> SUFFICES ASSUME NEW a \in Workers, NEW i \in DOMAIN lq'[a]
               PROVE  Old(a, i) \in DOMAIN lq[a] /\ lq'[a][i] = lq[a][Old(a, i)]
    OBVIOUS
  <2>1. CASE a = w
    BY <1>e, <2>1
  <2>2. CASE a # w
    <3>1. lq'[a] = lq[a]
      BY <1>c, <2>2
    <3> QED
      BY <2>2, <3>1
  <2> QED
    BY <2>1, <2>2
<1>p. \A a \in Workers : \A i, j \in DOMAIN lq'[a] : Old(a, i) = Old(a, j) => i = j
  <2> SUFFICES ASSUME NEW a \in Workers, NEW i \in DOMAIN lq'[a], NEW j \in DOMAIN lq'[a],
                      Old(a, i) = Old(a, j)
               PROVE  i = j
    OBVIOUS
  <2>1. CASE a = w
    BY <1>e, <2>1
  <2> QED
    BY <2>1
<1> HIDE DEF Old
<1>10. HeldInv'
  <2> SUFFICES ASSUME NEW u \in Workers
               PROVE  /\ cur'[u] # NoTask => OpenAfter(cur'[u])
                      /\ \A i \in DOMAIN lq'[u] : OpenAfter(lq'[u][i])
    BY HeldAfter
  <2>1. \A x : OpenTask(x) => OpenAfter(x)
    BY <1>b DEF OpenTask, OpenAfter, TakenOf
  <2>2. /\ cur[u] # NoTask => OpenTask(cur[u])
        /\ \A i \in DOMAIN lq[u] : OpenTask(lq[u][i])
        /\ OpenTask(t)
    BY <1>a, <1>c, <1>e DEF SourceInv, HeldInv
  <2> QED
    BY <1>o, <1>9, <2>1, <2>2
<1>11. OnceInv'
  <2> SUFFICES ASSUME NEW a \in Workers, NEW b \in Workers
               PROVE  /\ cur'[a] = cur'[b] /\ cur'[a] # NoTask => a = b
                      /\ \A i \in DOMAIN lq'[a] : cur'[b] # lq'[a][i]
                      /\ \A i \in DOMAIN lq'[a] : \A j \in DOMAIN lq'[b] :
                            lq'[a][i] = lq'[b][j] => a = b /\ i = j
    BY DEF OnceInv
  <2>1. /\ cur[a] = cur[b] /\ cur[a] # NoTask => a = b
        /\ \A i \in DOMAIN lq[a] : cur[b] # lq[a][i]
        /\ \A i \in DOMAIN lq[a] : \A j \in DOMAIN lq[b] : lq[a][i] = lq[b][j] => a = b /\ i = j
    BY <1>a DEF SourceInv, OnceInv
  <2>2. \A v \in Workers : cur[v] # t
    BY <1>q
  <2>3. \A i \in DOMAIN lq'[a] : t # lq'[a][i]
    BY <1>2 DEF Queued
  <2>4. cur'[a] = cur'[b] /\ cur'[a] # NoTask => a = b
    BY <1>9, <2>1, <2>2
  <2>5. \A i \in DOMAIN lq'[a] : \E k \in DOMAIN lq[a] : lq[a][k] = lq'[a][i]
    BY <1>o
  <2>6. \A i \in DOMAIN lq'[a] : cur'[b] # lq'[a][i]
    BY <1>9, <2>1, <2>3, <2>5
  <2>7. ASSUME NEW i \in DOMAIN lq'[a], NEW j \in DOMAIN lq'[b], lq'[a][i] = lq'[b][j]
        PROVE  a = b /\ i = j
    <3>1. lq[a][Old(a, i)] = lq[b][Old(b, j)] /\ Old(a, i) \in DOMAIN lq[a] /\ Old(b, j) \in DOMAIN lq[b]
      BY <1>o, <2>7
    <3>2. a = b /\ Old(a, i) = Old(b, j)
      BY <2>1, <3>1
    <3> QED
      BY <1>p, <3>2
  <2> QED
    BY <2>4, <2>6, <2>7
<1>12. CountInv'
  <2> SUFFICES ASSUME NEW r \in Source
               PROVE  /\ npending'[r] = Cardinality(QueuedOf(r)')
                      /\ srunning'[r] = Cardinality(RunnersOf(r)')
    BY DEF CountInv, QueuedOf, RunnersOf, Queued
  <2>1. npending[r] = Cardinality(QueuedOf(r)) /\ srunning[r] = Cardinality(RunnersOf(r))
    BY <1>a DEF SourceInv, CountInv
  <2>2. QueuedOf(r)' = {x \in InSource(r) : Queued(x)'}
    BY DEF QueuedOf
  <2>3. RunnersOf(r)' = {v \in Workers : cur'[v] \in InSource(r)}
    BY DEF RunnersOf
  <2>4. CASE r = s
    <3>1. QueuedOf(r)' = QueuedOf(r) \ {t} /\ t \in QueuedOf(r)
      BY <1>1, <1>2, <1>3, <2>2, <2>4 DEF QueuedOf
    <3>2. QueuedOf(r) \subseteq Task /\ RunnersOf(r) \subseteq Workers
      BY SourceOfTask DEF QueuedOf, RunnersOf
    <3>3. IsFiniteSet(QueuedOf(r)) /\ IsFiniteSet(RunnersOf(r))
      BY <3>2, FiniteAssumption, NotMore
    <3>4. Cardinality(QueuedOf(r)') = npending[r] - 1
      BY <2>1, <3>1, <3>3, OneLess
    <3>5. NoTask \notin InSource(r)
      BY SourceOfTask
    <3>6. RunnersOf(r)' = RunnersOf(r) \cup {w} /\ w \notin RunnersOf(r)
      BY <1>1, <1>9, <1>d, <2>3, <2>4, <3>5 DEF RunnersOf
    <3>7. Cardinality(RunnersOf(r)') = srunning[r] + 1
      BY <2>1, <3>6, <3>3, OneMore
    <3> QED
      BY <1>a, <1>b, <2>4, <3>4, <3>7 DEF TypeOK
  <2>5. CASE r # s
    <3>1. t \notin InSource(r) /\ NoTask \notin InSource(r)
      BY <2>5, SourceOfTask DEF s
    <3>2. QueuedOf(r)' = QueuedOf(r)
      BY <1>2, <2>2, <3>1 DEF QueuedOf
    <3>3. RunnersOf(r)' = RunnersOf(r)
      BY <1>9, <1>d, <2>3, <3>1 DEF RunnersOf
    <3> QED
      BY <1>a, <1>b, <2>1, <2>5, <3>2, <3>3 DEF TypeOK
  <2> QED
    BY <2>4, <2>5
<1> QED
  BY <1>7, <1>8, <1>10, <1>11, <1>12

(* notify_finish_task: the task is in nobody's hands any more. *)
LEMMA FinishKeeps ==
    ASSUME Inv, NEW w \in Workers, notify_finish_task(w)
    PROVE  OpenInv' /\ CallInv' /\ ChildInv' /\ PosInv' /\ HeldInv' /\ OnceInv' /\ CountInv'
<1> DEFINE s == SourceOf(cur[w])
<1>a. TypeOK /\ SourceInv /\ PosInv /\ HeldInv /\ TaskInv
  BY DEF Inv, SourceInv, PoolInv
<1>b. /\ pc[w] \in {"tail", "finish"}
      /\ cur' = [cur EXCEPT ![w] = NoTask]
      /\ srunning' = [srunning EXCEPT ![s] = @ - 1]
      /\ pc' = [pc EXCEPT ![w] = "pop"]
      /\ UNCHANGED <<sst, pos, children, tsroot, npending, lq>>
  BY DEF notify_finish_task, Go, poolVars
<1>1. s \in Source /\ cur[w] \in InSource(s) /\ cur[w] # NoTask
  BY <1>a, <1>b, Mine, ProgramAssumption DEF InTaskPcs
<1> HIDE DEF s
<1>4. \A r \in Source : AllDone(r) => r # s
  BY <1>1, NotDone
<1>5. \A r \in Source : AllDone(r) => AllDone(r)'
  BY <1>4, <1>b DEF AllDone, IsAllDone, HasMore
<1>9. \A v \in Workers : /\ cur'[v] = IF v = w THEN NoTask ELSE cur[v]
                         /\ pc'[v] = IF v = w THEN "pop" ELSE pc[v]
  BY <1>a, <1>b DEF TypeOK, Threads
<1>6. \A v \in Workers : \A r \in Source :
         /\ Calls(v, r)' <=> Calls(v, r)
         /\ Calls(v, r) => cur'[v] = cur[v] /\ (pc'[v] \in After => pc[v] \in After)
  BY <1>9, <1>b DEF Calls, Calling
<1>7. OpenInv' /\ CallInv' /\ ChildInv'
  BY <1>a, <1>b, <1>5, <1>6, CallsKeep DEF SourceInv
<1>8. PosInv'
  BY <1>a, <1>b DEF PosInv
<1>10. HeldInv'
  BY <1>a, <1>b, <1>9 DEF HeldInv, OpenTask, TakenOf
<1>11. OnceInv'
  <2> SUFFICES ASSUME NEW a \in Workers, NEW b \in Workers
               PROVE  /\ cur'[a] = cur'[b] /\ cur'[a] # NoTask => a = b
                      /\ \A i \in DOMAIN lq[a] : cur'[b] # lq[a][i]
                      /\ \A i \in DOMAIN lq[a] : \A j \in DOMAIN lq[b] :
                            lq[a][i] = lq[b][j] => a = b /\ i = j
    BY <1>b DEF OnceInv
  <2>1. /\ cur[a] = cur[b] /\ cur[a] # NoTask => a = b
        /\ \A i \in DOMAIN lq[a] : cur[b] # lq[a][i]
        /\ \A i \in DOMAIN lq[a] : \A j \in DOMAIN lq[b] : lq[a][i] = lq[b][j] => a = b /\ i = j
    BY <1>a DEF SourceInv, OnceInv
  <2>2. \A i \in DOMAIN lq[a] : lq[a][i] # NoTask
    BY <1>a, ProgramAssumption, LenProperties, ElementOfSeq DEF TypeOK
  <2> QED
    BY <1>9, <2>1, <2>2
<1>12. CountInv'
  <2> SUFFICES ASSUME NEW r \in Source
               PROVE  /\ npending[r] = Cardinality(QueuedOf(r))
                      /\ srunning'[r] = Cardinality(RunnersOf(r)')
    BY <1>b DEF CountInv, QueuedOf, RunnersOf, Queued
  <2>1. npending[r] = Cardinality(QueuedOf(r)) /\ srunning[r] = Cardinality(RunnersOf(r))
    BY <1>a DEF SourceInv, CountInv
  <2>3. RunnersOf(r)' = {v \in Workers : cur'[v] \in InSource(r)}
    BY DEF RunnersOf
  <2>6. NoTask \notin InSource(r)
    BY SourceOfTask
  <2>4. CASE r = s
    <3>3. IsFiniteSet(RunnersOf(r))
      BY FiniteAssumption, NotMore DEF RunnersOf
    <3>6. RunnersOf(r)' = RunnersOf(r) \ {w} /\ w \in RunnersOf(r)
      BY <1>1, <1>9, <2>3, <2>4, <2>6 DEF RunnersOf
    <3>7. Cardinality(RunnersOf(r)') = srunning[r] - 1
      BY <2>1, <3>6, <3>3, OneLess
    <3> QED
      BY <1>a, <1>b, <2>1, <2>4, <3>7 DEF TypeOK
  <2>5. CASE r # s
    <3>1. cur[w] \notin InSource(r)
      BY <2>5, SourceOfTask DEF s
    <3>3. RunnersOf(r)' = RunnersOf(r)
      BY <1>9, <2>3, <2>6, <3>1 DEF RunnersOf
    <3> QED
      BY <1>a, <1>b, <2>1, <2>5, <3>3 DEF TypeOK
  <2> QED
    BY <2>4, <2>5
<1> QED
  BY <1>7, <1>8, <1>10, <1>11, <1>12

(* The elements of a sequence with one appended.                           *)
LEMMA Appended ==
    ASSUME NEW q \in Seq(Source), NEW e \in Source
    PROVE  /\ Len(q) \in Nat /\ Len(q) + 1 \notin DOMAIN q
           /\ DOMAIN Append(q, e) = DOMAIN q \cup {Len(q) + 1}
           /\ \A i \in DOMAIN q : Append(q, e)[i] = q[i]
           /\ Append(q, e)[Len(q) + 1] = e
<1>1. /\ Append(q, e) \in Seq(Source)
      /\ Len(Append(q, e)) = Len(q) + 1
      /\ \A i \in 1..Len(q) : Append(q, e)[i] = q[i]
      /\ Append(q, e)[Len(q) + 1] = e
  BY AppendProperties
<1>2. Len(q) \in Nat /\ DOMAIN q = 1..Len(q) /\ DOMAIN Append(q, e) = 1..Len(Append(q, e))
  BY <1>1, LenProperties
<1>3. \A n \in Nat : n + 1 \notin 1..n /\ 1..(n + 1) = (1..n) \cup {n + 1}
  OBVIOUS
<1> QED
  BY <1>1, <1>2, <1>3

CallsAfter(w, s) == cur'[w] # NoTask /\ Nested[cur'[w]] = s /\ pc'[w] \in Calling

(* A task calls submit: its source gets a child. *)
LEMMA NestedKeeps ==
    ASSUME Inv, NEW w \in Workers, SubmitNested(w)
    PROVE  OpenInv' /\ CallInv' /\ ChildInv' /\ PosInv' /\ HeldInv' /\ OnceInv' /\ CountInv'
<1> DEFINE s == Nested[cur[w]]
           p == SourceOf(cur[w])
<1>a. TypeOK /\ SourceInv /\ PosInv /\ HeldInv /\ TaskInv
  BY DEF Inv, SourceInv, PoolInv
<1>b. /\ pc[w] = "perform" /\ sst[s] = "new"
      /\ sst' = [sst EXCEPT ![s] = "open"]
      /\ children' = [children EXCEPT ![p] = Append(@, s)]
      /\ pc' = [pc EXCEPT ![w] = "rel"]
      /\ UNCHANGED <<pos, tsroot, npending, srunning, lq, cur>>
  BY DEF SubmitNested, Go, poolVars, thrVars
<1>1. p \in Source /\ cur[w] \in InSource(p) /\ cur[w] # NoTask /\ sst[p] = "open"
      /\ s \in Source /\ s # p
  BY <1>a, <1>b, Mine, ProgramAssumption DEF InTaskPcs, TaskInv
<1>2. \A v \in Workers : pc'[v] = IF v = w THEN "rel" ELSE pc[v]
  BY <1>a, <1>b DEF TypeOK, Threads
<1>3. \A v \in Workers : \A r \in Source :
         /\ CallsAfter(v, r) <=> Calls(v, r) \/ (v = w /\ r = s)
         /\ Calls(v, r) => v # w
         /\ CallsAfter(v, r) /\ pc'[v] \in After => pc[v] \in After
  BY <1>1, <1>2, <1>b DEF Calls, CallsAfter, Calling, After
<1>4. \A r \in Source : sst'[r] = IF r = s THEN "open" ELSE sst[r]
  BY <1>a, <1>b, <1>1 DEF TypeOK
<1> HIDE DEF s, p
<1>5. OpenInv'
  <2> SUFFICES ASSUME NEW r \in Source, sst'[r] = "open"
               PROVE  r = tsroot \/ \E v \in Workers : CallsAfter(v, r)
    BY <1>b DEF OpenInv, Calls, CallsAfter
  <2>1. CASE r = s
    BY <1>3, <2>1
  <2>2. CASE r # s
    BY <1>a, <1>3, <1>4, <2>2 DEF SourceInv, OpenInv
  <2> QED
    BY <2>1, <2>2
<1> DEFINE n == Len(children[p])
<1>6. /\ n \in Nat /\ n + 1 \notin DOMAIN children[p]
      /\ DOMAIN children'[p] = DOMAIN children[p] \cup {n + 1}
      /\ \A i \in DOMAIN children[p] : children'[p][i] = children[p][i]
      /\ children'[p][n + 1] = s
      /\ \A r \in Source : r # p => children'[r] = children[r]
  <2>1. children[p] \in Seq(Source) /\ children'[p] = Append(children[p], s)
        /\ \A r \in Source : r # p => children'[r] = children[r]
    BY <1>a, <1>b, <1>1 DEF TypeOK
  <2> QED
    BY <1>1, <2>1, Appended
<1> HIDE DEF n
<1>7. \A r \in Source : AllDone(r) => AllDone(r)'
  <2>1. \A r \in Source : AllDone(r) => r # p
    BY <1>1, NotDone
  <2> QED
    BY <1>6, <1>b, <2>1 DEF AllDone, IsAllDone, HasMore
<1>8. \A q \in Source : \A i \in DOMAIN children[q] :
         i \in DOMAIN children'[q] /\ children'[q][i] = children[q][i]
  BY <1>6
<1>9. CallInv'
  <2> SUFFICES ASSUME NEW v \in Workers, NEW r \in Source, CallsAfter(v, r)
               PROVE  /\ sst'[r] = "open"
                      /\ \E i \in DOMAIN children'[SourceOf(cur'[v])] : children'[SourceOf(cur'[v])][i] = r
                      /\ pc'[v] \in After => AllDone(r)'
    BY DEF CallInv, SourceOf, Calls, CallsAfter
  <2>0. cur' = cur
    BY <1>b
  <2>1. CASE v = w /\ r = s
    BY <1>1, <1>2, <1>4, <1>6, <2>0, <2>1 DEF After, p
  <2>2. CASE Calls(v, r)
    <3>1. /\ sst[r] = "open"
          /\ \E i \in DOMAIN children[SourceOf(cur[v])] : children[SourceOf(cur[v])][i] = r
          /\ pc[v] \in After => AllDone(r)
      BY <1>a, <2>2 DEF SourceInv, CallInv
    <3>2. SourceOf(cur[v]) \in Source
      BY <1>a, <2>2, Mine DEF Calls, InTaskPcs
    <3>3. pc'[v] \in After => pc[v] \in After
      BY <1>3
    <3> QED
      BY <1>4, <1>7, <1>8, <2>0, <3>1, <3>2, <3>3
  <2> QED
    BY <1>3, <2>1, <2>2
<1>10. ChildInv'
  <2> SUFFICES ASSUME NEW q \in Source, NEW i \in DOMAIN children'[q]
               PROVE  /\ \E v \in Workers : CallsAfter(v, children'[q][i]) /\ cur'[v] \in InSource(q)
                      /\ \A j \in DOMAIN children'[q] : children'[q][i] = children'[q][j] => i = j
    BY DEF ChildInv, Calls, CallsAfter
  <2>0. cur' = cur
    BY <1>b
  <2>1. \A k \in DOMAIN children[q] :
           /\ \E v \in Workers : CallsAfter(v, children[q][k]) /\ cur'[v] \in InSource(q)
           /\ children[q][k] # s
           /\ \A j \in DOMAIN children[q] : children[q][k] = children[q][j] => k = j
    <3> SUFFICES ASSUME NEW k \in DOMAIN children[q]
                 PROVE  /\ \E v \in Workers : CallsAfter(v, children[q][k]) /\ cur'[v] \in InSource(q)
                        /\ children[q][k] # s
                        /\ \A j \in DOMAIN children[q] : children[q][k] = children[q][j] => k = j
      OBVIOUS
    <3>1. children[q][k] \in Source
      BY <1>a, LenProperties, ElementOfSeq DEF TypeOK
    <3>2. PICK v \in Workers : Calls(v, children[q][k]) /\ cur[v] \in InSource(q)
      BY <1>a DEF SourceInv, ChildInv
    <3>3. sst[children[q][k]] = "open"
      BY <1>a, <3>1, <3>2 DEF SourceInv, CallInv
    <3>4. children[q][k] # s
      BY <1>b, <3>3 DEF s
    <3>5. \A j \in DOMAIN children[q] : children[q][k] = children[q][j] => k = j
      BY <1>a DEF SourceInv, ChildInv
    <3> QED
      BY <1>3, <2>0, <3>1, <3>2, <3>4, <3>5
  <2>2. CASE q # p
    BY <1>6, <2>1, <2>2
  <2>3. CASE q = p /\ i = n + 1
    <3>1. children'[q][i] = s
      BY <1>6, <2>3
    <3>2. CallsAfter(w, s)
      BY <1>1, <1>3
    <3>3. CallsAfter(w, children'[q][i])
      BY <3>1, <3>2
    <3> QED
      BY <1>1, <1>6, <2>0, <2>1, <2>3, <3>1, <3>3
  <2>4. CASE q = p /\ i \in DOMAIN children[p]
    <3>1. children'[q][i] = children[q][i]
      BY <1>6, <2>4
    <3>2. \E v \in Workers : CallsAfter(v, children'[q][i]) /\ cur'[v] \in InSource(q)
      BY <2>1, <2>4, <3>1
    <3> QED
      BY <1>6, <2>1, <2>4, <3>1, <3>2
  <2> QED
    BY <1>6, <2>2, <2>3, <2>4
<1>11. HeldInv'
  BY <1>a, <1>b, <1>4 DEF HeldInv, OpenTask, TakenOf
<1>12. PosInv' /\ OnceInv' /\ CountInv'
  <2>1. PosInv' /\ OnceInv'
    BY <1>a, <1>b DEF SourceInv, PosInv, OnceInv
  <2>2. \A r \in Source : QueuedOf(r)' = QueuedOf(r) /\ RunnersOf(r)' = RunnersOf(r)
    BY <1>b DEF QueuedOf, RunnersOf, Queued
  <2>3. CountInv'
    BY <1>a, <1>b, <2>2 DEF SourceInv, CountInv
  <2> QED
    BY <2>1, <2>3
<1> QED
  BY <1>5, <1>9, <1>10, <1>11, <1>12

(* submit returns in a task: nothing refers to its source any more. *)
LEMMA ReturnKeeps ==
    ASSUME Inv, NEW w \in Workers, SubmitReturns(w)
    PROVE  OpenInv' /\ CallInv' /\ ChildInv' /\ PosInv' /\ HeldInv' /\ OnceInv' /\ CountInv'
<1> DEFINE s == Nested[cur[w]]
           p == SourceOf(cur[w])
<1>a. TypeOK /\ SourceInv /\ PosInv /\ HeldInv /\ TaskInv
  BY DEF Inv, SourceInv, PoolInv
<1>b. /\ pc[w] = "unsub"
      /\ \E x \in {"threw", "returned"} : sst' = [sst EXCEPT ![s] = x]
      /\ children' = [children EXCEPT ![p] = Without(children[p], s)]
      /\ \E l \in {"throw", "tail"} : pc' = [pc EXCEPT ![w] = l]
      /\ UNCHANGED <<pos, tsroot, npending, srunning, lq, cur>>
  BY DEF SubmitReturns, Go, poolVars, thrVars
<1>1. p \in Source /\ cur[w] \in InSource(p) /\ cur[w] \in Task /\ cur[w] # NoTask
      /\ s \in Source /\ s # p
  BY <1>a, <1>b, Mine, ProgramAssumption DEF InTaskPcs, Calling, TaskInv
<1>2. Calls(w, s)
  BY <1>1, <1>b DEF Calls, Calling
<1>3. AllDone(s) /\ sst[s] = "open"
  BY <1>a, <1>b, <1>1, <1>2 DEF SourceInv, CallInv, After
<1> HIDE DEF s, p
<1>4. /\ \A v \in Workers : cur[v] \notin InSource(s)
      /\ \A v \in Workers : \A i \in DOMAIN lq[v] : lq[v][i] \notin InSource(s)
  BY <1>1, <1>3, NotDone
<1>5. \A v \in Workers : \A r \in Source :
         /\ CallsAfter(v, r) <=> Calls(v, r) /\ v # w
         /\ Calls(v, r) /\ v # w => r # s /\ pc'[v] = pc[v]
  <2> SUFFICES ASSUME NEW v \in Workers, NEW r \in Source
               PROVE  /\ CallsAfter(v, r) <=> Calls(v, r) /\ v # w
                      /\ Calls(v, r) /\ v # w => r # s /\ pc'[v] = pc[v]
    OBVIOUS
  <2>1. CASE v # w
    <3>1. pc'[v] = pc[v]
      BY <1>a, <1>b, <2>1 DEF TypeOK, Threads
    <3>2. ASSUME Calls(v, r), r = s PROVE FALSE
      <4>1. cur[v] \in Task /\ Nested[cur[v]] = Nested[cur[w]] /\ s # NoSource
        BY <1>a, <1>1, <3>2, ProgramAssumption DEF Calls, TypeOK, s
      <4>2. cur[v] = cur[w]
        BY <1>1, <4>1, OnceAssumption DEF s
      <4> QED
        BY <1>a, <1>1, <2>1, <4>2 DEF SourceInv, OnceInv
    <3> QED
      BY <1>b, <2>1, <3>1, <3>2 DEF Calls, CallsAfter
  <2>2. CASE v = w
    <3>1. pc'[w] \in {"throw", "tail"}
      BY <1>a, <1>b DEF TypeOK, Threads
    <3> QED
      BY <2>2, <3>1 DEF CallsAfter, Calling
  <2> QED
    BY <2>1, <2>2
<1>6. \A r \in Source : sst'[r] = "open" <=> sst[r] = "open" /\ r # s
  BY <1>a, <1>b, <1>1 DEF TypeOK
<1>7. OpenInv'
  <2> SUFFICES ASSUME NEW r \in Source, sst'[r] = "open"
               PROVE  r = tsroot \/ \E v \in Workers : CallsAfter(v, r)
    BY <1>b DEF OpenInv, Calls, CallsAfter
  <2>1. sst[r] = "open" /\ r # s
    BY <1>6
  <2>2. CASE \E v \in Workers : Calls(v, r)
    <3>1. PICK v \in Workers : Calls(v, r)
      BY <2>2
    <3>2. v # w
      BY <2>1, <3>1 DEF Calls, s
    <3> QED
      BY <1>5, <3>1, <3>2
  <2> QED
    BY <1>a, <2>1, <2>2 DEF SourceInv, OpenInv
<1>8. \A r \in Source : r # p => children'[r] = children[r]
  BY <1>a, <1>b DEF TypeOK
<1>9. /\ \A i \in DOMAIN children'[p] :
            \E j \in DOMAIN children[p] : children[p][j] = children'[p][i] /\ children[p][j] # s
      /\ \A j \in DOMAIN children[p] : children[p][j] # s =>
            \E i \in DOMAIN children'[p] : children[p][j] = children'[p][i]
      /\ \A i, j \in DOMAIN children'[p] : children'[p][i] = children'[p][j] => i = j
  <2> DEFINE c == children[p]
  <2>1. c \in Seq(Source) /\ children'[p] = Without(c, s)
    BY <1>a, <1>b, <1>1 DEF TypeOK
  <2>2. \A i, j \in DOMAIN c : c[i] = c[j] => i = j
    BY <1>a, <1>1 DEF SourceInv, ChildInv
  <2> HIDE DEF c
  <2>3. /\ \A i \in DOMAIN Without(c, s) : \E j \in DOMAIN c : c[j] = Without(c, s)[i] /\ c[j] # s
        /\ \A j \in DOMAIN c : c[j] # s => \E i \in DOMAIN Without(c, s) : c[j] = Without(c, s)[i]
        /\ \A i, j \in DOMAIN Without(c, s) : Without(c, s)[i] = Without(c, s)[j] => i = j
    BY <2>1, <2>2, AfterRemoval
  <2> QED
    BY <2>1, <2>3 DEF c
<1>10. \A r \in Source : AllDone(r) => AllDone(r)'
  <2>1. \A r \in Source : AllDone(r) => r # p
    BY <1>1, NotDone
  <2> QED
    BY <1>8, <1>b, <2>1 DEF AllDone, IsAllDone, HasMore
<1>11. CallInv'
  <2> SUFFICES ASSUME NEW v \in Workers, NEW r \in Source, CallsAfter(v, r)
               PROVE  /\ sst'[r] = "open"
                      /\ \E i \in DOMAIN children'[SourceOf(cur'[v])] : children'[SourceOf(cur'[v])][i] = r
                      /\ pc'[v] \in After => AllDone(r)'
    BY DEF CallInv, SourceOf, Calls, CallsAfter
  <2>0. cur' = cur
    BY <1>b
  <2>1. Calls(v, r) /\ r # s /\ pc'[v] = pc[v]
    BY <1>5
  <2>2. /\ sst[r] = "open"
        /\ \E i \in DOMAIN children[SourceOf(cur[v])] : children[SourceOf(cur[v])][i] = r
        /\ pc[v] \in After => AllDone(r)
    BY <1>a, <2>1 DEF SourceInv, CallInv
  <2>3. SourceOf(cur[v]) \in Source
    BY <1>a, <2>1, Mine DEF Calls, InTaskPcs
  <2>4. \E i \in DOMAIN children'[SourceOf(cur[v])] : children'[SourceOf(cur[v])][i] = r
    <3>1. CASE SourceOf(cur[v]) = p
      BY <1>9, <2>1, <2>2, <3>1
    <3>2. CASE SourceOf(cur[v]) # p
      BY <1>8, <2>2, <2>3, <3>2
    <3> QED
      BY <3>1, <3>2
  <2> QED
    BY <1>6, <1>10, <2>0, <2>1, <2>2, <2>4
<1>12. ChildInv'
  <2> SUFFICES ASSUME NEW q \in Source, NEW i \in DOMAIN children'[q]
               PROVE  /\ \E v \in Workers : CallsAfter(v, children'[q][i]) /\ cur'[v] \in InSource(q)
                      /\ \A j \in DOMAIN children'[q] : children'[q][i] = children'[q][j] => i = j
    BY DEF ChildInv, Calls, CallsAfter
  <2>0. cur' = cur
    BY <1>b
  <2>1. ASSUME NEW k \in DOMAIN children[q], children[q][k] # s
        PROVE  \E v \in Workers : CallsAfter(v, children[q][k]) /\ cur'[v] \in InSource(q)
    <3>1. children[q][k] \in Source
      BY <1>a, LenProperties, ElementOfSeq DEF TypeOK
    <3>2. PICK v \in Workers : Calls(v, children[q][k]) /\ cur[v] \in InSource(q)
      BY <1>a DEF SourceInv, ChildInv
    <3>3. v # w
      BY <2>1, <3>2 DEF Calls, s
    <3> QED
      BY <1>5, <2>0, <3>1, <3>2, <3>3
  <2>2. CASE q = p
    <3>1. PICK j \in DOMAIN children[p] : children[p][j] = children'[p][i] /\ children[p][j] # s
      BY <1>9, <2>2
    <3>2. \E v \in Workers : CallsAfter(v, children'[q][i]) /\ cur'[v] \in InSource(q)
      BY <2>1, <2>2, <3>1
    <3> QED
      BY <1>9, <2>2, <3>2
  <2>3. CASE q # p
    <3>1. children'[q] = children[q]
      BY <1>8, <2>3
    <3>2. children[q][i] # s
      <4>1. PICK v \in Workers : Calls(v, children[q][i]) /\ cur[v] \in InSource(q)
        BY <1>a, <3>1 DEF SourceInv, ChildInv
      <4>2. v # w
        BY <1>1, <2>3, <4>1, SourceOfTask
      <4>3. children[q][i] \in Source
        BY <1>a, <3>1, LenProperties, ElementOfSeq DEF TypeOK
      <4> QED
        BY <1>5, <4>1, <4>2, <4>3
    <3>3. \A j \in DOMAIN children[q] : children[q][i] = children[q][j] => i = j
      BY <1>a, <3>1 DEF SourceInv, ChildInv
    <3> QED
      BY <2>1, <3>1, <3>2, <3>3
  <2> QED
    BY <2>2, <2>3
<1>13. HeldInv'
  <2> SUFFICES ASSUME NEW v \in Workers
               PROVE  /\ cur'[v] # NoTask => OpenAfter(cur'[v])
                      /\ \A i \in DOMAIN lq'[v] : OpenAfter(lq'[v][i])
    BY HeldAfter
  <2>1. ASSUME NEW t, OpenTask(t), t \notin InSource(s) PROVE OpenAfter(t)
    <3>1. PICK r \in Source : sst[r] = "open" /\ t \in TakenOf(r)
      BY <2>1 DEF OpenTask
    <3>2. r # s
      BY <1>a, <2>1, <3>1, TakenInSource
    <3> QED
      BY <1>6, <1>b, <3>1, <3>2 DEF OpenAfter, TakenOf
  <2>2. cur' = cur /\ lq' = lq
    BY <1>b
  <2> QED
    BY <1>a, <1>4, <2>1, <2>2 DEF HeldInv
<1>14. PosInv' /\ OnceInv'
  BY <1>a, <1>b DEF SourceInv, PosInv, OnceInv
<1>15. CountInv'
  <2>1. \A r \in Source : QueuedOf(r)' = QueuedOf(r) /\ RunnersOf(r)' = RunnersOf(r)
    BY <1>b DEF QueuedOf, RunnersOf, Queued
  <2> QED
    BY <1>a, <1>b, <2>1 DEF SourceInv, CountInv
<1> QED
  BY <1>7, <1>11, <1>12, <1>13, <1>14, <1>15

(* The client submits a source: the pool has no other. *)
LEMMA RootKeeps ==
    ASSUME Inv, SubmitRoot
    PROVE  OpenInv' /\ CallInv' /\ ChildInv' /\ PosInv' /\ HeldInv' /\ OnceInv' /\ CountInv'
<1>a. TypeOK /\ SourceInv /\ TaskInv
  BY DEF Inv, PoolInv
<1>1. PICK i \in DOMAIN Roots : sst' = [sst EXCEPT ![Roots[i]] = "open"] /\ tsroot' = Roots[i]
  BY DEF SubmitRoot
<1>2. pc[Main] = "client" /\ UNCHANGED <<pos, npending, srunning, children, lq, cur>>
  BY DEF SubmitRoot, thrVars
<1>3. tsroot = NoSource
  BY <1>a, <1>2 DEF SourceInv, MainInv
<1>4. \A w \in Workers : cur[w] = NoTask /\ lq[w] = <<>>
  BY <1>a, <1>3, Quiet
<1>5. \A w \in Workers : cur'[w] = NoTask /\ DOMAIN lq'[w] = {}
  BY <1>2, <1>4
<1>6. OpenInv'
  <2> SUFFICES ASSUME NEW r \in Source, sst'[r] = "open" PROVE r = tsroot'
    BY DEF OpenInv
  <2>1. CASE sst[r] = "open"
    BY <1>a, <1>3, <1>4, <2>1, ProgramAssumption DEF SourceInv, OpenInv, Calls
  <2>2. CASE sst[r] # "open"
    BY <1>a, <1>1, <2>2 DEF TypeOK
  <2> QED
    BY <2>1, <2>2
<1>7. CallInv'
  BY <1>5 DEF CallInv, Calls
<1>8. \A p \in Source : DOMAIN children'[p] = {}
  BY <1>a, <1>2, <1>4 DEF SourceInv, ChildInv, Calls
<1>9. ChildInv'
  BY <1>8 DEF ChildInv
<1>10. HeldInv' /\ OnceInv'
  BY <1>5 DEF HeldInv, OnceInv
<1>11. PosInv'
  BY <1>a, <1>2 DEF SourceInv, PosInv
<1>12. CountInv'
  <2>1. \A r \in Source : QueuedOf(r)' = QueuedOf(r) /\ RunnersOf(r)' = RunnersOf(r)
    BY <1>2 DEF QueuedOf, RunnersOf, Queued
  <2> QED
    BY <1>a, <1>2, <2>1 DEF SourceInv, CountInv
<1> QED
  BY <1>6, <1>7, <1>9, <1>10, <1>11, <1>12

(* The client's source is done. *)
LEMMA RootReturnKeeps ==
    ASSUME Inv, RootReturns
    PROVE  OpenInv' /\ CallInv' /\ ChildInv' /\ PosInv' /\ HeldInv' /\ OnceInv' /\ CountInv'
<1>a. TypeOK /\ SourceInv /\ TaskInv /\ PosInv /\ HeldInv
  BY DEF Inv, PoolInv, SourceInv
<1>1. /\ pc[Main] = "unsub" /\ pc' = [pc EXCEPT ![Main] = "client"]
      /\ \E x \in {"threw", "returned"} : sst' = [sst EXCEPT ![tsroot] = x]
      /\ UNCHANGED <<pos, npending, srunning, children, lq, cur>>
  BY DEF RootReturns, thrVars, Go
<1>2. /\ tsroot \in Source /\ AllDone(tsroot) /\ \A t \in Task : Nested[t] # tsroot
  BY <1>a, <1>1 DEF TypeOK, SourceInv, MainInv, Over
<1>3. \A w \in Workers : pc'[w] = pc[w]
  BY <1>a, <1>1, ThreadAssumption DEF TypeOK, Threads
<1>4. \A w \in Workers : \A r : CallsAfter(w, r) <=> Calls(w, r)
  BY <1>1, <1>3 DEF Calls, CallsAfter
<1>5. \A w \in Workers : ~Calls(w, tsroot)
  BY <1>a, <1>2 DEF Calls, TypeOK
<1>6. \A r \in Source : sst'[r] = "open" <=> sst[r] = "open" /\ r # tsroot
  BY <1>a, <1>1, <1>2 DEF TypeOK
<1>7. OpenInv'
  <2> SUFFICES ASSUME NEW r \in Source, sst'[r] = "open"
               PROVE  \E v \in Workers : CallsAfter(v, r)
    BY DEF OpenInv, Calls, CallsAfter
  <2> QED
    BY <1>a, <1>4, <1>6 DEF SourceInv, OpenInv
<1>8. \A r : AllDone(r)' <=> AllDone(r)
  BY <1>1 DEF AllDone, IsAllDone, HasMore
<1>9. CallInv'
  <2> SUFFICES ASSUME NEW v \in Workers, NEW r \in Source, CallsAfter(v, r)
               PROVE  /\ sst'[r] = "open"
                      /\ \E i \in DOMAIN children'[SourceOf(cur'[v])] : children'[SourceOf(cur'[v])][i] = r
                      /\ pc'[v] \in After => AllDone(r)'
    BY DEF CallInv, SourceOf, Calls, CallsAfter
  <2>1. Calls(v, r) /\ r # tsroot
    BY <1>4, <1>5
  <2>2. /\ sst[r] = "open"
        /\ \E i \in DOMAIN children[SourceOf(cur[v])] : children[SourceOf(cur[v])][i] = r
        /\ pc[v] \in After => AllDone(r)
    BY <1>a, <2>1 DEF SourceInv, CallInv
  <2> QED
    BY <1>1, <1>3, <1>6, <1>8, <2>1, <2>2
<1>10. ChildInv'
  <2> SUFFICES ASSUME NEW q \in Source, NEW i \in DOMAIN children'[q]
               PROVE  /\ \E v \in Workers : CallsAfter(v, children'[q][i]) /\ cur'[v] \in InSource(q)
                      /\ \A j \in DOMAIN children'[q] : children'[q][i] = children'[q][j] => i = j
    BY DEF ChildInv, Calls, CallsAfter
  <2> QED
    BY <1>a, <1>1, <1>4 DEF SourceInv, ChildInv
<1>11. HeldInv'
  <2> SUFFICES ASSUME NEW v \in Workers
               PROVE  /\ cur'[v] # NoTask => OpenAfter(cur'[v])
                      /\ \A i \in DOMAIN lq'[v] : OpenAfter(lq'[v][i])
    BY HeldAfter
  <2>1. ASSUME NEW t, OpenTask(t), t \notin InSource(tsroot) PROVE OpenAfter(t)
    <3>1. PICK r \in Source : sst[r] = "open" /\ t \in TakenOf(r)
      BY <2>1 DEF OpenTask
    <3>2. r # tsroot
      BY <1>a, <2>1, <3>1, TakenInSource
    <3> QED
      BY <1>6, <1>1, <3>1, <3>2 DEF OpenAfter, TakenOf
  <2>2. cur' = cur /\ lq' = lq
    BY <1>1
  <2>3. /\ \A u \in Workers : cur[u] \notin InSource(tsroot)
        /\ \A u \in Workers : \A i \in DOMAIN lq[u] : lq[u][i] \notin InSource(tsroot)
    BY <1>2, NotDone
  <2> QED
    BY <1>a, <2>1, <2>2, <2>3 DEF HeldInv
<1>12. PosInv' /\ OnceInv'
  BY <1>a, <1>1 DEF SourceInv, PosInv, OnceInv
<1>13. CountInv'
  <2>1. \A r \in Source : QueuedOf(r)' = QueuedOf(r) /\ RunnersOf(r)' = RunnersOf(r)
    BY <1>1 DEF QueuedOf, RunnersOf, Queued
  <2> QED
    BY <1>a, <1>1, <2>1 DEF SourceInv, CountInv
<1> QED
  BY <1>7, <1>9, <1>10, <1>11, <1>12, <1>13

-----------------------------------------------------------------------------
(* The client.  The steps of the others leave it alone. *)

ClientStill ==
    /\ UNCHANGED <<tsroot, term>> /\ pc'[Main] = pc[Main]
    /\ tsroot # NoSource => sst'[tsroot] = "open"
ClientStep == ReleaseActivate(Main) \/ WaitCheck(Main) \/ WaitWake(Main) \/ Client

(* Every step leaves the client alone or is one of the client's.           *)
LEMMA ClientSteps ==
    ASSUME Inv, Next
    PROVE  ClientStill \/ ClientStep
<1> USE DEF Go, vars, poolVars, lists, srcVars, thrVars, Threads, Unlocked, TypeOK, MainInv, InTaskPcs, Calling, InTask
<1>a. TypeOK /\ PcInv /\ TaskInv /\ MainInv
  BY DEF Inv, PoolInv, SourceInv
<1> USE ThreadAssumption
<1>1. ASSUME NEW w \in Workers, WorkerStarts(w) PROVE ClientStill \/ ClientStep
  BY <1>a, <1>1 DEF WorkerStarts, ClientStill
<1>2. ASSUME NEW w \in Workers, LoopIdle(w) PROVE ClientStill \/ ClientStep
  BY <1>a, <1>2 DEF LoopIdle, ClientStill
<1>3. ASSUME NEW w \in Workers, SigWake(w) PROVE ClientStill \/ ClientStep
  BY <1>a, <1>3 DEF SigWake, ClientStill
<1>4. ASSUME NEW w \in Workers, CheckTerm(w) PROVE ClientStill \/ ClientStep
  BY <1>a, <1>4 DEF CheckTerm, ClientStill
<1>5. ASSUME NEW w \in Workers, LoopRunning(w) PROVE ClientStill \/ ClientStep
  BY <1>a, <1>5 DEF LoopRunning, ClientStill
<1>6. ASSUME NEW w \in Workers, FirstPull(w) PROVE ClientStill \/ ClientStep
  <2>1. sst' = sst
    BY <1>6, PullType DEF FirstPull
  <2> QED
    BY <1>a, <1>6, <2>1 DEF FirstPull, ClientStill
<1>7. ASSUME NEW w \in Workers, FirstSpawn(w) PROVE ClientStill \/ ClientStep
  BY <1>a, <1>7 DEF FirstSpawn, ClientStill
<1>8. ASSUME NEW w \in Workers, StartTask(w) PROVE ClientStill \/ ClientStep
  BY <1>a, <1>8, AfterStart, ProgramAssumption DEF StartTask, ClientStill
<1>9. ASSUME NEW w \in Workers, QueueEmpty(w) PROVE ClientStill \/ ClientStep
  BY <1>a, <1>9 DEF QueueEmpty, ClientStill
<1>10. ASSUME NEW w \in Workers, BatchPull(w) PROVE ClientStill \/ ClientStep
  <2>1. Batched(w)
    BY <1>a, <1>10, BatchPullCases
  <2>2. sst' = sst
    <3>1. CASE UNCHANGED <<lq, srcVars>>
      BY <3>1
    <3>2. CASE PullInto(w)
      BY <1>10, <3>2, PullType DEF BatchPull
    <3> QED
      BY <2>1, <3>1, <3>2 DEF Batched
  <2> QED
    BY <1>a, <2>1, <2>2 DEF Batched, ClientStill
<1>11. ASSUME NEW w \in Workers, BatchSpawn(w) PROVE ClientStill \/ ClientStep
  BY <1>a, <1>11 DEF BatchSpawn, ClientStill
<1>12. ASSUME NEW w \in Workers, Settle(w) PROVE ClientStill \/ ClientStep
  <2>1. Settled(w)
    BY <1>a, <1>12, SettleCases
  <2> QED
    BY <1>a, <2>1 DEF Settled, ClientStill
<1>13. ASSUME NEW w \in Workers, Yield(w) PROVE ClientStill \/ ClientStep
  BY <1>a, <1>13 DEF Yield, ClientStill
<1>14. ASSUME NEW w \in Workers, WorkerExits(w) PROVE ClientStill \/ ClientStep
  BY <1>a, <1>14 DEF WorkerExits, ClientStill
<1>15. ASSUME NEW w \in Workers, SubmitNested(w) PROVE ClientStill \/ ClientStep
  BY <1>a, <1>15 DEF SubmitNested, ClientStill
<1>16. ASSUME NEW w \in Workers, TaskThrows(w) PROVE ClientStill \/ ClientStep
  BY <1>a, <1>16 DEF TaskThrows, ClientStill
<1>17. ASSUME NEW w \in Workers, notify_exception(w) PROVE ClientStill \/ ClientStep
  BY <1>a, <1>17 DEF notify_exception, ClientStill
<1>18. ASSUME NEW w \in Workers, notify_finish_task(w) PROVE ClientStill \/ ClientStep
  BY <1>a, <1>18 DEF notify_finish_task, ClientStill
<1>19. ASSUME NEW w \in Workers, ReleaseCheck(w) PROVE ClientStill \/ ClientStep
  <2>1. Checked(w)
    BY <1>a, <1>19, ReleaseCheckCases
  <2>2. UNCHANGED <<tsroot, term, sst>>
    BY <2>1 DEF Checked
  <2>3. pc'[Main] = pc[Main]
    BY <1>a, <2>1 DEF Checked
  <2> QED
    BY <1>a, <2>2, <2>3 DEF ClientStill
<1>20. ASSUME NEW w \in Workers, CreatedReady(w) PROVE ClientStill \/ ClientStep
  BY <1>a, <1>20 DEF CreatedReady, ClientStill
<1>21. ASSUME NEW w \in Workers, ReleaseMove(w) PROVE ClientStill \/ ClientStep
  BY <1>a, <1>21 DEF ReleaseMove, ClientStill
<1>22. ASSUME NEW w \in Workers, ExternalEvent(w) PROVE ClientStill \/ ClientStep
  BY <1>a, <1>22 DEF ExternalEvent, ClientStill
<1>23. ASSUME NEW w \in Workers, Acquire(w) PROVE ClientStill \/ ClientStep
  <2>1. Acquired(w)
    BY <1>a, <1>23, AcquireCases
  <2> QED
    BY <1>a, <2>1 DEF Acquired, ClientStill
<1>24. ASSUME NEW w \in Workers, CpuWake(w) PROVE ClientStill \/ ClientStep
  BY <1>a, <1>24 DEF CpuWake, ClientStill
<1>25. ASSUME NEW w \in Workers, CpuCheck(w) PROVE ClientStill \/ ClientStep
  BY <1>a, <1>25 DEF CpuCheck, AfterAcquire, ClientStill
<1>26. ASSUME NEW w \in Workers, SubmitReturns(w) PROVE ClientStill \/ ClientStep
  <2>1. Nested[cur[w]] # tsroot \/ tsroot = NoSource
    BY <1>a, <1>26 DEF SubmitReturns, TaskInv
  <2>2. /\ \E x \in {"threw", "returned"} : sst' = [sst EXCEPT ![Nested[cur[w]]] = x]
        /\ \E l \in {"throw", "tail"} : pc' = [pc EXCEPT ![w] = l]
        /\ UNCHANGED <<tsroot, term>>
    BY <1>26 DEF SubmitReturns
  <2> QED
    BY <1>a, <2>1, <2>2 DEF ClientStill
<1>27. ASSUME NEW th \in Threads, ReleaseActivate(th) PROVE ClientStill \/ ClientStep
  <2>1. CASE th = Main
    BY <1>27, <2>1 DEF ClientStep
  <2>2. CASE th # Main
    BY <1>a, <1>27, <2>2 DEF ReleaseActivate, ClientStill
  <2> QED
    BY <2>1, <2>2
<1>28. ASSUME NEW th \in Threads, WaitCheck(th) PROVE ClientStill \/ ClientStep
  <2>1. CASE th = Main
    BY <1>28, <2>1 DEF ClientStep
  <2>2. CASE th # Main
    BY <1>a, <1>28, <2>2 DEF WaitCheck, ClientStill
  <2> QED
    BY <2>1, <2>2
<1>29. ASSUME NEW th \in Threads, WaitWake(th) PROVE ClientStill \/ ClientStep
  <2>1. CASE th = Main
    BY <1>29, <2>1 DEF ClientStep
  <2>2. CASE th # Main
    BY <1>a, <1>29, <2>2 DEF WaitWake, ClientStill
  <2> QED
    BY <2>1, <2>2
<1>30. ASSUME SubmitRoot PROVE ClientStill \/ ClientStep
  BY <1>30 DEF ClientStep, Client
<1>31. ASSUME RootReturns PROVE ClientStill \/ ClientStep
  BY <1>31 DEF ClientStep, Client
<1>32. ASSUME SetTerm PROVE ClientStill \/ ClientStep
  BY <1>32 DEF ClientStep, Client
<1>33. ASSUME TerminateNext PROVE ClientStill \/ ClientStep
  BY <1>33 DEF ClientStep, Client
<1>34. ASSUME Join PROVE ClientStill \/ ClientStep
  BY <1>34 DEF ClientStep, Client
<1>35. ASSUME Finished PROVE ClientStill \/ ClientStep
  BY <1>a, <1>35 DEF Finished, ClientStill
<1> QED
  BY <1>1, <1>2, <1>3, <1>4, <1>5, <1>6, <1>7, <1>8, <1>9, <1>10, <1>11, <1>12, <1>13, <1>14, <1>15, <1>16, <1>17, <1>18, <1>19, <1>20, <1>21, <1>22, <1>23, <1>24, <1>25, <1>26, <1>27, <1>28, <1>29, <1>30, <1>31, <1>32, <1>33, <1>34, <1>35 DEF Next, WorkerMain, TaskBody, AnyThread, Client

(* A source that is done gets no task and no child again. *)
LEMMA DoneStep ==
    ASSUME Inv, Next, NEW r \in Source, AllDone(r)
    PROVE  AllDone(r)'
<1>a. TypeOK /\ SourceInv /\ PosInv /\ HeldInv /\ TaskInv
  BY DEF Inv, PoolInv, SourceInv
<1>b. /\ \A w \in Workers : cur[w] \notin InSource(r)
      /\ \A w \in Workers : \A i \in DOMAIN lq[w] : lq[w][i] \notin InSource(r)
      /\ ~HasMore(r)
  BY NotDone
<1> USE DEF AllDone, IsAllDone, HasMore
<1>1. CASE Still
  BY <1>1 DEF Still
<1>2. ASSUME NEW w \in Workers, FirstPull(w) \/ BatchPull(w) PROVE AllDone(r)'
  <2>1. (PullInto(w) /\ pc[w] \in {"first", "batch"}) \/ UNCHANGED <<lq, srcVars>>
    BY <1>2 DEF FirstPull, BatchPull
  <2>2. \/ UNCHANGED <<lq, srcVars>>
        \/ \E s \in Source, n \in Nat : PullsBatch(w, s, n)
        \/ \E v \in Workers : Steals(w, v)
    BY <2>1, PullType
  <2>3. ASSUME NEW s \in Source, NEW n \in Nat, PullsBatch(w, s, n) PROVE AllDone(r)'
    <3>1. s # r
      BY <1>b, <2>3 DEF PullsBatch
    <3> QED
      BY <1>a, <2>3, <3>1 DEF PullsBatch, TypeOK
  <2>4. ASSUME NEW v \in Workers, Steals(w, v) PROVE AllDone(r)'
    BY <2>4 DEF Steals, srcVars
  <2>5. CASE UNCHANGED <<lq, srcVars>>
    BY <2>5 DEF srcVars
  <2> QED
    BY <2>2, <2>3, <2>4, <2>5
<1>3. ASSUME NEW w \in Workers, StartTask(w) PROVE AllDone(r)'
  <2>1. SourceOf(Head(lq[w])) \in Source /\ Queued(Head(lq[w]))
        /\ Head(lq[w]) \in InSource(SourceOf(Head(lq[w])))
    BY <1>3, StartQueued
  <2>2. SourceOf(Head(lq[w])) # r
    BY <1>b, <2>1 DEF Queued
  <2> QED
    BY <1>a, <1>3, <2>1, <2>2 DEF StartTask, TypeOK
<1>4. ASSUME NEW w \in Workers, SubmitNested(w) \/ notify_finish_task(w) \/ SubmitReturns(w)
      PROVE  AllDone(r)'
  <2>1. SourceOf(cur[w]) # r
    BY <1>a, <1>b, <1>4, Mine DEF SubmitNested, notify_finish_task, SubmitReturns, InTaskPcs, Calling
  <2> QED
    BY <1>a, <1>4, <2>1 DEF SubmitNested, notify_finish_task, SubmitReturns, TypeOK
<1>5. CASE SubmitRoot \/ RootReturns
  BY <1>5 DEF SubmitRoot, RootReturns
<1> QED
  BY <1>1, <1>2, <1>3, <1>4, <1>5, StillStep DEF SourceStep

(* Every step keeps what is true of the sources. *)
LEMMA SourcesStep ==
    ASSUME Inv, Next, TaskInv'
    PROVE  OpenInv' /\ CallInv' /\ ChildInv' /\ PosInv' /\ HeldInv' /\ OnceInv' /\ CountInv'
  BY StillStep, StillKeeps, PullKeeps, StartKeeps, NestedKeeps, FinishKeeps, ReturnKeeps,
     RootKeeps, RootReturnKeeps DEF SourceStep

(* The counts are natural numbers because they are sizes of sets. *)
LEMMA CountsStep ==
    ASSUME Inv, Next, CountInv'
    PROVE  npending' \in [Source -> Nat] /\ srunning' \in [Source -> Nat]
<1>a. TypeOK
  BY DEF Inv
<1> DEFINE F(f) == f = [s \in Source |-> f[s]]
<1>b. F(npending) /\ F(srunning)
  BY <1>a DEF TypeOK
<1>1. F(npending') /\ F(srunning')
  <2>1. CASE Still
    BY <1>b, <2>1 DEF Still
  <2>2. ASSUME NEW w \in Workers, FirstPull(w) \/ BatchPull(w) PROVE F(npending') /\ F(srunning')
    <3>1. (PullInto(w) /\ pc[w] \in {"first", "batch"}) \/ UNCHANGED <<lq, srcVars>>
      BY <2>2 DEF FirstPull, BatchPull
    <3>2. \/ UNCHANGED <<lq, srcVars>>
          \/ \E s \in Source, n \in Nat : PullsBatch(w, s, n)
          \/ \E v \in Workers : Steals(w, v)
      BY <3>1, PullType
    <3> QED
      BY <1>a, <1>b, <3>2 DEF PullsBatch, Steals, srcVars, TypeOK
  <2>3. ASSUME NEW w \in Workers, StartTask(w) \/ notify_finish_task(w)
        PROVE  F(npending') /\ F(srunning')
    BY <1>a, <1>b, <2>3 DEF StartTask, notify_finish_task, TypeOK
  <2>4. ASSUME NEW w \in Workers, SubmitNested(w) \/ SubmitReturns(w)
        PROVE  F(npending') /\ F(srunning')
    BY <1>b, <2>4 DEF SubmitNested, SubmitReturns
  <2>5. CASE SubmitRoot \/ RootReturns
    BY <1>b, <2>5 DEF SubmitRoot, RootReturns
  <2> QED
    BY <2>1, <2>2, <2>3, <2>4, <2>5, StillStep DEF SourceStep
<1>2. \A s \in Source : npending'[s] \in Nat /\ srunning'[s] \in Nat
  <2> SUFFICES ASSUME NEW s \in Source PROVE npending'[s] \in Nat /\ srunning'[s] \in Nat
    OBVIOUS
  <2> DEFINE Q == {t \in InSource(s) : Queued(t)'}
             R == {w \in Workers : cur'[w] \in InSource(s)}
  <2>1. npending'[s] = Cardinality(Q) /\ srunning'[s] = Cardinality(R)
    BY DEF CountInv, QueuedOf, RunnersOf
  <2>2. Q \subseteq Task /\ R \subseteq Workers
    BY SourceOfTask
  <2>3. Cardinality(Q) \in Nat /\ Cardinality(R) \in Nat
    BY <2>2, FiniteAssumption, NotMore
  <2> QED
    BY <2>1, <2>3
<1> QED
  BY <1>1, <1>2

DoneAfter(r) == /\ npending'[r] = 0 /\ srunning'[r] = 0 /\ children'[r] = <<>>
                /\ ~ (pos'[r] < Len(TaskSeq[r]))

(* The client waits as long as the pool has its source.                    *)
LEMMA MainStep ==
    ASSUME Inv, Next
    PROVE  MainInv'
<1>a. TypeOK /\ PcInv /\ SourceInv /\ TaskInv /\ MainInv
  BY DEF Inv, PoolInv, SourceInv
<1>b. tsroot \in Source \cup {NoSource} /\ NoSource \notin Source
  BY <1>a, ProgramAssumption DEF TypeOK
<1>c. /\ tsroot = NoSource <=> pc[Main] \in Over \cup {"client"}
      /\ term <=> pc[Main] \in Over
      /\ pc[Main] = "unsub" => AllDone(tsroot)
      /\ tsroot # NoSource => sst[tsroot] = "open" /\ \A t \in Task : Nested[t] # tsroot
  BY <1>a DEF MainInv
<1> SUFFICES /\ tsroot' = NoSource <=> pc'[Main] \in Over \cup {"client"}
             /\ term' <=> pc'[Main] \in Over
             /\ pc'[Main] = "unsub" => DoneAfter(tsroot')
             /\ tsroot' # NoSource => sst'[tsroot'] = "open" /\ \A t \in Task : Nested[t] # tsroot'
  BY DEF MainInv, AllDone, IsAllDone, HasMore, DoneAfter
<1>d. tsroot # NoSource /\ AllDone(tsroot) => DoneAfter(tsroot)
  <2>1. \A r \in Source : AllDone(r) => DoneAfter(r)
    BY DoneStep DEF AllDone, IsAllDone, HasMore, DoneAfter
  <2> QED
    BY <1>b, <2>1
<1> USE DEF Over
<1>1. CASE ClientStill
  BY <1>1, <1>b, <1>c, <1>d DEF ClientStill
<1> USE ThreadAssumption DEF Threads, Go, TypeOK, InTask, Awaited, thrVars, srcVars, poolVars, lists
<1>2. CASE ReleaseActivate(Main)
  BY <1>2, <1>a, <1>b, <1>c DEF ReleaseActivate
<1>3. CASE WaitCheck(Main)
  <2>1. /\ pc[Main] = "tswait" /\ UNCHANGED <<tsroot, sst, term>>
        /\ \E l \in {"tsblock", "unsub"} :
              pc' = [pc EXCEPT ![Main] = l] /\ (l = "tsblock" \/ AllDone(tsroot))
    BY <1>3 DEF WaitCheck, AllDone
  <2> QED
    BY <2>1, <1>a, <1>b, <1>c, <1>d
<1>4. CASE WaitWake(Main)
  BY <1>4, <1>a, <1>b, <1>c DEF WaitWake
<1>5. CASE SubmitRoot
  <2>1. PICK i \in DOMAIN Roots : sst' = [sst EXCEPT ![Roots[i]] = "open"] /\ tsroot' = Roots[i]
    BY <1>5 DEF SubmitRoot
  <2>2. pc[Main] = "client" /\ pc' = [pc EXCEPT ![Main] = "rel3"] /\ term' = term
    BY <1>5 DEF SubmitRoot
  <2>3. Roots[i] \in Source
    BY ProgramAssumption, LenProperties, ElementOfSeq
  <2>4. \A t \in Task : Nested[t] # Roots[i]
    BY OnceAssumption
  <2> QED
    BY <2>1, <2>2, <2>3, <2>4, <1>a, <1>b, <1>c
<1>6. CASE RootReturns
  BY <1>6, <1>a, <1>b, <1>c DEF RootReturns
<1>7. CASE SetTerm
  BY <1>7, <1>a, <1>b, <1>c DEF SetTerm
<1>8. CASE TerminateNext
  <2>1. Ended
    BY <1>8, <1>a, TerminateCases
  <2> QED
    BY <2>1, <1>a, <1>b, <1>c DEF Ended
<1>9. CASE Join
  BY <1>9, <1>a, <1>b, <1>c DEF Join
<1> QED
  BY <1>1, <1>2, <1>3, <1>4, <1>5, <1>6, <1>7, <1>8, <1>9, ClientSteps DEF ClientStep, Client

-----------------------------------------------------------------------------
(* The invariant *)

(* The invariant holds at first.                                           *)
LEMMA InitInv ==
    ASSUME Init
    PROVE  Inv
<1>1. idle \subseteq Workers
  BY DEF Init
<1> USE ThreadAssumption, ProgramAssumption, CpuAssumption DEF Init
<1>3. \A w \in Workers : /\ pc[w] \in {"loop", "unborn"} /\ (w \in idle <=> pc[w] = "loop")
                         /\ lq[w] = <<>> /\ cur[w] = NoTask /\ state[w] = "idle" /\ cpu[w] = FALSE
  BY DEF Threads
<1>4. pc[Main] = "client"
  BY DEF Threads
<1>2. TypeOK
  <2>1. <<>> \in Seq(Task) /\ <<>> \in Seq(Source)
    BY EmptySeq
  <2>2. children \in [Source -> Seq(Source)] /\ lq \in [Workers -> Seq(Task)]
    BY <2>1
  <2>3. pc \in [Threads -> Labels]
    BY DEF Labels, OnCpu
  <2> QED
    BY <1>1, <2>2, <2>3 DEF TypeOK
<1>m. mtx = NoWorker
  OBVIOUS
<1> HIDE DEF Init
<1>5. PcInv /\ TaskInv /\ LockInv
  BY <1>m, <1>3, <1>4 DEF PcInv, TaskInv, LockInv, InTaskPcs, Calling, Locked, WorkerPcs, MainPcs, Threads
<1>8. QueueInv
  BY <1>3 DEF QueueInv, Working, InTaskPcs, Calling
<1>16. WaitInv
  <2>1. Blocked = {}
    BY <1>3 DEF Blocked
  <2> QED
    BY <2>1, FS_EmptySet DEF WaitInv, Init
<1> USE DEF Init
<1>6. OneList
  BY DEF OneList
<1>7. ListInv
  BY <1>1, <1>3 DEF ListInv, OnCpu, OffPool
<1>9. MainInv
  BY <1>4 DEF MainInv, Over
<1>10. \A w \in Workers : \A s : ~Calls(w, s)
  BY <1>3 DEF Calls
<1>11. OpenInv /\ CallInv /\ ChildInv
  <2>1. \A s \in Source : sst[s] = "new" /\ DOMAIN children[s] = {}
    OBVIOUS
  <2> QED
    BY <1>10, <2>1 DEF OpenInv, CallInv, ChildInv
<1>12. PosInv
  <2>1. \A s \in Source : Len(TaskSeq[s]) \in Nat /\ pos[s] = 0
    BY LenProperties
  <2> QED
    BY <2>1 DEF PosInv
<1>13. HeldInv /\ OnceInv
  <2>1. \A w \in Workers : DOMAIN lq[w] = {}
    BY <1>3
  <2> QED
    BY <1>3, <2>1 DEF HeldInv, OnceInv
<1>14. CountInv
  <2> SUFFICES ASSUME NEW s \in Source
               PROVE  npending[s] = Cardinality(QueuedOf(s)) /\ srunning[s] = Cardinality(RunnersOf(s))
    BY DEF CountInv
  <2>1. NoTask \notin InSource(s)
    BY SourceOfTask
  <2>2. \A w \in Workers : DOMAIN lq[w] = {}
    BY <1>3
  <2>3. QueuedOf(s) = {} /\ RunnersOf(s) = {}
    BY <1>3, <2>1, <2>2 DEF QueuedOf, RunnersOf, Queued
  <2> QED
    BY <2>3, FS_EmptySet
<1>15. CpuInv
  BY <1>3, FS_EmptySet DEF CpuInv
<1>17. NoCpuWasted
  BY DEF NoCpuWasted
<1> QED
  BY <1>2, <1>5, <1>6, <1>7, <1>8, <1>9, <1>11, <1>12, <1>13, <1>14, <1>15, <1>16, <1>17
     DEF Inv, PoolInv, SourceInv

(* A step that changes nothing. *)
LEMMA StutterInv ==
    ASSUME Inv, UNCHANGED vars
    PROVE  Inv'
<1> USE DEF vars, poolVars, srcVars, thrVars
<1>2. TypeOK' /\ PoolInv'
  BY DEF Inv, PoolInv, TypeOK, PcInv, TaskInv, LockInv, OneList, ListInv, QueueInv
<1>3. MainInv' /\ PosInv' /\ HeldInv' /\ OnceInv'
  BY DEF Inv, SourceInv, MainInv, PosInv, HeldInv, OnceInv, OpenTask, TakenOf, AllDone, IsAllDone, HasMore
<1>4. OpenInv' /\ CallInv' /\ ChildInv' /\ CountInv'
  <2>1. Still
    BY DEF Still
  <2> QED
    BY <1>2, <2>1, StillKeeps DEF PoolInv
<1>5. CpuInv' /\ WaitInv' /\ NoCpuWasted'
  BY DEF Inv, CpuInv, WaitInv, Blocked, NoCpuWasted
<1> QED
  BY <1>2, <1>3, <1>4, <1>5 DEF Inv, SourceInv

(* Every step keeps the invariant.                                         *)
LEMMA StepInv ==
    ASSUME Inv, [Next]_vars
    PROVE  Inv'
<1>1. CASE Next
  <2>1. PoolInv'
    BY <1>1, PcStep, TaskStep, LockStep, OneListStep, ListStep, QueueStep DEF PoolInv
  <2>2. CpuInv' /\ nrunning' \in Nat
    BY <1>1, CpuStep
  <2>3. WaitInv' /\ nwaiting' \in Nat
    BY <1>1, WaitStep
  <2>4. NoCpuWasted'
    BY <1>1, <2>2, WastedStep
  <2>5. OpenInv' /\ CallInv' /\ ChildInv' /\ PosInv' /\ HeldInv' /\ OnceInv' /\ CountInv'
    BY <1>1, <2>1, SourcesStep DEF PoolInv
  <2>6. MainInv'
    BY <1>1, MainStep
  <2>7. TypeOK'
    BY <1>1, <2>2, <2>3, <2>5, CountsStep, TypeStep DEF Counters
  <2> QED
    BY <2>1, <2>2, <2>3, <2>4, <2>5, <2>6, <2>7 DEF Inv, SourceInv
<1>2. CASE UNCHANGED vars
  BY <1>2, StutterInv
<1> QED
  BY <1>1, <1>2

(* The inductive invariant: where every worker is in the code, in the      *)
(* lists of the pool and with its tasks, and what the sources say of it,   *)
(* whatever the number of workers, CPUs, tasks and nested calls            *)
(* (thread_pool.C).                                                        *)
THEOREM Invariance == Spec => []Inv
<1>1. Init => Inv
  BY InitInv
<1>2. Inv /\ [Next]_vars => Inv'
  BY StepInv
<1> QED
  BY <1>1, <1>2, PTL DEF Spec

-----------------------------------------------------------------------------
(* What the pool promises *)

(* The workers at a label that needs a CPU are in m_running.               *)
LEMMA CpuLimitHolds ==
    ASSUME Inv
    PROVE  CpuLimit
<1> DEFINE S == {w \in Workers : pc[w] \in OnCpu}
<1>1. TypeOK /\ ListInv /\ CpuInv
  BY DEF Inv, PoolInv
<1>2. S \subseteq running
  BY <1>1 DEF ListInv
<1>3. IsFiniteSet(running)
  BY <1>1, FiniteAssumption, NotMore DEF TypeOK
<1>4. Cardinality(S) <= Cardinality(running) /\ Cardinality(S) \in Nat
  BY <1>2, <1>3, NotMore
<1>5. nrunning = Cardinality(running) /\ nrunning <= NCpus /\ nrunning \in Nat
  BY <1>1 DEF CpuInv, TypeOK
<1>6. Cardinality(S) <= NCpus
  <2> HIDE DEF S
  <2> QED
    BY <1>4, <1>5, CpuAssumption
<1> QED
  BY <1>5, <1>6 DEF CpuLimit

(* Never more than NCpus workers are at a step that needs a CPU            *)
(* (thread_pool.h:60), and m_nrunning is the number of workers in          *)
(* m_running.                                                              *)
THEOREM CpusRespected == Spec => []CpuLimit
  BY Invariance, CpuLimitHolds, PTL

(* A set without two elements.                                             *)
LEMMA AtMostOne ==
    ASSUME NEW S, \A x, y \in S : x = y
    PROVE  Cardinality(S) <= 1
<1>1. CASE S = {}
  BY <1>1, FS_EmptySet
<1>2. CASE S # {}
  <2>1. PICK x : S = {x}
    BY <1>2
  <2> QED
    BY <2>1, FS_Singleton
<1> QED
  BY <1>1, <1>2

(* The lists, from the invariant.                                          *)
LEMMA ListPositionsHold ==
    ASSUME Inv
    PROVE  ListPositions
<1>1. TypeOK /\ ListInv /\ OneList
  BY DEF Inv, PoolInv
<1> SUFFICES ASSUME NEW w \in Workers
             PROVE  /\ pc[w] \in OnCpu => w \in running
                    /\ pc[w] \in OffPool => w \in waiting
                    /\ pc[w] \in {"cpuwait", "cpucheck"} => w \in waitingcpu \cup running
                    /\ Cardinality({l \in {"i", "r", "w", "c"} :
                          w \in CASE l = "i" -> idle [] l = "r" -> running
                                  [] l = "w" -> waiting [] l = "c" -> waitingcpu}) <= 1
  BY <1>1 DEF ListPositions, OffPool
<1> DEFINE S == {l \in {"i", "r", "w", "c"} :
                    w \in CASE l = "i" -> idle [] l = "r" -> running
                            [] l = "w" -> waiting [] l = "c" -> waitingcpu}
<1>2. \A l \in S : \/ l = "i" /\ w \in idle
                   \/ l = "r" /\ w \in running
                   \/ l = "w" /\ w \in waiting
                   \/ l = "c" /\ w \in waitingcpu
  OBVIOUS
<1> HIDE DEF S
<1>3. \A x, y \in S : x = y
  BY <1>1, <1>2 DEF OneList
<1>4. Cardinality(S) <= 1
  BY <1>3, AtMostOne
<1>5. /\ pc[w] \in OnCpu => w \in running
      /\ pc[w] \in OffPool => w \in waiting
      /\ pc[w] \in {"cpuwait", "cpucheck"} => w \in waitingcpu \cup running
  BY <1>1 DEF ListInv
<1> QED
  BY <1>4, <1>5 DEF S

(* Whatever the interleaving, a worker is in the list that the code takes  *)
(* it out of next (remove_from_list, thread_pool.C:442), and in no         *)
(* other.                                                                  *)
THEOREM PositionsRight == Spec => []ListPositions
  BY Invariance, ListPositionsHold, PTL

(* A worker waits for a CPU only while all are taken or about to be handed *)
(* over.                                                                   *)
THEOREM CpusHandedOver == Spec => []NoCpuWasted
<1>1. Inv => NoCpuWasted
  BY DEF Inv
<1> QED
  BY <1>1, Invariance, PTL

(* What is referred to is open.                                            *)
LEMMA LifetimeHolds ==
    ASSUME Inv
    PROVE  Lifetime
<1>a. TypeOK /\ PosInv /\ HeldInv /\ ChildInv /\ CallInv /\ MainInv
  BY DEF Inv, SourceInv
<1>1. ASSUME NEW t, OpenTask(t), NEW s \in Source, t \in InSource(s) \/ s = SourceOf(t)
      PROVE  sst[s] = "open" /\ sst[SourceOf(t)] = "open"
  <2>1. PICK r \in Source : sst[r] = "open" /\ t \in TakenOf(r)
    BY <1>1 DEF OpenTask
  <2>2. t \in InSource(r)
    BY <1>a, <2>1, TakenInSource
  <2> QED
    BY <1>1, <2>1, <2>2, SourceOfTask
<1>2. ASSUME NEW t, OpenTask(t) PROVE sst[SourceOf(t)] = "open"
  <2>1. PICK r \in Source : t \in TakenOf(r)
    BY <1>2 DEF OpenTask
  <2>2. t \in InSource(r)
    BY <1>a, <2>1, TakenInSource
  <2> QED
    BY <1>1, <1>2, <2>2
<1>3. \A w \in Workers : /\ \A i \in DOMAIN lq[w] : sst[SourceOf(lq[w][i])] = "open"
                         /\ cur[w] # NoTask => sst[SourceOf(cur[w])] = "open"
  BY <1>2, <1>a DEF HeldInv
<1>4. ASSUME NEW s \in Source, NEW i \in DOMAIN children[s]
      PROVE  sst[s] = "open" /\ sst[children[s][i]] = "open"
  <2>1. children[s][i] \in Source
    BY <1>a, LenProperties, ElementOfSeq DEF TypeOK
  <2>2. PICK w \in Workers : Calls(w, children[s][i]) /\ cur[w] \in InSource(s)
    BY <1>a DEF ChildInv
  <2>3. sst[children[s][i]] = "open"
    BY <1>a, <2>1, <2>2 DEF CallInv
  <2>4. OpenTask(cur[w])
    BY <1>a, <2>2 DEF HeldInv, Calls
  <2> QED
    BY <1>1, <2>2, <2>3, <2>4
<1>5. tsroot # NoSource => sst[tsroot] = "open"
  BY <1>a DEF MainInv
<1> QED
  BY <1>3, <1>4, <1>5 DEF Lifetime

(* A queue never holds more than all tasks. *)
LEMMA QueueBound ==
    ASSUME Inv, NEW w \in Workers
    PROVE  DOMAIN lq[w] \subseteq 1..Cardinality(Task)
<1>1. TypeOK /\ OnceInv
  BY DEF Inv, SourceInv
<1>2. lq[w] \in Seq(Task) /\ Len(lq[w]) \in Nat /\ DOMAIN lq[w] = 1..Len(lq[w])
  BY <1>1, LenProperties DEF TypeOK
<1>3. lq[w] \in Injection(1..Len(lq[w]), Task)
  <2>1. lq[w] \in [1..Len(lq[w]) -> Task]
    BY <1>2, LenProperties
  <2>2. \A i, j \in DOMAIN lq[w] : lq[w][i] = lq[w][j] => i = j
    BY <1>1 DEF OnceInv
  <2> QED
    BY <2>1, <2>2 DEF Injection, IsInjective
<1>4. Cardinality(1..Len(lq[w])) <= Cardinality(Task)
  BY <1>3, FiniteAssumption, FS_Injection
<1> DEFINE n == Len(lq[w])
           m == Cardinality(Task)
<1>5. n \in Nat /\ m \in Nat
  BY <1>2, FiniteAssumption, FS_CardinalityType
<1> HIDE DEF n, m
<1>6. Cardinality(1..n) = n
  <2>1. Cardinality(1..n) = IF 1 > n THEN 0 ELSE n - 1 + 1
    BY <1>5, FS_Interval
  <2> QED
    BY <1>5, <2>1
<1>7. n <= m
  BY <1>4, <1>6 DEF n, m
<1>8. 1..n \subseteq 1..m
  BY <1>5, <1>7
<1> QED
  BY <1>2, <1>8 DEF n, m

(* m_npending counts places in queues: as many as queued tasks.            *)
LEMMA CountsHold ==
    ASSUME Inv
    PROVE  Counts
<1>a. TypeOK /\ OnceInv /\ CountInv
  BY DEF Inv, SourceInv
<1> SUFFICES ASSUME NEW s \in Source
             PROVE  /\ npending[s] = Cardinality({p \in Workers \X (1..Cardinality(Task)) :
                            p[2] \in DOMAIN lq[p[1]] /\ lq[p[1]][p[2]] \in InSource(s)})
                    /\ srunning[s] = Cardinality({w \in Workers : cur[w] \in InSource(s)})
  BY DEF Counts
<1> DEFINE P == {p \in Workers \X (1..Cardinality(Task)) :
                    p[2] \in DOMAIN lq[p[1]] /\ lq[p[1]][p[2]] \in InSource(s)}
           Q == QueuedOf(s)
           f == [p \in P |-> lq[p[1]][p[2]]]
<1>1. \A p \in P : /\ p[1] \in Workers /\ p[2] \in DOMAIN lq[p[1]]
                   /\ p = <<p[1], p[2]>> /\ lq[p[1]][p[2]] \in InSource(s)
  <2> TAKE p \in P
  <2> DEFINE K == 1..Cardinality(Task)
  <2>1. p \in Workers \X K /\ p[2] \in DOMAIN lq[p[1]] /\ lq[p[1]][p[2]] \in InSource(s)
    OBVIOUS
  <2> HIDE DEF K, P
  <2>2. p[1] \in Workers /\ p = <<p[1], p[2]>>
    BY <2>1
  <2> QED
    BY <2>1, <2>2
<1>2. \A p \in P : f[p] \in Q
  BY <1>1 DEF QueuedOf, Queued
<1>3. \A p, q \in P : f[p] = f[q] => p = q
  <2> SUFFICES ASSUME NEW p \in P, NEW q \in P, lq[p[1]][p[2]] = lq[q[1]][q[2]] PROVE p = q
    OBVIOUS
  <2>1. p[1] = q[1] /\ p[2] = q[2]
    BY <1>a, <1>1 DEF OnceInv
  <2> QED
    BY <1>1, <2>1
<1>4. \A t \in Q : \E p \in P : f[p] = t
  <2> SUFFICES ASSUME NEW t \in Q PROVE \E p \in P : lq[p[1]][p[2]] = t
    OBVIOUS
  <2>1. PICK w \in Workers : \E i \in DOMAIN lq[w] : lq[w][i] = t
    BY DEF QueuedOf, Queued
  <2>2. PICK i \in DOMAIN lq[w] : lq[w][i] = t
    BY <2>1
  <2>3. i \in 1..Cardinality(Task) /\ t \in InSource(s)
    BY QueueBound DEF QueuedOf
  <2>4. <<w, i>> \in P
    BY <2>2, <2>3
  <2> QED
    BY <2>2, <2>4
<1>5. f \in [P -> Q] /\ DOMAIN f = P
  BY <1>2
<1>6. IsFiniteSet(Q)
  BY SourceOfTask, FiniteAssumption, NotMore DEF QueuedOf
<1> HIDE DEF P, Q, f
<1>7. f \in Injection(P, Q) /\ f \in Surjection(P, Q)
  BY <1>3, <1>4, <1>5 DEF Injection, Surjection, IsInjective
<1>8. Cardinality(P) = Cardinality(Q)
  BY <1>6, <1>7, FS_Injection
<1>9. npending[s] = Cardinality(Q) /\ srunning[s] = Cardinality(RunnersOf(s))
  BY <1>a DEF CountInv, Q
<1> QED
  BY <1>8, <1>9 DEF P, RunnersOf

(* No queue, worker, parent or pool refers to a source whose submit has    *)
(* returned; m_npending and m_nrunning are exact; a worker that pulls has  *)
(* an empty queue.                                                         *)
THEOREM SourcesRight == Spec => []SourcesExact
<1>1. ASSUME Inv PROVE SourcesExact
  <2>1. QueueEmptyOnEntry
    BY <1>1 DEF Inv, PoolInv, QueueInv, QueueEmptyOnEntry, Working, InTaskPcs, Calling
  <2> QED
    BY <1>1, <2>1, LifetimeHolds, CountsHold DEF SourcesExact
<1> QED
  BY <1>1, Invariance, PTL
-----------------------------------------------------------------------------
(* The promise of submit: ThreadPool implements TaskSubmit.                *)
(*                                                                         *)
(* The abstract state is TaskView and sst.  A task is started once it was  *)
(* taken from its source and is in no queue; the steps that move tasks     *)
(* between queues, lists and threads leave that as it is, and the nine     *)
(* steps that do not are the steps of TaskSubmit.  Beyond Inv the proof    *)
(* needs ViewInv: where the exceptions are.                                *)


Started(t) == Taken(t) /\ ~Queued(t)
Running(t) == \E w \in Workers : cur[w] = t

(* A task that failed or made its call is started. *)
StartedInv == \A t \in Task :
    t \in failed \/ (Nested[t] # NoSource /\ sst[Nested[t]] # "new") => Started(t)
(* A source remembers an exception exactly when a task of it threw. *)
ExcInv == \A s \in Source : exc[s] <=> \E t \in InSource(s) : t \in failed
(* A task that ends well had its call return, and one that throws has a    *)
(* reason: its own exception or the one its call rethrew.                  *)
ThrowInv == \A w \in Workers : cur[w] # NoTask =>
    /\ cur[w] \in failed <=> pc[w] = "finish"
    /\ pc[w] = "tail" /\ Nested[cur[w]] # NoSource => sst[Nested[cur[w]]] = "returned"
    /\ pc[w] \in {"throw", "finish"} =>
         \/ cur[w] \in Throwing /\ (Nested[cur[w]] # NoSource => sst[Nested[cur[w]]] # "open")
         \/ Nested[cur[w]] # NoSource /\ sst[Nested[cur[w]]] = "threw"
ViewInv == StartedInv /\ ExcInv /\ ThrowInv

-----------------------------------------------------------------------------
(* The abstract state *)

(* The abstract state of a task, before and after a step.                  *)
LEMMA ViewValue ==
    \A t \in Task :
       /\ TaskView[t] = IF Running(t) THEN "running" ELSE IF ~Started(t) THEN "todo"
                        ELSE IF t \in failed THEN "failed" ELSE "ok"
       /\ TaskView'[t] = IF Running(t)' THEN "running" ELSE IF ~Started(t)' THEN "todo"
                         ELSE IF t \in failed' THEN "failed" ELSE "ok"
  BY DEF TaskView, Running, Started

(* It is a function of the tasks.                                          *)
LEMMA ViewFunction ==
    TaskView = [t \in Task |-> TaskView[t]] /\ TaskView' = [t \in Task |-> TaskView'[t]]
<1>1. \E f : TaskView = [t \in Task |-> f[t]] /\ f = TaskView
  BY DEF TaskView
<1>2. \E f : TaskView' = [t \in Task |-> f[t]] /\ f = TaskView'
  BY DEF TaskView
<1> QED
  BY <1>1, <1>2

(* Two views that agree on every task are equal.                           *)
LEMMA SameView ==
    ASSUME \A t \in Task : TaskView'[t] = TaskView[t]
    PROVE  TaskView' = TaskView
<1>1. [t \in Task |-> TaskView'[t]] = [t \in Task |-> TaskView[t]]
  OBVIOUS
<1> QED
  BY <1>1, ViewFunction

(* A view that differs at one task.                                        *)
LEMMA OneChange ==
    ASSUME NEW t \in Task, NEW c, TaskView'[t] = c,
           \A u \in Task : u # t => TaskView'[u] = TaskView[u]
    PROVE  TaskView' = [TaskView EXCEPT ![t] = c]
<1>1. \A f, g : f = [u \in Task |-> f[u]] /\ g = [u \in Task |-> g[u]] /\ g[t] = c
              /\ (\A u \in Task : u # t => g[u] = f[u]) => g = [f EXCEPT ![t] = c]
  OBVIOUS
<1> QED
  BY <1>1, ViewFunction

(* A task in somebody's hands is started. *)
LEMMA RunningStarted ==
    ASSUME Inv, NEW w \in Workers, cur[w] # NoTask
    PROVE  /\ cur[w] \in Task /\ Started(cur[w]) /\ Running(cur[w])
           /\ TaskView[cur[w]] = "running"
           /\ \A v \in Workers : cur[v] = cur[w] => v = w
<1>1. TypeOK /\ HeldInv /\ OnceInv
  BY DEF Inv, SourceInv
<1>2. Taken(cur[w])
  BY <1>1 DEF HeldInv, OpenTask, TakenOf, Taken
<1>3. ~Queued(cur[w])
  BY <1>1 DEF OnceInv, Queued
<1>4. cur[w] \in Task /\ Running(cur[w])
  BY <1>1 DEF TypeOK, Running
<1> QED
  BY <1>1, <1>2, <1>3, <1>4, ViewValue DEF Started, OnceInv

(* The nested call of a task is no other task's and not the client's.      *)
LEMMA OwnCall ==
    ASSUME Inv, NEW w \in Workers, cur[w] # NoTask, Nested[cur[w]] # NoSource
    PROVE  /\ Nested[cur[w]] \in Source /\ Nested[cur[w]] # tsroot
           /\ \A t \in Task : Nested[t] = Nested[cur[w]] => t = cur[w]
           /\ \A v \in Workers : cur[v] # NoTask /\ Nested[cur[v]] = Nested[cur[w]] => v = w
           /\ pc[w] \notin Calling => sst[Nested[cur[w]]] # "open"
<1>1. TypeOK /\ MainInv /\ OpenInv
  BY DEF Inv, SourceInv
<1>2. cur[w] \in Task
  BY RunningStarted
<1>3. Nested[cur[w]] \in Source
  BY <1>2, ProgramAssumption
<1>4. Nested[cur[w]] # tsroot
  BY <1>1, <1>2, <1>3, ProgramAssumption DEF MainInv
<1>5. \A t \in Task : Nested[t] = Nested[cur[w]] => t = cur[w]
  BY <1>2, OnceAssumption
<1>6. \A v \in Workers : cur[v] # NoTask /\ Nested[cur[v]] = Nested[cur[w]] => v = w
  <2> TAKE v \in Workers
  <2> HAVE cur[v] # NoTask /\ Nested[cur[v]] = Nested[cur[w]]
  <2>1. cur[v] \in Task
    BY RunningStarted
  <2>2. cur[v] = cur[w]
    BY <1>5, <2>1
  <2> QED
    BY <2>2, RunningStarted
<1>7. ASSUME sst[Nested[cur[w]]] = "open" PROVE pc[w] \in Calling
  <2>1. PICK v \in Workers : Calls(v, Nested[cur[w]])
    BY <1>1, <1>3, <1>4, <1>7 DEF OpenInv
  <2>2. v = w
    BY <1>6, <2>1 DEF Calls
  <2> QED
    BY <2>1, <2>2 DEF Calls
<1> QED
  BY <1>3, <1>4, <1>5, <1>6, <1>7

(* When a source is done, all of its tasks have ended. *)
LEMMA AllEnded ==
    ASSUME Inv, ViewInv, NEW s \in Source, AllDone(s)
    PROVE  /\ \A t \in InSource(s) : t \in Task /\ TaskView[t] = IF t \in failed THEN "failed" ELSE "ok"
           /\ exc[s] <=> \E t \in InSource(s) : TaskView[t] = "failed"
<1>1. TypeOK /\ PosInv
  BY DEF Inv, SourceInv
<1>2. /\ \A w \in Workers : cur[w] \notin InSource(s)
      /\ \A w \in Workers : \A i \in DOMAIN lq[w] : lq[w][i] \notin InSource(s)
      /\ ~HasMore(s)
  BY NotDone
<1>3. ASSUME NEW t \in InSource(s)
      PROVE  t \in Task /\ TaskView[t] = IF t \in failed THEN "failed" ELSE "ok"
  <2>1. PICK i \in DOMAIN TaskSeq[s] : t = TaskSeq[s][i]
    BY DEF InSource
  <2>2. i \in 1..pos[s]
    <3>1. pos[s] \in Nat /\ TaskSeq[s] \in Seq(Task)
      BY <1>1, ProgramAssumption DEF TypeOK
    <3>2. Len(TaskSeq[s]) \in Nat /\ DOMAIN TaskSeq[s] = 1..Len(TaskSeq[s])
      BY <3>1, LenProperties
    <3> QED
      BY <1>2, <3>1, <3>2 DEF HasMore
  <2>3. Taken(t) /\ ~Queued(t) /\ ~Running(t)
    BY <1>2, <2>1, <2>2 DEF Taken, Queued, Running
  <2>4. t \in Task
    BY SourceOfTask
  <2> QED
    BY <2>3, <2>4, ViewValue DEF Started
<1>4. exc[s] <=> \E t \in InSource(s) : t \in failed
  BY DEF ViewInv, ExcInv
<1> QED
  BY <1>3, <1>4

-----------------------------------------------------------------------------
(* Most steps change neither a call, nor the task of a thread, nor an      *)
(* exception; the nine others are those of ViewStep.                       *)
QuietPc == \A v \in Workers : cur[v] # NoTask =>
    /\ pc'[v] = "finish" <=> pc[v] = "finish"
    /\ pc'[v] = "tail" /\ Nested[cur[v]] # NoSource => pc[v] = "tail"
    /\ pc'[v] = "throw" => \/ pc[v] = "throw"
                           \/ cur[v] \in Throwing /\ pc[v] \in {"perform", "tail"}
Quietly == UNCHANGED <<sst, exc, failed, cur>> /\ QuietPc
ViewStep ==
    \/ \E w \in Workers : \/ FirstPull(w) \/ BatchPull(w) \/ StartTask(w) \/ SubmitNested(w)
                          \/ notify_exception(w) \/ notify_finish_task(w) \/ SubmitReturns(w)
    \/ SubmitRoot \/ RootReturns

(* Every step is quiet or one of ViewStep.                                 *)
LEMMA ViewSteps ==
    ASSUME Inv, Next
    PROVE  (Quietly /\ UNCHANGED <<lq, pos>>) \/ ViewStep
<1> USE ThreadAssumption DEF Threads
<1>a. TypeOK /\ DOMAIN pc = Threads
  BY DEF Inv, TypeOK
<1>b. \A v \in Workers : cur[v] # NoTask => pc[v] \in InTaskPcs
  BY DEF Inv, PoolInv, TaskInv
<1>c. \A v \in Workers : pc[v] = "exit" => lq[v] = <<>>
  BY DEF Inv, PoolInv, QueueInv, Working, InTaskPcs, Calling
<1>d. DOMAIN lq = Workers /\ lq = [v \in Workers |-> lq[v]]
  BY <1>a DEF TypeOK
<1> DEFINE goal == (Quietly /\ UNCHANGED <<lq, pos>>) \/ ViewStep
<1>e. Quietly /\ UNCHANGED <<lq, pos>> => goal
  OBVIOUS
<1> HIDE DEF goal
<1>1. ASSUME NEW w \in Workers, WorkerStarts(w) PROVE goal
  <2>1. UNCHANGED <<sst, exc, failed, cur, lq, pos>>
    BY <1>1 DEF WorkerStarts, poolVars, srcVars, thrVars
  <2>2. QuietPc
    BY <1>a, <1>b, <1>1 DEF WorkerStarts, Go, QuietPc, InTaskPcs, Calling
  <2> QED
    BY <1>e, <2>1, <2>2 DEF Quietly
<1>2. ASSUME NEW w \in Workers, LoopIdle(w) PROVE goal
  <2>1. UNCHANGED <<sst, exc, failed, cur, lq, pos>>
    BY <1>2 DEF LoopIdle, poolVars, srcVars, thrVars
  <2>2. QuietPc
    BY <1>a, <1>b, <1>2 DEF LoopIdle, Go, QuietPc, InTaskPcs, Calling
  <2> QED
    BY <1>e, <2>1, <2>2 DEF Quietly
<1>3. ASSUME NEW w \in Workers, SigWake(w) PROVE goal
  <2>1. UNCHANGED <<sst, exc, failed, cur, lq, pos>>
    BY <1>3 DEF SigWake, poolVars, srcVars, thrVars
  <2>2. QuietPc
    BY <1>a, <1>b, <1>3 DEF SigWake, Go, QuietPc, InTaskPcs, Calling
  <2> QED
    BY <1>e, <2>1, <2>2 DEF Quietly
<1>4. ASSUME NEW w \in Workers, CheckTerm(w) PROVE goal
  <2>1. UNCHANGED <<sst, exc, failed, cur, lq, pos>>
    BY <1>4 DEF CheckTerm, poolVars, srcVars, thrVars
  <2>2. QuietPc
    BY <1>a, <1>b, <1>4 DEF CheckTerm, Go, QuietPc, InTaskPcs, Calling
  <2> QED
    BY <1>e, <2>1, <2>2 DEF Quietly
<1>5. ASSUME NEW w \in Workers, LoopRunning(w) PROVE goal
  <2>1. UNCHANGED <<sst, exc, failed, cur, lq, pos>>
    BY <1>5 DEF LoopRunning, poolVars, srcVars, thrVars
  <2>2. QuietPc
    BY <1>a, <1>b, <1>5 DEF LoopRunning, Go, QuietPc, InTaskPcs, Calling
  <2> QED
    BY <1>e, <2>1, <2>2 DEF Quietly
<1>6. ASSUME NEW w \in Workers, FirstSpawn(w) PROVE goal
  <2>1. UNCHANGED <<sst, exc, failed, cur, lq, pos>>
    BY <1>6 DEF FirstSpawn, poolVars, srcVars, thrVars
  <2>2. QuietPc
    BY <1>a, <1>b, <1>6 DEF FirstSpawn, Go, QuietPc, InTaskPcs, Calling
  <2> QED
    BY <1>e, <2>1, <2>2 DEF Quietly
<1>7. ASSUME NEW w \in Workers, QueueEmpty(w) PROVE goal
  <2>1. UNCHANGED <<sst, exc, failed, cur, lq, pos>>
    BY <1>7 DEF QueueEmpty, poolVars, srcVars, thrVars
  <2>2. QuietPc
    BY <1>a, <1>b, <1>7 DEF QueueEmpty, Go, QuietPc, InTaskPcs, Calling
  <2> QED
    BY <1>e, <2>1, <2>2 DEF Quietly
<1>8. ASSUME NEW w \in Workers, BatchSpawn(w) PROVE goal
  <2>1. UNCHANGED <<sst, exc, failed, cur, lq, pos>>
    BY <1>8 DEF BatchSpawn, poolVars, srcVars, thrVars
  <2>2. QuietPc
    BY <1>a, <1>b, <1>8 DEF BatchSpawn, Go, QuietPc, InTaskPcs, Calling
  <2> QED
    BY <1>e, <2>1, <2>2 DEF Quietly
<1>9. ASSUME NEW w \in Workers, Settle(w) PROVE goal
  <2>a. Settled(w)
    BY <1>a, <1>9, SettleCases
  <2>1. UNCHANGED <<sst, exc, failed, cur, lq, pos>>
    BY <2>a DEF Settled, poolVars, srcVars, thrVars
  <2>2. QuietPc
    BY <1>a, <1>b, <2>a DEF Settled, Go, QuietPc, InTaskPcs, Calling
  <2> QED
    BY <1>e, <2>1, <2>2 DEF Quietly
<1>10. ASSUME NEW w \in Workers, Yield(w) PROVE goal
  <2>1. UNCHANGED <<sst, exc, failed, cur, lq, pos>>
    BY <1>10 DEF Yield, poolVars, srcVars, thrVars
  <2>2. QuietPc
    BY <1>a, <1>b, <1>10 DEF Yield, Go, QuietPc, InTaskPcs, Calling
  <2> QED
    BY <1>e, <2>1, <2>2 DEF Quietly
<1>11. ASSUME NEW w \in Workers, WorkerExits(w) PROVE goal
  <2>b. lq' = lq
    BY <1>c, <1>d, <1>11 DEF WorkerExits
  <2>1. UNCHANGED <<sst, exc, failed, cur, lq, pos>>
    BY <1>11, <2>b DEF WorkerExits, poolVars, srcVars, thrVars
  <2>2. QuietPc
    BY <1>a, <1>b, <1>11 DEF WorkerExits, Go, QuietPc, InTaskPcs, Calling
  <2> QED
    BY <1>e, <2>1, <2>2 DEF Quietly
<1>12. ASSUME NEW w \in Workers, TaskThrows(w) PROVE goal
  <2>1. UNCHANGED <<sst, exc, failed, cur, lq, pos>>
    BY <1>12 DEF TaskThrows, poolVars, srcVars, thrVars
  <2>2. QuietPc
    BY <1>a, <1>b, <1>12 DEF TaskThrows, Go, QuietPc, InTaskPcs, Calling
  <2> QED
    BY <1>e, <2>1, <2>2 DEF Quietly
<1>13. ASSUME NEW w \in Workers, ReleaseCheck(w) PROVE goal
  <2>a. Checked(w)
    BY <1>a, <1>13, ReleaseCheckCases
  <2>1. UNCHANGED <<sst, exc, failed, cur, lq, pos>>
    BY <2>a DEF Checked, poolVars, srcVars, thrVars
  <2>2. QuietPc
    BY <1>a, <1>b, <2>a DEF Checked, Go, QuietPc, InTaskPcs, Calling
  <2> QED
    BY <1>e, <2>1, <2>2 DEF Quietly
<1>14. ASSUME NEW w \in Workers, CreatedReady(w) PROVE goal
  <2>1. UNCHANGED <<sst, exc, failed, cur, lq, pos>>
    BY <1>14 DEF CreatedReady, poolVars, srcVars, thrVars
  <2>2. QuietPc
    BY <1>a, <1>b, <1>14 DEF CreatedReady, Go, QuietPc, InTaskPcs, Calling
  <2> QED
    BY <1>e, <2>1, <2>2 DEF Quietly
<1>15. ASSUME NEW w \in Workers, ReleaseMove(w) PROVE goal
  <2>1. UNCHANGED <<sst, exc, failed, cur, lq, pos>>
    BY <1>15 DEF ReleaseMove, poolVars, srcVars, thrVars
  <2>2. QuietPc
    BY <1>a, <1>b, <1>15 DEF ReleaseMove, Go, QuietPc, InTaskPcs, Calling
  <2> QED
    BY <1>e, <2>1, <2>2 DEF Quietly
<1>16. ASSUME NEW w \in Workers, ExternalEvent(w) PROVE goal
  <2>1. UNCHANGED <<sst, exc, failed, cur, lq, pos>>
    BY <1>16 DEF ExternalEvent, poolVars, srcVars, thrVars
  <2>2. QuietPc
    BY <1>a, <1>b, <1>16 DEF ExternalEvent, Go, QuietPc, InTaskPcs, Calling
  <2> QED
    BY <1>e, <2>1, <2>2 DEF Quietly
<1>17. ASSUME NEW w \in Workers, Acquire(w) PROVE goal
  <2>a. Acquired(w)
    BY <1>a, <1>17, AcquireCases
  <2>1. UNCHANGED <<sst, exc, failed, cur, lq, pos>>
    BY <2>a DEF Acquired, poolVars, srcVars, thrVars
  <2>2. QuietPc
    BY <1>a, <1>b, <2>a DEF Acquired, Go, QuietPc, InTaskPcs, Calling, AfterAcquire, InTask
  <2> QED
    BY <1>e, <2>1, <2>2 DEF Quietly
<1>18. ASSUME NEW w \in Workers, CpuWake(w) PROVE goal
  <2>1. UNCHANGED <<sst, exc, failed, cur, lq, pos>>
    BY <1>18 DEF CpuWake, poolVars, srcVars, thrVars
  <2>2. QuietPc
    BY <1>a, <1>b, <1>18 DEF CpuWake, Go, QuietPc, InTaskPcs, Calling
  <2> QED
    BY <1>e, <2>1, <2>2 DEF Quietly
<1>19. ASSUME NEW w \in Workers, CpuCheck(w) PROVE goal
  <2>1. UNCHANGED <<sst, exc, failed, cur, lq, pos>>
    BY <1>19 DEF CpuCheck, poolVars, srcVars, thrVars
  <2>2. QuietPc
    BY <1>a, <1>b, <1>19 DEF CpuCheck, Go, QuietPc, InTaskPcs, Calling, AfterAcquire, InTask
  <2> QED
    BY <1>e, <2>1, <2>2 DEF Quietly
<1>20. ASSUME NEW th \in Threads, ReleaseActivate(th) PROVE goal
  <2>1. UNCHANGED <<sst, exc, failed, cur, lq, pos>>
    BY <1>20 DEF ReleaseActivate, poolVars, srcVars, thrVars
  <2>2. QuietPc
    BY <1>a, <1>b, <1>20 DEF ReleaseActivate, Go, QuietPc, InTaskPcs, Calling
  <2> QED
    BY <1>e, <2>1, <2>2 DEF Quietly
<1>21. ASSUME NEW th \in Threads, WaitCheck(th) PROVE goal
  <2>1. UNCHANGED <<sst, exc, failed, cur, lq, pos>>
    BY <1>21 DEF WaitCheck, poolVars, srcVars, thrVars
  <2>2. QuietPc
    BY <1>a, <1>b, <1>21 DEF WaitCheck, Go, QuietPc, InTaskPcs, Calling
  <2> QED
    BY <1>e, <2>1, <2>2 DEF Quietly
<1>22. ASSUME NEW th \in Threads, WaitWake(th) PROVE goal
  <2>1. UNCHANGED <<sst, exc, failed, cur, lq, pos>>
    BY <1>22 DEF WaitWake, poolVars, srcVars, thrVars
  <2>2. QuietPc
    BY <1>a, <1>b, <1>22 DEF WaitWake, Go, QuietPc, InTaskPcs, Calling
  <2> QED
    BY <1>e, <2>1, <2>2 DEF Quietly
<1>23. ASSUME SetTerm PROVE goal
  <2>1. UNCHANGED <<sst, exc, failed, cur, lq, pos>>
    BY <1>23 DEF SetTerm, poolVars, srcVars, thrVars
  <2>2. QuietPc
    BY <1>a, <1>b, <1>23 DEF SetTerm, Go, QuietPc, InTaskPcs, Calling
  <2> QED
    BY <1>e, <2>1, <2>2 DEF Quietly
<1>24. ASSUME TerminateNext PROVE goal
  <2>a. Ended
    BY <1>a, <1>24, TerminateCases
  <2>1. UNCHANGED <<sst, exc, failed, cur, lq, pos>>
    BY <2>a DEF Ended, poolVars, srcVars, thrVars
  <2>2. QuietPc
    BY <1>a, <1>b, <2>a DEF Ended, Go, QuietPc, InTaskPcs, Calling
  <2> QED
    BY <1>e, <2>1, <2>2 DEF Quietly
<1>25. ASSUME Join PROVE goal
  <2>1. UNCHANGED <<sst, exc, failed, cur, lq, pos>>
    BY <1>25 DEF Join, poolVars, srcVars, thrVars
  <2>2. QuietPc
    BY <1>a, <1>b, <1>25 DEF Join, Go, QuietPc, InTaskPcs, Calling
  <2> QED
    BY <1>e, <2>1, <2>2 DEF Quietly
<1>26. ASSUME Finished PROVE goal
  <2>1. UNCHANGED <<sst, exc, failed, cur, lq, pos>>
    BY <1>26 DEF Finished, poolVars, srcVars, thrVars, vars
  <2>2. QuietPc
    BY <1>a, <1>b, <1>26 DEF Finished, Go, QuietPc, InTaskPcs, Calling, vars
  <2> QED
    BY <1>e, <2>1, <2>2 DEF Quietly
<1>27. ViewStep => goal
  BY DEF goal
<1>28. goal
  BY <1>1, <1>2, <1>3, <1>4, <1>5, <1>6, <1>7, <1>8, <1>9, <1>10, <1>11, <1>12, <1>13, <1>14, <1>15, <1>16, <1>17, <1>18, <1>19, <1>20, <1>21, <1>22, <1>23, <1>24, <1>25, <1>26, <1>27 DEF Next, WorkerMain, TaskBody, AnyThread, Client, ViewStep
<1> QED
  BY <1>28 DEF goal

-----------------------------------------------------------------------------
(* The steps that change nothing of the abstract state *)

(* A quiet step that leaves every task started or not keeps the view. *)
LEMMA QuietKeeps ==
    ASSUME Inv, ViewInv, Quietly, \A t \in Task : Started(t)' <=> Started(t)
    PROVE  ViewInv' /\ TaskView' = TaskView /\ sst' = sst
<1>1. UNCHANGED <<sst, exc, failed, cur>>
  BY DEF Quietly
<1>2. StartedInv'
  BY <1>1 DEF ViewInv, StartedInv
<1>3. ExcInv'
  BY <1>1 DEF ViewInv, ExcInv
<1>4. ThrowInv'
  <2> SUFFICES ASSUME NEW w \in Workers, cur[w] # NoTask
               PROVE  /\ cur[w] \in failed <=> pc'[w] = "finish"
                      /\ pc'[w] = "tail" /\ Nested[cur[w]] # NoSource => sst[Nested[cur[w]]] = "returned"
                      /\ pc'[w] \in {"throw", "finish"} =>
                           \/ cur[w] \in Throwing /\ (Nested[cur[w]] # NoSource => sst[Nested[cur[w]]] # "open")
                           \/ Nested[cur[w]] # NoSource /\ sst[Nested[cur[w]]] = "threw"
    BY <1>1 DEF ThrowInv
  <2>1. /\ pc'[w] = "finish" <=> pc[w] = "finish"
        /\ pc'[w] = "tail" /\ Nested[cur[w]] # NoSource => pc[w] = "tail"
        /\ pc'[w] = "throw" => \/ pc[w] = "throw"
                               \/ cur[w] \in Throwing /\ pc[w] \in {"perform", "tail"}
    BY DEF Quietly, QuietPc
  <2>2. pc[w] \in {"perform", "tail"} /\ Nested[cur[w]] # NoSource => sst[Nested[cur[w]]] # "open"
    BY OwnCall DEF Calling
  <2>3. ThrowInv
    BY DEF ViewInv
  <2> QED
    BY <2>1, <2>2, <2>3 DEF ThrowInv
<1>5. \A t \in Task : TaskView'[t] = TaskView[t]
  <2> TAKE t \in Task
  <2>1. Running(t)' <=> Running(t)
    BY <1>1 DEF Running
  <2> QED
    BY <1>1, <2>1, ViewValue
<1> QED
  BY <1>1, <1>2, <1>3, <1>4, <1>5, SameView DEF ViewInv

(* A step that leaves the queues starts no task.                           *)
LEMMA QuietStep ==
    ASSUME Inv, ViewInv, Quietly, UNCHANGED <<lq, pos>>
    PROVE  ViewInv' /\ TaskView' = TaskView /\ sst' = sst
<1>1. \A t \in Task : Started(t)' <=> Started(t)
  BY DEF Started, Taken, Queued
<1> QED
  BY <1>1, QuietKeeps

(* Pulling a batch and stealing starts no task. *)
LEMMA PullStarted ==
    ASSUME Inv, NEW w \in Workers, PullInto(w), lq[w] = <<>>
    PROVE  (\A t \in Task : Started(t)' <=> Started(t)) /\ UNCHANGED <<sst, exc>>
<1>1. TypeOK /\ MainInv /\ CallInv /\ ChildInv /\ PosInv
  BY DEF Inv, SourceInv
<1>2. CASE UNCHANGED <<lq, srcVars>>
  BY <1>2 DEF Started, Taken, Queued, srcVars
<1>3. CASE \E s \in Source, n \in Nat : PullsBatch(w, s, n)
  <2>1. PICK s \in Source, n \in Nat : PullsBatch(w, s, n)
    BY <1>3
  <2>2. /\ \A t \in NewTasks(s, n) : ~Taken(t)
        /\ \A t : Queued(t)' <=> Queued(t) \/ t \in NewTasks(s, n)
        /\ \A t : Taken(t)' <=> Taken(t) \/ t \in NewTasks(s, n)
    BY <1>1, <2>1, BatchQueued
  <2>3. UNCHANGED <<sst, exc>>
    BY <2>1 DEF PullsBatch
  <2> QED
    BY <2>2, <2>3 DEF Started
<1>4. CASE \E v \in Workers : Steals(w, v)
  <2>1. PICK v \in Workers : Steals(w, v)
    BY <1>4
  <2>2. \A t : Queued(t)' <=> Queued(t)
    BY <1>1, <2>1, TheftQueued
  <2>3. UNCHANGED <<sst, exc, pos>>
    BY <2>1 DEF Steals, srcVars
  <2>4. \A t : Taken(t)' <=> Taken(t)
    BY <2>3 DEF Taken
  <2> QED
    BY <2>2, <2>3, <2>4 DEF Started
<1> QED
  BY <1>1, <1>2, <1>3, <1>4, Pulled

(* enqueue_local does not change the view.                                 *)
LEMMA PullStep ==
    ASSUME Inv, ViewInv, NEW w \in Workers, FirstPull(w) \/ BatchPull(w)
    PROVE  ViewInv' /\ TaskView' = TaskView /\ sst' = sst
<1>1. /\ pc[w] \in {"first", "batch"} /\ UNCHANGED <<cur, failed>>
      /\ PullInto(w) \/ UNCHANGED <<lq, srcVars>>
      /\ \E l \in {"spawn1", "spawn2", "settle"} : pc' = [pc EXCEPT ![w] = l]
  BY DEF FirstPull, BatchPull, Go
<1>2. lq[w] = <<>>
  BY <1>1 DEF Inv, PoolInv, QueueInv, Working, InTaskPcs, Calling
<1>3. (\A t \in Task : Started(t)' <=> Started(t)) /\ UNCHANGED <<sst, exc>>
  <2>1. CASE PullInto(w)
    BY <1>2, <2>1, PullStarted
  <2>2. CASE UNCHANGED <<lq, srcVars>>
    BY <2>2 DEF Started, Taken, Queued, srcVars
  <2> QED
    BY <1>1, <2>1, <2>2
<1>4. QuietPc
  <2>1. cur[w] = NoTask
    BY <1>1 DEF Inv, PoolInv, TaskInv, InTaskPcs, Calling
  <2>2. \A v \in Workers : v # w => pc'[v] = pc[v]
    BY <1>1
  <2> QED
    BY <2>1, <2>2 DEF QuietPc
<1> QED
  BY <1>1, <1>3, <1>4, QuietKeeps DEF Quietly

-----------------------------------------------------------------------------
(* The steps of TaskSubmit *)

(* notify_start_task is Start. *)
LEMMA StartView ==
    ASSUME Inv, ViewInv, NEW w \in Workers, StartTask(w)
    PROVE  ViewInv' /\ \E s \in Source, t \in Task : Submit!Start(s, t)
<1>0. PICK t, s : t = Head(lq[w]) /\ s = SourceOf(t)
  OBVIOUS
<1>1. /\ pc[w] = "pop" /\ lq[w] # <<>> /\ UNCHANGED <<sst, pos, exc, failed>>
      /\ cur' = [cur EXCEPT ![w] = t]
      /\ pc' = [pc EXCEPT ![w] = IF Nested[t] # NoSource THEN "perform"
                                 ELSE IF t \in Blocking THEN "rel" ELSE "tail"]
  BY <1>0 DEF StartTask, Go
<1>2. /\ s \in Source /\ t \in InSource(s) /\ sst[s] = "open" /\ Queued(t)
      /\ \A v \in Workers : cur[v] # t
      /\ \A x : Queued(x)' <=> Queued(x) /\ x # t
  BY <1>0, StartQueued
<1>3. t \in Task /\ t # NoTask
  BY <1>2, SourceOfTask
<1>4. TypeOK /\ cur[w] = NoTask
  BY <1>1 DEF Inv, PoolInv, TaskInv, InTaskPcs, Calling
<1>5. \A x : Taken(x)' <=> Taken(x)
  BY <1>1 DEF Taken
<1>6. Taken(t)
  <2>1. PICK v \in Workers : \E i \in DOMAIN lq[v] : lq[v][i] = t
    BY <1>2 DEF Queued
  <2>2. OpenTask(t)
    BY <2>1 DEF Inv, SourceInv, HeldInv
  <2> QED
    BY <2>2 DEF OpenTask, TakenOf, Taken
<1>7. ~Started(t) /\ t \notin failed /\ Started(t)' /\ \A x : x # t => (Started(x)' <=> Started(x))
  <2>1. ~Started(t) /\ Started(t)' /\ \A x : x # t => (Started(x)' <=> Started(x))
    BY <1>2, <1>5, <1>6 DEF Started
  <2> QED
    BY <1>3, <2>1 DEF ViewInv, StartedInv
<1>8. cur'[w] = t /\ \A v \in Workers : v # w => cur'[v] = cur[v]
  BY <1>1, <1>4 DEF TypeOK
<1>9. \A x \in Task : Running(x)' <=> Running(x) \/ x = t
  BY <1>3, <1>4, <1>8, ProgramAssumption DEF Running
<1>10. TaskView[t] = "todo" /\ TaskView' = [TaskView EXCEPT ![t] = "running"]
  <2>1. ~Running(t)
    BY <1>2 DEF Running
  <2>2. TaskView[t] = "todo" /\ TaskView'[t] = "running"
    BY <1>3, <1>7, <1>9, <2>1, ViewValue
  <2>3. \A x \in Task : x # t => TaskView'[x] = TaskView[x]
    BY <1>1, <1>7, <1>9, ViewValue
  <2> QED
    BY <1>3, <2>2, <2>3, OneChange
<1>11. StartedInv'
  BY <1>1, <1>7 DEF ViewInv, StartedInv
<1>12. ExcInv'
  BY <1>1 DEF ViewInv, ExcInv
<1>13. ThrowInv'
  <2>1. \A v \in Workers : v # w => pc'[v] = pc[v]
    BY <1>1
  <2>2. pc'[w] \in {"perform", "rel", "tail"} /\ (pc'[w] = "tail" => Nested[t] = NoSource)
    BY <1>1, <1>4 DEF TypeOK, Threads
  <2>3. ThrowInv
    BY DEF ViewInv
  <2> QED
    BY <1>1, <1>7, <1>8, <2>1, <2>2, <2>3 DEF ThrowInv
<1>14. Submit!Start(s, t)
  BY <1>1, <1>2, <1>10 DEF Submit!Start, Submit!InSource, InSource
<1> QED
  BY <1>2, <1>3, <1>11, <1>12, <1>13, <1>14 DEF ViewInv

(* The constructor of a nested task_source is OpenNested. *)
LEMMA NestedView ==
    ASSUME Inv, ViewInv, NEW w \in Workers, SubmitNested(w)
    PROVE  ViewInv' /\ \E t \in Task : Submit!OpenNested(t)
<1> DEFINE s == Nested[cur[w]]
<1>1. /\ pc[w] = "perform" /\ sst[s] = "new" /\ sst' = [sst EXCEPT ![s] = "open"]
      /\ pc' = [pc EXCEPT ![w] = "rel"] /\ UNCHANGED <<pos, exc, failed, cur, lq>>
  BY DEF SubmitNested, Go, thrVars
<1>2. TypeOK /\ cur[w] # NoTask /\ s # NoSource
  BY <1>1 DEF Inv, PoolInv, TaskInv, InTaskPcs
<1>3. cur[w] \in Task /\ Started(cur[w]) /\ TaskView[cur[w]] = "running"
  BY <1>2, RunningStarted
<1>4. /\ s \in Source
      /\ \A x \in Task : Nested[x] = s => x = cur[w]
      /\ \A v \in Workers : cur[v] # NoTask /\ Nested[cur[v]] = s => v = w
  BY <1>2, OwnCall
<1>5. \A x \in Task : Started(x)' <=> Started(x)
  BY <1>1 DEF Started, Taken, Queued
<1>6. TaskView' = TaskView
  <2>1. \A x \in Task : Running(x)' <=> Running(x)
    BY <1>1 DEF Running
  <2> QED
    BY <1>1, <1>5, <2>1, ViewValue, SameView
<1> HIDE DEF s
<1>7. \A r \in Source : r # s => sst'[r] = sst[r]
  BY <1>1, <1>2 DEF TypeOK
<1>8. StartedInv'
  <2>1. \A x \in Task : Nested[x] # NoSource => Nested[x] \in Source
    BY ProgramAssumption
  <2> QED
    BY <1>1, <1>3, <1>4, <1>5, <1>7, <2>1 DEF ViewInv, StartedInv
<1>9. ExcInv'
  BY <1>1 DEF ViewInv, ExcInv
<1>10. ThrowInv'
  <2>1. pc'[w] = "rel" /\ \A v \in Workers : v # w => pc'[v] = pc[v]
    BY <1>1, <1>2 DEF TypeOK, Threads
  <2>2. \A v \in Workers : cur[v] # NoTask /\ v # w /\ Nested[cur[v]] # NoSource =>
            sst'[Nested[cur[v]]] = sst[Nested[cur[v]]]
    BY <1>4, <1>7, RunningStarted, ProgramAssumption
  <2>3. ThrowInv
    BY DEF ViewInv
  <2> QED
    BY <1>1, <2>1, <2>2, <2>3 DEF ThrowInv
<1>11. Submit!OpenNested(cur[w])
  BY <1>1, <1>2, <1>3, <1>6 DEF Submit!OpenNested, s
<1> QED
  BY <1>3, <1>8, <1>9, <1>10, <1>11 DEF ViewInv

(* An exception of a task is noted before the task finishes. *)
LEMMA ExcView ==
    ASSUME Inv, ViewInv, NEW w \in Workers, notify_exception(w)
    PROVE  ViewInv' /\ TaskView' = TaskView /\ sst' = sst
<1>0. PICK c, s : c = cur[w] /\ s = SourceOf(c)
  OBVIOUS
<1>1. /\ pc[w] = "throw" /\ exc' = [exc EXCEPT ![s] = TRUE] /\ failed' = failed \cup {c}
      /\ pc' = [pc EXCEPT ![w] = "finish"] /\ UNCHANGED <<sst, pos, cur, lq>>
  BY <1>0 DEF notify_exception, Go
<1>2. TypeOK /\ c # NoTask
  BY <1>0, <1>1 DEF Inv, PoolInv, TaskInv, InTaskPcs
<1>3. c \in Task /\ Started(c) /\ Running(c) /\ \A v \in Workers : cur[v] = c => v = w
  BY <1>0, <1>2, RunningStarted
<1>4. s \in Source /\ c \in InSource(s)
  BY <1>0, <1>1, Mine DEF Inv, PoolInv, SourceInv, InTaskPcs
<1>5. \A x \in Task : (Started(x)' <=> Started(x)) /\ (Running(x)' <=> Running(x))
  BY <1>1 DEF Started, Running, Taken, Queued
<1>6. TaskView' = TaskView
  BY <1>1, <1>3, <1>5, ViewValue, SameView
<1>7. StartedInv'
  BY <1>1, <1>3, <1>5 DEF ViewInv, StartedInv
<1>8. ExcInv'
  <2> SUFFICES ASSUME NEW r \in Source
               PROVE  exc'[r] <=> \E t \in InSource(r) : t \in failed'
    BY DEF ExcInv
  <2>1. exc[r] <=> \E t \in InSource(r) : t \in failed
    BY DEF ViewInv, ExcInv
  <2>2. CASE r = s
    BY <1>1, <1>2, <1>4, <2>2 DEF TypeOK
  <2>3. CASE r # s
    <3>1. exc'[r] = exc[r]
      BY <1>1, <1>2, <2>3 DEF TypeOK
    <3>2. c \notin InSource(r)
      BY <1>0, <2>3, SourceOfTask
    <3> QED
      BY <1>1, <2>1, <3>1, <3>2
  <2> QED
    BY <2>2, <2>3
<1>9. ThrowInv'
  <2>1. pc'[w] = "finish" /\ \A v \in Workers : v # w => pc'[v] = pc[v]
    BY <1>1, <1>2 DEF TypeOK, Threads
  <2>2. ThrowInv
    BY DEF ViewInv
  <2> QED
    BY <1>0, <1>1, <1>3, <2>1, <2>2 DEF ThrowInv
<1> QED
  BY <1>1, <1>6, <1>7, <1>8, <1>9 DEF ViewInv

(* notify_finish_task is FinishOk or FinishFailed. *)
LEMMA FinishView ==
    ASSUME Inv, ViewInv, NEW w \in Workers, notify_finish_task(w)
    PROVE  ViewInv' /\ \E t \in Task : Submit!FinishOk(t) \/ Submit!FinishFailed(t)
<1>0. PICK c : c = cur[w]
  OBVIOUS
<1>1. /\ pc[w] \in {"tail", "finish"} /\ cur' = [cur EXCEPT ![w] = NoTask]
      /\ pc' = [pc EXCEPT ![w] = "pop"] /\ UNCHANGED <<sst, pos, exc, failed, lq>>
  BY DEF notify_finish_task, Go
<1>2. TypeOK /\ c # NoTask
  BY <1>0, <1>1 DEF Inv, PoolInv, TaskInv, InTaskPcs
<1>3. /\ c \in Task /\ Started(c) /\ TaskView[c] = "running"
      /\ \A v \in Workers : cur[v] = c => v = w
  BY <1>0, <1>2, RunningStarted
<1>4. cur'[w] = NoTask /\ \A v \in Workers : v # w => cur'[v] = cur[v]
  BY <1>1, <1>2 DEF TypeOK
<1>5. \A x \in Task : (Started(x)' <=> Started(x)) /\ (Running(x)' <=> Running(x) /\ x # c)
  <2>1. \A x \in Task : Started(x)' <=> Started(x)
    BY <1>1 DEF Started, Taken, Queued
  <2>2. \A x \in Task : Running(x)' <=> Running(x) /\ x # c
    BY <1>0, <1>3, <1>4, ProgramAssumption DEF Running
  <2> QED
    BY <2>1, <2>2
<1>6. TaskView' = [TaskView EXCEPT ![c] = IF c \in failed THEN "failed" ELSE "ok"]
  <2>1. TaskView'[c] = IF c \in failed THEN "failed" ELSE "ok"
    BY <1>1, <1>3, <1>5, ViewValue
  <2>2. \A x \in Task : x # c => TaskView'[x] = TaskView[x]
    BY <1>1, <1>5, ViewValue
  <2> QED
    BY <1>3, <2>1, <2>2, OneChange
<1>7. StartedInv'
  BY <1>1, <1>5 DEF ViewInv, StartedInv
<1>8. ExcInv'
  BY <1>1 DEF ViewInv, ExcInv
<1>9. ThrowInv'
  <2>1. \A v \in Workers : v # w => pc'[v] = pc[v]
    BY <1>1
  <2>2. ThrowInv
    BY DEF ViewInv
  <2> QED
    BY <1>1, <1>4, <2>1, <2>2 DEF ThrowInv
<1>10. /\ c \in failed <=> pc[w] = "finish"
       /\ pc[w] = "tail" /\ Nested[c] # NoSource => sst[Nested[c]] = "returned"
       /\ pc[w] = "finish" =>
            \/ c \in Throwing /\ (Nested[c] # NoSource => sst[Nested[c]] # "open")
            \/ Nested[c] # NoSource /\ sst[Nested[c]] = "threw"
  BY <1>0, <1>2 DEF ViewInv, ThrowInv
<1>11. CASE pc[w] = "tail"
  <2>1. Submit!FinishOk(c)
    BY <1>1, <1>3, <1>6, <1>10, <1>11 DEF Submit!FinishOk
  <2> QED
    BY <1>3, <1>7, <1>8, <1>9, <2>1 DEF ViewInv
<1>12. CASE pc[w] = "finish"
  <2>1. Submit!FinishFailed(c)
    BY <1>1, <1>3, <1>6, <1>10, <1>12 DEF Submit!FinishFailed
  <2> QED
    BY <1>3, <1>7, <1>8, <1>9, <2>1 DEF ViewInv
<1> QED
  BY <1>1, <1>11, <1>12

(* What a return leaves as it was. *)
LEMMA ReturnSame ==
    ASSUME Inv, ViewInv, UNCHANGED <<pos, exc, failed, cur, lq>>,
           \A r \in Source : sst'[r] # "new" <=> sst[r] # "new"
    PROVE  StartedInv' /\ ExcInv' /\ TaskView' = TaskView
<1>1. \A x \in Task : (Started(x)' <=> Started(x)) /\ (Running(x)' <=> Running(x))
  BY DEF Started, Running, Taken, Queued
<1>2. TaskView' = TaskView
  BY <1>1, ViewValue, SameView
<1>3. StartedInv'
  <2>1. \A x \in Task : Nested[x] # NoSource => Nested[x] \in Source
    BY ProgramAssumption
  <2> QED
    BY <1>1, <2>1 DEF ViewInv, StartedInv
<1>4. ExcInv'
  BY DEF ViewInv, ExcInv
<1> QED
  BY <1>2, <1>3, <1>4

(* A call that closes is Return. *)
LEMMA Closing ==
    ASSUME Inv, ViewInv, NEW s \in Source, sst[s] = "open", AllDone(s), TaskView' = TaskView,
           sst' = [sst EXCEPT ![s] = IF exc[s] THEN "threw" ELSE "returned"]
    PROVE  Submit!Return(s)
<1>1. /\ \A t \in InSource(s) : t \in Task /\ TaskView[t] = IF t \in failed THEN "failed" ELSE "ok"
      /\ exc[s] <=> \E t \in InSource(s) : TaskView[t] = "failed"
  BY AllEnded
<1>2. Submit!InSource(s) = InSource(s)
  BY DEF Submit!InSource, InSource
<1>3. \A t \in Submit!InSource(s) : Submit!Finished(t)
  BY <1>1, <1>2 DEF Submit!Finished
<1>4. CASE exc[s]
  BY <1>1, <1>2, <1>3, <1>4 DEF Submit!Return
<1>5. CASE ~exc[s]
  BY <1>1, <1>2, <1>3, <1>5 DEF Submit!Return
<1> QED
  BY <1>4, <1>5

(* A nested call returns or throws in its task. *)
LEMMA ReturnView ==
    ASSUME Inv, ViewInv, NEW w \in Workers, SubmitReturns(w)
    PROVE  ViewInv' /\ \E s \in Source : Submit!Return(s)
<1>0. PICK s : s = Nested[cur[w]]
  OBVIOUS
<1>1. /\ pc[w] = "unsub" /\ UNCHANGED <<pos, exc, failed, cur, lq>>
      /\ sst' = [sst EXCEPT ![s] = IF exc[s] THEN "threw" ELSE "returned"]
      /\ pc' = [pc EXCEPT ![w] = IF exc[s] THEN "throw" ELSE "tail"]
  BY <1>0 DEF SubmitReturns, Go, thrVars
<1>2. TypeOK /\ cur[w] # NoTask /\ s # NoSource
  BY <1>0, <1>1 DEF Inv, PoolInv, TaskInv, InTaskPcs, Calling
<1>3. /\ s \in Source
      /\ \A v \in Workers : cur[v] # NoTask /\ Nested[cur[v]] = s => v = w
  BY <1>0, <1>2, OwnCall
<1>4. sst[s] = "open" /\ AllDone(s)
  <2>1. Calls(w, s)
    BY <1>0, <1>1, <1>2 DEF Calls, Calling
  <2> QED
    BY <1>1, <1>3, <2>1 DEF Inv, SourceInv, CallInv, After
<1>5. sst'[s] = (IF exc[s] THEN "threw" ELSE "returned") /\ \A r \in Source : r # s => sst'[r] = sst[r]
  BY <1>1, <1>2, <1>3 DEF TypeOK
<1>6. StartedInv' /\ ExcInv' /\ TaskView' = TaskView
  <2>1. \A r \in Source : sst'[r] # "new" <=> sst[r] # "new"
    BY <1>4, <1>5
  <2> QED
    BY <1>1, <2>1, ReturnSame
<1>7. ThrowInv'
  <2>1. pc'[w] = (IF exc[s] THEN "throw" ELSE "tail") /\ \A v \in Workers : v # w => pc'[v] = pc[v]
    BY <1>1, <1>2 DEF TypeOK, Threads
  <2>2. \A v \in Workers : cur[v] # NoTask /\ v # w /\ Nested[cur[v]] # NoSource =>
            sst'[Nested[cur[v]]] = sst[Nested[cur[v]]]
    BY <1>3, <1>5, RunningStarted, ProgramAssumption
  <2>3. ThrowInv
    BY DEF ViewInv
  <2> SUFFICES ASSUME NEW v \in Workers, cur[v] # NoTask
               PROVE  /\ cur[v] \in failed <=> pc'[v] = "finish"
                      /\ pc'[v] = "tail" /\ Nested[cur[v]] # NoSource => sst'[Nested[cur[v]]] = "returned"
                      /\ pc'[v] \in {"throw", "finish"} =>
                           \/ cur[v] \in Throwing /\ (Nested[cur[v]] # NoSource => sst'[Nested[cur[v]]] # "open")
                           \/ Nested[cur[v]] # NoSource /\ sst'[Nested[cur[v]]] = "threw"
    BY <1>1 DEF ThrowInv
  <2>4. CASE v = w
    <3>1. cur[w] \notin failed
      BY <1>1, <1>2, <2>3 DEF ThrowInv
    <3> QED
      BY <1>0, <1>2, <1>5, <2>1, <2>4, <3>1
  <2>5. CASE v # w
    BY <2>1, <2>2, <2>3, <2>5 DEF ThrowInv
  <2> QED
    BY <2>4, <2>5
<1>8. Submit!Return(s)
  BY <1>1, <1>3, <1>4, <1>6, Closing
<1> QED
  BY <1>3, <1>6, <1>7, <1>8 DEF ViewInv

(* The client's next call is OpenRoot: nothing is open when it makes it. *)
LEMMA RootView ==
    ASSUME Inv, ViewInv, SubmitRoot
    PROVE  ViewInv' /\ Submit!OpenRoot
<1>1. /\ pc[Main] = "client" /\ UNCHANGED <<pos, exc, failed, cur, lq>>
      /\ \E i \in DOMAIN Roots :
           /\ sst[Roots[i]] = "new" /\ \A j \in 1..(i - 1) : sst[Roots[j]] # "new"
           /\ sst' = [sst EXCEPT ![Roots[i]] = "open"]
  BY DEF SubmitRoot, thrVars
<1>2. PICK i \in DOMAIN Roots :
           /\ sst[Roots[i]] = "new" /\ \A j \in 1..(i - 1) : sst[Roots[j]] # "new"
           /\ sst' = [sst EXCEPT ![Roots[i]] = "open"]
  BY <1>1
<1>3. TypeOK /\ tsroot = NoSource
  BY <1>1 DEF Inv, SourceInv, MainInv
<1>4. \A w \in Workers : cur[w] = NoTask
  BY <1>3, Quiet DEF Inv, PoolInv
<1>5. \A r \in Source : sst[r] # "open"
  <2>1. \A r \in Source : \A w \in Workers : ~Calls(w, r)
    BY <1>4 DEF Calls
  <2> QED
    BY <1>3, <2>1, ProgramAssumption DEF Inv, SourceInv, OpenInv
<1>6. \A j \in DOMAIN Roots : Roots[j] \in Source /\ \A t \in Task : Nested[t] # Roots[j]
  BY OnceAssumption, ProgramAssumption
<1>7. \A j \in 1..(i - 1) : j \in DOMAIN Roots
  <2>1. DOMAIN Roots = 1..Len(Roots) /\ Len(Roots) \in Nat
    BY ProgramAssumption, LenProperties
  <2> QED
    BY <1>2, <2>1
<1>8. \A j \in 1..(i - 1) : Submit!Returned(Roots[j])
  BY <1>2, <1>3, <1>5, <1>6, <1>7 DEF Submit!Returned, TypeOK
<1>9. \A x \in Task : (Started(x)' <=> Started(x)) /\ (Running(x)' <=> Running(x))
  BY <1>1 DEF Started, Running, Taken, Queued
<1>10. TaskView' = TaskView
  BY <1>1, <1>9, ViewValue, SameView
<1>11. StartedInv'
  <2>1. \A r \in Source : r # Roots[i] => sst'[r] = sst[r]
    BY <1>2, <1>3 DEF TypeOK
  <2>2. \A x \in Task : Nested[x] # NoSource => Nested[x] \in Source /\ Nested[x] # Roots[i]
    BY <1>2, <1>6, ProgramAssumption
  <2> QED
    BY <1>1, <1>9, <2>1, <2>2 DEF ViewInv, StartedInv
<1>12. ExcInv'
  BY <1>1 DEF ViewInv, ExcInv
<1>13. ThrowInv'
  BY <1>1, <1>4 DEF ThrowInv
<1>14. Submit!OpenRoot
  BY <1>2, <1>8, <1>10 DEF Submit!OpenRoot
<1> QED
  BY <1>11, <1>12, <1>13, <1>14 DEF ViewInv

(* The client's call returns or throws.                                    *)
LEMMA RootReturnView ==
    ASSUME Inv, ViewInv, RootReturns
    PROVE  ViewInv' /\ \E s \in Source : Submit!Return(s)
<1>0. PICK s : s = tsroot
  OBVIOUS
<1>1. /\ pc[Main] = "unsub" /\ UNCHANGED <<pos, exc, failed, cur, lq>>
      /\ sst' = [sst EXCEPT ![s] = IF exc[s] THEN "threw" ELSE "returned"]
      /\ pc' = [pc EXCEPT ![Main] = "client"]
  BY <1>0 DEF RootReturns, Go, thrVars
<1>2. /\ TypeOK /\ s \in Source /\ sst[s] = "open" /\ AllDone(s)
      /\ \A t \in Task : Nested[t] # s
  BY <1>0, <1>1 DEF Inv, SourceInv, MainInv, TypeOK, Over
<1>3. sst'[s] # "new" /\ \A r \in Source : r # s => sst'[r] = sst[r]
  BY <1>1, <1>2 DEF TypeOK
<1>4. StartedInv' /\ ExcInv' /\ TaskView' = TaskView
  <2>1. \A r \in Source : sst'[r] # "new" <=> sst[r] # "new"
    BY <1>2, <1>3
  <2> QED
    BY <1>1, <2>1, ReturnSame
<1>5. ThrowInv'
  <2>1. \A v \in Workers : pc'[v] = pc[v]
    BY <1>1, ThreadAssumption
  <2>2. \A v \in Workers : cur[v] # NoTask /\ Nested[cur[v]] # NoSource =>
            sst'[Nested[cur[v]]] = sst[Nested[cur[v]]]
    BY <1>2, <1>3, RunningStarted, ProgramAssumption
  <2>3. ThrowInv
    BY DEF ViewInv
  <2> QED
    BY <1>1, <2>1, <2>2, <2>3 DEF ThrowInv
<1>6. Submit!Return(s)
  BY <1>1, <1>2, <1>4, Closing
<1> QED
  BY <1>2, <1>4, <1>5, <1>6 DEF ViewInv

-----------------------------------------------------------------------------
(* The refinement *)

(* At first every task is to do and every call to make.                    *)
LEMMA InitView ==
    ASSUME Init
    PROVE  ViewInv /\ Submit!Init
<1>1. /\ pos = [s \in Source |-> 0] /\ lq = [w \in Workers |-> <<>>] /\ cur = [w \in Workers |-> NoTask]
      /\ failed = {} /\ exc = [s \in Source |-> FALSE] /\ sst = [s \in Source |-> "new"]
  BY DEF Init
<1>2. ViewInv
  <2>1. StartedInv
    BY <1>1, ProgramAssumption DEF StartedInv
  <2>2. ExcInv
    BY <1>1 DEF ExcInv
  <2>3. ThrowInv
    BY <1>1 DEF ThrowInv
  <2> QED
    BY <2>1, <2>2, <2>3 DEF ViewInv
<1>3. \A t \in Task : ~Started(t) /\ ~Running(t)
  <2>1. \A t \in Task : ~Taken(t)
    BY <1>1 DEF Taken
  <2>2. \A t \in Task : ~Running(t)
    BY <1>1, ProgramAssumption DEF Running
  <2> QED
    BY <2>1, <2>2 DEF Started
<1>4. \A t \in Task : TaskView[t] = "todo"
  BY <1>3, ViewValue
<1>5. TaskView = [t \in Task |-> "todo"]
  <2>1. [t \in Task |-> TaskView[t]] = [t \in Task |-> "todo"]
    BY <1>4
  <2> QED
    BY <2>1, ViewFunction
<1> QED
  BY <1>1, <1>2, <1>5 DEF Submit!Init

(* Every step of the pool is a step of TaskSubmit or changes nothing of    *)
(* it.                                                                     *)
LEMMA StepView ==
    ASSUME Inv, ViewInv, [Next]_vars
    PROVE  ViewInv' /\ [Submit!Next]_(Submit!vars)
<1>1. ASSUME TaskView' = TaskView, sst' = sst PROVE [Submit!Next]_(Submit!vars)
  BY <1>1 DEF Submit!vars
<1>2. CASE UNCHANGED vars
  <2>1. Quietly /\ UNCHANGED <<lq, pos>>
    BY <1>2 DEF Quietly, QuietPc, vars, poolVars, srcVars, thrVars
  <2> QED
    BY <1>1, <2>1, QuietStep
<1>3. CASE Next
  <2>1. CASE Quietly /\ UNCHANGED <<lq, pos>>
    BY <1>1, <2>1, QuietStep
  <2>2. CASE \E w \in Workers : FirstPull(w) \/ BatchPull(w)
    BY <1>1, <2>2, PullStep
  <2>3. CASE \E w \in Workers : StartTask(w)
    BY <2>3, StartView DEF Submit!Next
  <2>4. CASE \E w \in Workers : SubmitNested(w)
    BY <2>4, NestedView DEF Submit!Next
  <2>5. CASE \E w \in Workers : notify_exception(w)
    BY <1>1, <2>5, ExcView
  <2>6. CASE \E w \in Workers : notify_finish_task(w)
    BY <2>6, FinishView DEF Submit!Next
  <2>7. CASE \E w \in Workers : SubmitReturns(w)
    BY <2>7, ReturnView DEF Submit!Next
  <2>8. CASE SubmitRoot
    BY <2>8, RootView DEF Submit!Next
  <2>9. CASE RootReturns
    BY <2>9, RootReturnView DEF Submit!Next
  <2>10. ViewStep \/ (Quietly /\ UNCHANGED <<lq, pos>>)
    BY <1>3, ViewSteps
  <2> QED
    BY <2>1, <2>2, <2>3, <2>4, <2>5, <2>6, <2>7, <2>8, <2>9, <2>10 DEF ViewStep
<1> QED
  BY <1>2, <1>3

(* Each task of an open source runs exactly once, a call returns only when *)
(* all of its tasks have ended, and it throws exactly when one of them     *)
(* threw: pulling, stealing, nested calls, waiting and handing CPUs over   *)
(* (thread_pool.C) keep the promise of submit (thread_pool.h:87-91).       *)
THEOREM ImplementsSubmit == Spec => SubmitSpec
<1>1. Init => ViewInv /\ Submit!Init
  BY InitView
<1>2. Inv /\ ViewInv /\ [Next]_vars => ViewInv' /\ [Submit!Next]_(Submit!vars)
  BY StepView
<1> QED
  BY <1>1, <1>2, Invariance, PTL DEF Spec, SubmitSpec, Submit!Spec
=============================================================================
