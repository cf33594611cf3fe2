----------------------------- MODULE ThreadPool -----------------------------
(***************************************************************************)
(* libutil::thread_pool with its task_source, task_thief and worker        *)
(* classes (src/libutil/thread_pool).                                      *)
(*                                                                         *)
(* One client thread (Main, associated with the pool but not a worker)     *)
(* submits root sources one after the other and then terminates the pool.  *)
(* Worker threads pull batches of tasks from the current source into local *)
(* queues, steal from each other, run tasks that may submit nested         *)
(* sources, give their CPU up around an external wait, or throw.           *)
(*                                                                         *)
(* The grain is one action per critical section of m_mtx, of a source's    *)
(* m_mtx or of a cond.  Worker lists that are vectors in the code are sets *)
(* here: the code pops the last element, the model any element.            *)
(*                                                                         *)
(* do_submit, do_release_cpu and do_acquire_cpu return early once m_term   *)
(* is set; the client sets it after its last call returned, when no task   *)
(* can call them, so these tests have no step here.                        *)
(*                                                                         *)
(* Definitions named Bug... are faulty variants used to test that the      *)
(* properties notice them; no action uses them.                            *)
(***************************************************************************)
EXTENDS Integers, Sequences, FiniteSets, SequencesExt

CONSTANTS Workers,      \* the threads the pool can create (bound)
          Main,         \* the client thread
          NoWorker,
          NThreads,     \* m_nthreads
          NCpus,        \* m_ncpus
          LqLen,        \* lqlen (4 in worker_main)
          Task, Source, NoTask, NoSource,
          TaskSeq, Nested, Throwing, Roots,   \* see TaskSubmit
          Blocking,     \* the tasks that release their CPU around a wait
          Cost          \* [Task -> Nat]: task_i::get_cost

VARIABLES
    \* thread_pool, guarded by m_mtx
    idle, running, waiting, waitingcpu,   \* m_idle, m_running, ...: sets
    nrunning, nwaiting,
    known,        \* the workers in m_winfo
    state,        \* worker_info.state
    sig, cpu,     \* the flags m_sig of the conds worker_info.sig, .cpu
    tsroot, term,
    mtx,          \* holder of m_mtx across two actions, else NoWorker
    \* task_source
    sst, pos, npending, srunning, exc, alldone, children,
    \* threads
    pc,
    lq,           \* a worker's local queue
    cur,          \* the task a worker runs
    first,        \* first_task
    child,        \* the worker whose start a thread awaits
    joining,      \* terminate: the worker being joined
    failed        \* history: the tasks that threw

poolVars == <<idle, running, waiting, waitingcpu, nrunning, nwaiting, known,
              state, sig, cpu, tsroot, term, mtx>>
lists == <<idle, running, waiting, waitingcpu, nrunning, nwaiting>>
srcVars == <<sst, pos, npending, srunning, exc, alldone, children>>
thrVars == <<lq, cur, first, child, joining, failed>>
vars == <<poolVars, srcVars, pc, thrVars>>

Threads == Workers \cup {Main}

ASSUME CpuAssumption == NCpus \in Nat \ {0} /\ NThreads \in Nat
ASSUME ThreadAssumption == Main \notin Workers /\ NoWorker \notin Threads
ASSUME QueueAssumption == LqLen \in Nat \ {0} /\ Cost \in [Task -> Nat]
ASSUME ProgramAssumption ==
    /\ NoTask \notin Task /\ NoSource \notin Source
    /\ TaskSeq \in [Source -> Seq(Task)] /\ Roots \in Seq(Source)
    /\ Nested \in [Task -> Source \cup {NoSource}]
ASSUME FiniteAssumption ==
    IsFiniteSet(Workers) /\ IsFiniteSet(Task) /\ IsFiniteSet(Source)

InSource(s) == {TaskSeq[s][i] : i \in DOMAIN TaskSeq[s]}

(* A task object comes from one source, once; a source is on the stack of  *)
(* the one call that made it, so calls are nested without a cycle.         *)
ASSUME OnceAssumption ==
    /\ \A s, r \in Source : \A i \in DOMAIN TaskSeq[s], j \in DOMAIN TaskSeq[r] :
          TaskSeq[s][i] = TaskSeq[r][j] => s = r /\ i = j
    /\ \A t, u \in Task : Nested[t] = Nested[u] /\ Nested[t] # NoSource => t = u
    /\ \A i \in DOMAIN Roots : \A t \in Task : Nested[t] # Roots[i]
ASSUME NestingAssumption ==
    \E depth \in [Source -> 0..Cardinality(Source)] :
        \A s \in Source : \A t \in InSource(s) :
            Nested[t] # NoSource => depth[s] < depth[Nested[t]]

SourceOf(t) == CHOOSE s \in Source : t \in InSource(s)

Unlocked == mtx = NoWorker      \* m_mtx can be taken

(* cond::wait returns: not before the flag is set, see PosixCond for what *)
(* else it may do.                                                        *)
BugNoWait(flag) == TRUE
Signalled(flag) == flag

BugOneTooMany == nrunning <= NCpus
FreeCpu == nrunning < NCpus

BugNeverYield == FALSE
SomeoneWaits == waitingcpu # {}

(* The source a thread waits on: the client's root or its task's call. *)
Awaited(th) == IF th = Main THEN tsroot ELSE Nested[cur[th]]
InTask(th) == th = Main \/ Nested[cur[th]] # NoSource

-----------------------------------------------------------------------------
(* task_source *)

HasMore(s) == pos[s] < Len(TaskSeq[s])

(* The sources below r, r included. *)
Tree(r) == {s \in Source : \A S \in SUBSET Source :
    r \in S /\ (\A p \in S : \A i \in DOMAIN children[p] : children[p][i] \in S)
        => s \in S}
Busy(r) == \E s \in Tree(r) : HasMore(s)

(* get_current: the first source in depth-first order, children first,     *)
(* that still has tasks.                                                   *)
IsCurrent(s) ==
    /\ HasMore(s) /\ s \in Tree(tsroot)
    /\ \A i \in DOMAIN children[s] : ~Busy(children[s][i])
    /\ \A p \in Tree(tsroot) : \A j \in DOMAIN children[p] :
          s \in Tree(children[p][j]) => \A i \in 1..(j - 1) : ~Busy(children[p][i])
Current == IF tsroot # NoSource /\ \E s \in Source : IsCurrent(s)
           THEN CHOOSE s \in Source : IsCurrent(s) ELSE NoSource

BugForgetsPending(s, np, nr, ch) == nr = 0 /\ ch = <<>> /\ ~HasMore(s)
IsAllDone(s, np, nr, ch) == np = 0 /\ nr = 0 /\ ch = <<>> /\ ~HasMore(s)

(* remove_child: the first occurrence is erased, if there is one. *)
Without(q, e) ==
    IF \E i \in DOMAIN q : q[i] = e
    THEN RemoveAt(q, CHOOSE i \in DOMAIN q : q[i] = e /\ \A j \in 1..(i - 1) : q[j] # e)
    ELSE q

(* Number of tasks one call of enqueue_local takes from source s: LqLen,   *)
(* or as many as cost about LqLen tasks of average cost once more than     *)
(* 2 * LqLen tasks of the source were seen (m_tsstat[s] counts exactly the *)
(* tasks extracted so far).                                                *)
CostOf(ts) == FoldSeq(LAMBDA t, c : Cost[t] + c, 0, ts)
BatchSize(s) ==
    LET seen == pos[s]
        avg  == IF seen > 2 * LqLen
                THEN CostOf(SubSeq(TaskSeq[s], 1, seen)) \div seen ELSE 0
        max  == avg * LqLen
        rest == Len(TaskSeq[s]) - seen
        cost(n) == CostOf(SubSeq(TaskSeq[s], seen + 1, seen + n))
        more(n) == IF cost(n) > 0 /\ max > 0 THEN cost(n) < max ELSE n < LqLen
    IN  CHOOSE n \in 0..rest : /\ n = rest \/ ~more(n)
                               /\ \A k \in 0..(n - 1) : more(k)

-----------------------------------------------------------------------------
(* Worker lists.  Both helpers are called with m_mtx held and raise        *)
(* m_nrunning in their callers.                                            *)

BugLostCpuSignal == \E u \in waitingcpu :
    /\ waitingcpu' = waitingcpu \ {u} /\ running' = running \cup {u}
    /\ state' = [state EXCEPT ![u] = "running"]
    /\ UNCHANGED <<idle, sig, cpu>>
activate_waiting_thread == \E u \in waitingcpu :
    /\ waitingcpu' = waitingcpu \ {u}
    /\ running' = running \cup {u}
    /\ state' = [state EXCEPT ![u] = "running"]
    /\ cpu' = [cpu EXCEPT ![u] = TRUE]
    /\ UNCHANGED <<idle, sig>>

BugLostSignal == \E u \in idle :
    /\ idle' = idle \ {u} /\ running' = running \cup {u}
    /\ state' = [state EXCEPT ![u] = "running"]
    /\ UNCHANGED <<waitingcpu, sig, cpu>>
activate_idle_thread == \E u \in idle :
    /\ idle' = idle \ {u}
    /\ running' = running \cup {u}
    /\ state' = [state EXCEPT ![u] = "running"]
    /\ sig' = [sig EXCEPT ![u] = TRUE]
    /\ UNCHANGED <<waitingcpu, cpu>>

(* steal_task: the last task of some other queue, if there is any. *)
BugStealsCopy(w) == \E v \in Workers :
    lq[v] # <<>> /\ lq' = [lq EXCEPT ![w] = <<Last(lq[v])>>]
StealFrom(w) == \E v \in Workers :
    lq[v] # <<>> /\ lq' = [lq EXCEPT ![v] = Front(@), ![w] = <<Last(lq[v])>>]

(* enqueue_local up to the stealing: a batch from the current source, or   *)
(* else one task from the back of another queue.                           *)
PullInto(w) ==
    \/ /\ tsroot = NoSource
       /\ UNCHANGED <<lq, srcVars>>
    \/ /\ tsroot # NoSource /\ Current # NoSource
       /\ LET s == Current
              n == BatchSize(s)
          IN  /\ lq' = [lq EXCEPT ![w] = @ \o SubSeq(TaskSeq[s], pos[s] + 1, pos[s] + n)]
              /\ pos' = [pos EXCEPT ![s] = @ + n]
              /\ npending' = [npending EXCEPT ![s] = @ + n]
       /\ UNCHANGED <<sst, srunning, exc, alldone, children>>
    \/ /\ tsroot # NoSource /\ Current = NoSource
       /\ IF \A v \in Workers : lq[v] = <<>> THEN UNCHANGED lq ELSE StealFrom(w)
       /\ UNCHANGED srcVars

(* The rest of enqueue_local: wake one more worker while there is work. *)
SpawnMore(w) ==
    IF /\ tsroot # NoSource
       /\ Current # NoSource \/ lq[w] # <<>>
       /\ FreeCpu /\ idle # {}
    THEN activate_idle_thread /\ nrunning' = nrunning + 1
    ELSE UNCHANGED <<idle, running, waitingcpu, state, sig, cpu, nrunning>>

-----------------------------------------------------------------------------
(* worker_main *)

Go(th, label) == pc' = [pc EXCEPT ![th] = label]

WorkerStarts(w) ==                      \* lines 214-229
    /\ pc[w] = "born" /\ Unlocked
    /\ known' = known \cup {w} /\ idle' = idle \cup {w}
    /\ state' = [state EXCEPT ![w] = "idle"]
    /\ Go(w, "loop")
    /\ UNCHANGED <<running, waiting, waitingcpu, nrunning, nwaiting, sig, cpu,
                   tsroot, term, mtx, srcVars, thrVars>>

LoopIdle(w) ==                          \* the state is read without m_mtx
    /\ pc[w] = "loop" /\ state[w] = "idle"
    /\ Go(w, "sigwait")
    /\ UNCHANGED <<poolVars, srcVars, thrVars>>

SigWake(w) ==
    /\ pc[w] = "sigwait" /\ Signalled(sig[w])
    /\ sig' = [sig EXCEPT ![w] = FALSE]
    /\ first' = [first EXCEPT ![w] = TRUE]
    /\ Go(w, "woken")
    /\ UNCHANGED <<lists, known, state, cpu, tsroot, term, mtx, srcVars,
                   lq, cur, child, joining, failed>>

CheckTerm(w) ==
    /\ pc[w] = "woken" /\ Unlocked
    /\ Go(w, IF term THEN "exit" ELSE "loop")
    /\ UNCHANGED <<poolVars, srcVars, thrVars>>

LoopRunning(w) ==
    /\ pc[w] = "loop" /\ state[w] = "running"
    /\ Go(w, IF first[w] THEN "first" ELSE "pop")
    /\ UNCHANGED <<poolVars, srcVars, thrVars>>

FirstPull(w) ==
    /\ pc[w] = "first" /\ Unlocked
    /\ PullInto(w)
    /\ mtx' = w /\ first' = [first EXCEPT ![w] = FALSE]
    /\ Go(w, "spawn1")
    /\ UNCHANGED <<lists, known, state, sig, cpu, tsroot, term,
                   cur, child, joining, failed>>

FirstSpawn(w) ==
    /\ pc[w] = "spawn1" /\ mtx = w
    /\ SpawnMore(w) /\ mtx' = NoWorker
    /\ Go(w, "pop")
    /\ UNCHANGED <<waiting, nwaiting, known, tsroot, term, srcVars, thrVars>>

(* Pop the front and notify_start_task.  Then the task makes its nested     *)
(* call, releases its CPU to wait, or just computes.                       *)
StartTask(w) ==
    /\ pc[w] = "pop" /\ lq[w] # <<>>
    /\ LET t == Head(lq[w])
           s == SourceOf(t)
       IN  /\ lq' = [lq EXCEPT ![w] = Tail(@)]
           /\ cur' = [cur EXCEPT ![w] = t]
           /\ npending' = [npending EXCEPT ![s] = @ - 1]
           /\ srunning' = [srunning EXCEPT ![s] = @ + 1]
           /\ Go(w, IF Nested[t] # NoSource THEN "perform"
                    ELSE IF t \in Blocking THEN "rel" ELSE "tail")
    /\ UNCHANGED <<poolVars, sst, pos, exc, alldone, children,
                   first, child, joining, failed>>

QueueEmpty(w) ==
    /\ pc[w] = "pop" /\ lq[w] = <<>>
    /\ Go(w, "batch")
    /\ UNCHANGED <<poolVars, srcVars, thrVars>>

(* do_submit inside a task: the constructor adds the source to its parent. *)
SubmitNested(w) ==
    /\ pc[w] = "perform" /\ sst[Nested[cur[w]]] = "new"
    /\ LET s == Nested[cur[w]]
           p == SourceOf(cur[w])
       IN  /\ sst' = [sst EXCEPT ![s] = "open"]
           /\ children' = [children EXCEPT ![p] = Append(@, s)]
    /\ Go(w, "rel")
    /\ UNCHANGED <<poolVars, pos, npending, srunning, exc, alldone, thrVars>>

TaskThrows(w) ==
    /\ pc[w] \in {"perform", "tail"} /\ cur[w] \in Throwing
    /\ Go(w, "throw")
    /\ UNCHANGED <<poolVars, srcVars, thrVars>>

notify_exception(w) ==                  \* the first exception is kept
    /\ pc[w] = "throw"
    /\ exc' = [exc EXCEPT ![SourceOf(cur[w])] = TRUE]
    /\ failed' = failed \cup {cur[w]}
    /\ Go(w, "finish")
    /\ UNCHANGED <<poolVars, sst, pos, npending, srunning, alldone, children,
                   lq, cur, first, child, joining>>

notify_finish_task(w) ==
    /\ pc[w] \in {"tail", "finish"}
    /\ LET s == SourceOf(cur[w])
       IN  /\ srunning' = [srunning EXCEPT ![s] = @ - 1]
           /\ alldone' = [alldone EXCEPT ![s] =
                 @ \/ IsAllDone(s, npending[s], srunning[s] - 1, children[s])]
    /\ cur' = [cur EXCEPT ![w] = NoTask]
    /\ Go(w, "pop")
    /\ UNCHANGED <<poolVars, sst, pos, npending, exc, children,
                   lq, first, child, joining, failed>>

(* The end of a batch, one critical section: pull again unless another     *)
(* thread waits for a CPU or the pool terminates.                          *)
BatchPull(w) ==
    /\ pc[w] = "batch" /\ Unlocked
    /\ IF ~term /\ ~SomeoneWaits /\ state[w] = "running"
       THEN PullInto(w) /\ Go(w, "spawn2")
       ELSE UNCHANGED <<lq, srcVars>> /\ Go(w, "settle")
    /\ mtx' = w
    /\ UNCHANGED <<lists, known, state, sig, cpu, tsroot, term,
                   cur, first, child, joining, failed>>

BatchSpawn(w) ==
    /\ pc[w] = "spawn2" /\ mtx = w
    /\ SpawnMore(w)
    /\ Go(w, "settle")
    /\ UNCHANGED <<waiting, nwaiting, known, tsroot, term, mtx, srcVars, thrVars>>

(* Go idle with an empty queue, then hand a CPU to a thread that waits. *)
Settle(w) ==
    /\ pc[w] = "settle" /\ mtx = w
    /\ IF lq[w] = <<>>
       THEN /\ running' = running \ {w} /\ idle' = idle \cup {w}
            /\ state' = [state EXCEPT ![w] = "idle"] /\ nrunning' = nrunning - 1
       ELSE UNCHANGED <<running, idle, state, nrunning>>
    /\ IF SomeoneWaits THEN Go(w, "yield") /\ UNCHANGED mtx
       ELSE Go(w, IF term THEN "exit" ELSE "loop") /\ mtx' = NoWorker
    /\ UNCHANGED <<waiting, waitingcpu, nwaiting, known, sig, cpu, tsroot, term,
                   srcVars, thrVars>>

Yield(w) ==
    /\ pc[w] = "yield" /\ mtx = w
    /\ activate_waiting_thread /\ nrunning' = nrunning + 1
    /\ mtx' = NoWorker
    /\ Go(w, IF term THEN "exit" ELSE "loop")
    /\ UNCHANGED <<waiting, nwaiting, known, tsroot, term, srcVars, thrVars>>

WorkerExits(w) ==                       \* unregister_queue, m_winfo.erase
    /\ pc[w] = "exit" /\ Unlocked
    /\ known' = known \ {w}
    /\ lq' = [lq EXCEPT ![w] = <<>>]
    /\ Go(w, "dead")
    /\ UNCHANGED <<lists, state, sig, cpu, tsroot, term, mtx, srcVars,
                   cur, first, child, joining, failed>>

-----------------------------------------------------------------------------
(* do_release_cpu: three critical sections, the worker's two first *)

ReleaseCheck(w) ==                      \* no idle worker: create one
    /\ pc[w] = "rel" /\ Unlocked
    /\ IF idle # {}
       THEN Go(w, "rel2") /\ UNCHANGED child
       ELSE \E u \in Workers :
              /\ pc[u] = "unborn"
              /\ pc' = [pc EXCEPT ![w] = "relwait", ![u] = "born"]
              /\ child' = [child EXCEPT ![w] = u]
    /\ UNCHANGED <<poolVars, srcVars, lq, cur, first, joining, failed>>

CreatedReady(w) ==                      \* c.wait() in create_idle_thread
    /\ pc[w] = "relwait" /\ child[w] \in known
    /\ child' = [child EXCEPT ![w] = NoWorker]
    /\ Go(w, "rel2")
    /\ UNCHANGED <<poolVars, srcVars, lq, cur, first, joining, failed>>

ReleaseMove(w) ==
    /\ pc[w] = "rel2" /\ Unlocked
    /\ running' = running \ {w} /\ waiting' = waiting \cup {w}
    /\ nrunning' = nrunning - 1
    /\ nwaiting' = IF InTask(w) THEN nwaiting ELSE nwaiting + 1
    /\ Go(w, "rel3")
    /\ UNCHANGED <<idle, waitingcpu, known, state, sig, cpu, tsroot, term, mtx,
                   srcVars, thrVars>>

(* The last section, for the client thread as well.  Then a submit waits   *)
(* for its source and a blocking task for its external event.              *)
ReleaseActivate(th) ==
    /\ pc[th] = "rel3" /\ Unlocked
    /\ IF FreeCpu /\ SomeoneWaits
       THEN activate_waiting_thread /\ nrunning' = nrunning + 1
       ELSE IF FreeCpu /\ idle # {}
       THEN activate_idle_thread /\ nrunning' = nrunning + 1
       ELSE UNCHANGED <<idle, running, waitingcpu, state, sig, cpu, nrunning>>
    /\ Go(th, IF InTask(th) THEN "tswait" ELSE "external")
    /\ UNCHANGED <<waiting, nwaiting, known, tsroot, term, mtx, srcVars, thrVars>>

ExternalEvent(w) ==
    /\ pc[w] = "external"
    /\ Go(w, "acq")
    /\ UNCHANGED <<poolVars, srcVars, thrVars>>

-----------------------------------------------------------------------------
(* task_source::wait *)

WaitCheck(th) ==
    /\ pc[th] = "tswait"
    /\ LET s == Awaited(th)
       IN  Go(th, IF ~IsAllDone(s, npending[s], srunning[s], children[s]) THEN "tsblock"
                  ELSE IF th = Main THEN "unsub" ELSE "acq")
    /\ UNCHANGED <<poolVars, srcVars, thrVars>>

WaitWake(th) ==
    /\ pc[th] = "tsblock"
    /\ Signalled(alldone[Awaited(th)])
    /\ alldone' = [alldone EXCEPT ![Awaited(th)] = FALSE]
    /\ Go(th, "tswait")
    /\ UNCHANGED <<poolVars, sst, pos, npending, srunning, exc, children, thrVars>>

-----------------------------------------------------------------------------
(* do_acquire_cpu *)

AfterAcquire(w) == IF InTask(w) THEN "unsub" ELSE "tail"

Acquire(w) ==
    /\ pc[w] = "acq" /\ Unlocked
    /\ waiting' = waiting \ {w}
    /\ IF FreeCpu
       THEN /\ running' = running \cup {w} /\ nrunning' = nrunning + 1
            /\ Go(w, AfterAcquire(w)) /\ UNCHANGED waitingcpu
       ELSE /\ waitingcpu' = waitingcpu \cup {w}
            /\ Go(w, "cpuwait") /\ UNCHANGED <<running, nrunning>>
    /\ UNCHANGED <<idle, nwaiting, known, state, sig, cpu, tsroot, term, mtx,
                   srcVars, thrVars>>

CpuWake(w) ==
    /\ pc[w] = "cpuwait" /\ Signalled(cpu[w])
    /\ cpu' = [cpu EXCEPT ![w] = FALSE]
    /\ Go(w, "cpucheck")
    /\ UNCHANGED <<lists, known, state, sig, tsroot, term, mtx, srcVars, thrVars>>

CpuCheck(w) ==                          \* done: the state of w is running
    /\ pc[w] = "cpucheck" /\ Unlocked
    /\ nwaiting' = IF state[w] = "running" /\ ~InTask(w) THEN nwaiting - 1 ELSE nwaiting
    /\ Go(w, IF state[w] = "running" \/ term THEN AfterAcquire(w) ELSE "cpuwait")
    /\ UNCHANGED <<idle, running, waiting, waitingcpu, nrunning, known, state,
                   sig, cpu, tsroot, term, mtx, srcVars, thrVars>>

-----------------------------------------------------------------------------
(* The end of do_submit and the client *)

(* Restore tpinfo.tsrc, drop the statistics, rethrow, ~task_source. *)
SubmitReturns(w) ==
    /\ pc[w] = "unsub" /\ w # Main /\ Unlocked
    /\ LET s  == Nested[cur[w]]
           p  == SourceOf(cur[w])
           ch == Without(children[p], s)
       IN  /\ sst' = [sst EXCEPT ![s] = IF exc[s] THEN "threw" ELSE "returned"]
           /\ children' = [children EXCEPT ![p] = ch]
           /\ alldone' = [alldone EXCEPT ![p] =
                            @ \/ IsAllDone(p, npending[p], srunning[p], ch)]
           /\ Go(w, IF exc[s] THEN "throw" ELSE "tail")
    /\ UNCHANGED <<poolVars, pos, npending, srunning, exc, thrVars>>

SubmitRoot ==
    /\ pc[Main] = "client" /\ Unlocked
    /\ \E i \in DOMAIN Roots :
         /\ sst[Roots[i]] = "new" /\ \A j \in 1..(i - 1) : sst[Roots[j]] # "new"
         /\ sst' = [sst EXCEPT ![Roots[i]] = "open"]
         /\ tsroot' = Roots[i]
    /\ Go(Main, "rel3")
    /\ UNCHANGED <<lists, known, state, sig, cpu, term, mtx, pos, npending,
                   srunning, exc, alldone, children, thrVars>>

RootReturns ==
    /\ pc[Main] = "unsub" /\ Unlocked
    /\ tsroot' = NoSource
    /\ sst' = [sst EXCEPT ![tsroot] = IF exc[tsroot] THEN "threw" ELSE "returned"]
    /\ Go(Main, "client")
    /\ UNCHANGED <<lists, known, state, sig, cpu, term, mtx, pos, npending,
                   srunning, exc, alldone, children, thrVars>>

SetTerm ==
    /\ pc[Main] = "client" /\ Unlocked
    /\ \A i \in DOMAIN Roots : sst[Roots[i]] # "new"
    /\ term' = TRUE
    /\ Go(Main, "terminate")
    /\ UNCHANGED <<lists, known, state, sig, cpu, tsroot, mtx, srcVars, thrVars>>

TerminateNext ==                        \* signal one worker, or be done
    /\ pc[Main] = "terminate" /\ Unlocked
    /\ IF known = {} THEN Go(Main, "finished") /\ UNCHANGED <<sig, cpu, joining>>
       ELSE \E u \in known :
              /\ sig' = [sig EXCEPT ![u] = TRUE]
              /\ cpu' = [cpu EXCEPT ![u] = TRUE]
              /\ joining' = u
              /\ Go(Main, "join")
    /\ UNCHANGED <<lists, known, state, tsroot, term, mtx, srcVars,
                   lq, cur, first, child, failed>>

Join ==
    /\ pc[Main] = "join" /\ pc[joining] = "dead"
    /\ joining' = NoWorker
    /\ Go(Main, "terminate")
    /\ UNCHANGED <<poolVars, srcVars, lq, cur, first, child, failed>>

(* The pool is destroyed: nothing is left to do. *)
Finished == pc[Main] = "finished" /\ UNCHANGED vars

-----------------------------------------------------------------------------
(* After the constructor, which creates NThreads idle workers one by one,  *)
(* and associate() by the client.                                          *)
Init ==
    /\ idle \in {S \in SUBSET Workers : Cardinality(S) = NThreads}
    /\ running = {} /\ waiting = {} /\ waitingcpu = {}
    /\ nrunning = 0 /\ nwaiting = 0
    /\ known = idle
    /\ state = [w \in Workers |-> "idle"]
    /\ sig = [w \in Workers |-> FALSE] /\ cpu = [w \in Workers |-> FALSE]
    /\ tsroot = NoSource /\ term = FALSE /\ mtx = NoWorker
    /\ sst = [s \in Source |-> "new"] /\ pos = [s \in Source |-> 0]
    /\ npending = [s \in Source |-> 0] /\ srunning = [s \in Source |-> 0]
    /\ exc = [s \in Source |-> FALSE] /\ alldone = [s \in Source |-> FALSE]
    /\ children = [s \in Source |-> <<>>]
    /\ pc = [th \in Threads |-> IF th = Main THEN "client"
                                ELSE IF th \in idle THEN "loop" ELSE "unborn"]
    /\ lq = [w \in Workers |-> <<>>] /\ cur = [w \in Workers |-> NoTask]
    /\ first = [w \in Workers |-> TRUE]
    /\ child = [w \in Workers |-> NoWorker] /\ joining = NoWorker
    /\ failed = {}

WorkerMain(w) ==
    \/ WorkerStarts(w) \/ LoopIdle(w) \/ SigWake(w) \/ CheckTerm(w)
    \/ LoopRunning(w) \/ FirstPull(w) \/ FirstSpawn(w)
    \/ StartTask(w) \/ QueueEmpty(w)
    \/ BatchPull(w) \/ BatchSpawn(w) \/ Settle(w) \/ Yield(w) \/ WorkerExits(w)

TaskBody(w) ==
    \/ SubmitNested(w) \/ TaskThrows(w)
    \/ notify_exception(w) \/ notify_finish_task(w)
    \/ ReleaseCheck(w) \/ CreatedReady(w) \/ ReleaseMove(w) \/ ExternalEvent(w)
    \/ Acquire(w) \/ CpuWake(w) \/ CpuCheck(w) \/ SubmitReturns(w)

AnyThread(th) == ReleaseActivate(th) \/ WaitCheck(th) \/ WaitWake(th)

Client == SubmitRoot \/ RootReturns \/ SetTerm \/ TerminateNext \/ Join

Next == \/ \E w \in Workers : WorkerMain(w) \/ TaskBody(w)
        \/ \E th \in Threads : AnyThread(th)
        \/ Client \/ Finished

Spec == Init /\ [][Next]_vars

(* Every thread that can take a step eventually does: the operating system *)
(* schedules every thread, tasks and the events they wait for take finite  *)
(* time, and m_mtx is held for four steps at most.                          *)
FairSpec == /\ Spec
            /\ \A w \in Workers : /\ WF_vars(WorkerMain(w)) /\ WF_vars(TaskBody(w))
                                  /\ WF_vars(AnyThread(w))
            /\ WF_vars(AnyThread(Main)) /\ WF_vars(Client)
-----------------------------------------------------------------------------
(* Properties *)

(* The steps of a worker that holds one of the NCpus CPUs. *)
OnCpu == {"first", "spawn1", "pop", "perform", "throw", "finish", "tail",
          "batch", "settle", "spawn2", "unsub", "rel", "relwait", "rel2"}
Labels == OnCpu \cup
    {"unborn", "born", "loop", "sigwait", "woken", "yield", "exit", "dead",
     "rel3", "external", "tswait", "tsblock", "acq", "cpuwait", "cpucheck",
     "client", "terminate", "join", "finished"}

TypeOK ==
    /\ idle \subseteq Workers /\ running \subseteq Workers
    /\ waiting \subseteq Workers /\ waitingcpu \subseteq Workers
    /\ nrunning \in Nat /\ nwaiting \in Nat
    /\ known \subseteq Workers
    /\ state \in [Workers -> {"idle", "running"}]
    /\ sig \in [Workers -> BOOLEAN] /\ cpu \in [Workers -> BOOLEAN]
    /\ tsroot \in Source \cup {NoSource} /\ term \in BOOLEAN
    /\ mtx \in Workers \cup {NoWorker}
    /\ sst \in [Source -> {"new", "open", "returned", "threw"}]
    /\ pos \in [Source -> Nat]
    /\ npending \in [Source -> Nat] /\ srunning \in [Source -> Nat]
    /\ exc \in [Source -> BOOLEAN] /\ alldone \in [Source -> BOOLEAN]
    /\ children \in [Source -> Seq(Source)]
    /\ pc \in [Threads -> Labels]
    /\ lq \in [Workers -> Seq(Task)]
    /\ cur \in [Workers -> Task \cup {NoTask}]
    /\ first \in [Workers -> BOOLEAN]
    /\ child \in [Workers -> Workers \cup {NoWorker}]
    /\ joining \in Workers \cup {NoWorker}
    /\ failed \subseteq Task

(* At most NCpus threads run tasks, whatever is created, activated, given  *)
(* up or taken back ("Limit on number of CPUs", thread_pool.h:60), and     *)
(* m_nrunning is the exact length of m_running.                            *)
CpuLimit ==
    /\ Cardinality({w \in Workers : pc[w] \in OnCpu}) <= NCpus
    /\ nrunning = Cardinality(running) /\ nrunning <= NCpus

(* remove_from_list erases what std::find returns without a test: the      *)
(* worker must be in the list its position in the code implies, and it is  *)
(* in one list only.                                                       *)
ListPositions == TypeOK /\ \A w \in Workers :
    /\ pc[w] \in OnCpu => w \in running
    /\ pc[w] \in {"rel3", "external", "tswait", "tsblock", "acq"} => w \in waiting
    /\ pc[w] \in {"cpuwait", "cpucheck"} => w \in waitingcpu \cup running
    /\ Cardinality({l \in {"i", "r", "w", "c"} :
          w \in CASE l = "i" -> idle [] l = "r" -> running
                  [] l = "w" -> waiting [] l = "c" -> waitingcpu}) <= 1

(* A thread waits for a CPU only while all CPUs are taken, or as many as   *)
(* are free are about to be handed over by a thread in the last section of *)
(* do_release_cpu or at its yield: none forgets the queue of waiters.      *)
NoCpuWasted ==
    waitingcpu # {} =>
        nrunning + Cardinality({th \in Threads : pc[th] \in {"rel3", "yield"}}) >= NCpus

(* No queue and no worker refers to a source whose submit has returned (it *)
(* lived on the stack of the submitting thread), nor does its parent or    *)
(* the pool.                                                               *)
Lifetime ==
    /\ \A w \in Workers :
         /\ \A i \in DOMAIN lq[w] : sst[SourceOf(lq[w][i])] = "open"
         /\ cur[w] # NoTask => sst[SourceOf(cur[w])] = "open"
    /\ \A s \in Source : \A i \in DOMAIN children[s] :
         sst[s] = "open" /\ sst[children[s][i]] = "open"
    /\ tsroot # NoSource => sst[tsroot] = "open"

(* m_npending and m_nrunning of a source count its tasks in the queues and *)
(* in the hands of workers, wherever they were stolen to.                  *)
Counts == \A s \in Source :
    /\ npending[s] = Cardinality({p \in Workers \X (1..Cardinality(Task)) :
                         p[2] \in DOMAIN lq[p[1]] /\ lq[p[1]][p[2]] \in InSource(s)})
    /\ srunning[s] = Cardinality({w \in Workers : cur[w] \in InSource(s)})

(* "The queue is assumed to be empty on entry" (thread_pool.C:337), with a *)
(* thief at work and workers that were activated twice.                    *)
QueueEmptyOnEntry == \A w \in Workers :
    pc[w] \in {"first", "batch"} => lq[w] = <<>>

(* The three together: the queues, the workers and the sources agree.      *)
SourcesExact == Lifetime /\ Counts /\ QueueEmptyOnEntry

(* Refinement: the abstract view of a task and of a call. *)
Taken(t) == \E s \in Source : \E i \in 1..pos[s] : TaskSeq[s][i] = t
Queued(t) == \E w \in Workers : \E i \in DOMAIN lq[w] : lq[w][i] = t
TaskView == [t \in Task |->
    IF \E w \in Workers : cur[w] = t THEN "running"
    ELSE IF ~Taken(t) \/ Queued(t) THEN "todo"
    ELSE IF t \in failed THEN "failed" ELSE "ok"]

Submit == INSTANCE TaskSubmit WITH tst <- TaskView, sst <- sst

(* Pulling, stealing, waiting and exceptions implement the promise of      *)
(* submit: each task once, return after all of them, throw iff one threw.  *)
SubmitSpec == Submit!Spec

(* Every submit returns, nested or not, whichever threads sleep, and       *)
(* terminate() then joins every worker: no wake-up is lost.                *)
Termination == <>(pc[Main] = "finished" /\ known = {})

(* A worker that queues for a CPU gets one and goes on with its task. *)
WaiterGetsCpu == \A w \in Workers :
    pc[w] = "cpuwait" ~> pc[w] \in {"unsub", "tail"}
=============================================================================
