------------------------- MODULE DirectBlockTensor -------------------------
(***************************************************************************)
(* direct_gen_block_tensor (gen_block_tensor/impl): blocks that are        *)
(* computed when they are first requested, shared by the threads that      *)
(* request them and removed when the last of them returns the block.       *)
(*                                                                         *)
(* Each thread is a pool task that requests, reads and returns the blocks  *)
(* of its list one after the other.  compute_block runs without m_lock and *)
(* may itself request a block of another direct tensor (Dep), so a thread  *)
(* holds a stack of requests.  CPUs are those of the thread pool: a thread *)
(* gives its CPU up before it sleeps on a block and takes one afterwards.  *)
(* One action per critical section of m_lock.                              *)
(***************************************************************************)
EXTENDS Naturals, Sequences, FiniteSets

CONSTANTS Threads, Blocks, NoBlock,
          List,            \* [Threads -> Seq(Blocks)]
          Dep,             \* [Blocks -> Blocks \cup {NoBlock}]
          NCpus,
          MayFail          \* the blocks whose compute_block may throw

ASSUME CpuAssumption == NCpus \in Nat \ {0}
ASSUME ListAssumption == /\ List \in [Threads -> Seq(Blocks)]
                         /\ NoBlock \notin Blocks
                         /\ Dep \in [Blocks -> Blocks \cup {NoBlock}]
ASSUME FiniteAssumption == IsFiniteSet(Threads) /\ IsFiniteSet(Blocks)

(* A tensor is built on an operation whose arguments exist already         *)
(* (direct_gen_block_tensor_base.h), so no block depends on itself.        *)
ASSUME DepAssumption ==
    \E level \in [Blocks -> 0..Cardinality(Blocks)] :
        \A b \in Blocks : Dep[b] # NoBlock => level[Dep[b]] < level[b]

VARIABLES
    m_count,       \* [Blocks -> Nat]; 0: no entry
    m_inprogress,  \* the blocks being computed
    m_map,         \* the blocks present in the block map
    m_cond,        \* [Blocks -> SUBSET Threads]: the conds in the cond_map
    sig,           \* [Threads -> BOOLEAN]: flag of the cond a thread sleeps on
    full,          \* the blocks of m_map whose data is complete
    stack,         \* [Threads -> Seq([blk, at])]: open requests, top first
    next,          \* [Threads -> Nat]: entries of List finished
    oncpu,         \* the threads that hold a CPU
    status,        \* [Threads -> {"queued", "busy", "done", "threw"}]
    lastRead       \* history: what the last read of a thread saw

tensor == <<m_count, m_inprogress, m_map, m_cond, sig, full>>
vars == <<tensor, stack, next, oncpu, status, lastRead>>

Top(t) == stack[t][1]
At(t, place) == status[t] = "busy" /\ stack[t] # <<>> /\ Top(t).at = place
Running(t, place) == At(t, place) /\ t \in oncpu
GoTo(t, place) == stack' = [stack EXCEPT ![t][1].at = place]
Push(t, b, place) == stack' = [stack EXCEPT
    ![t] = <<[blk |-> b, at |-> "req"]>> \o
           (IF @ = <<>> THEN <<>> ELSE [@ EXCEPT ![1].at = place])]

Init == /\ m_count = [b \in Blocks |-> 0] /\ m_inprogress = {}
        /\ m_map = {} /\ full = {}
        /\ m_cond = [b \in Blocks |-> {}] /\ sig = [t \in Threads |-> FALSE]
        /\ stack = [t \in Threads |-> <<>>] /\ next = [t \in Threads |-> 0]
        /\ oncpu = {} /\ status = [t \in Threads |-> "queued"]
        /\ lastRead = [t \in Threads |-> TRUE]

-----------------------------------------------------------------------------
(* The task of a thread *)

StartTask(t) ==
    /\ status[t] = "queued" /\ Cardinality(oncpu) < NCpus
    /\ status' = [status EXCEPT ![t] = "busy"]
    /\ oncpu' = oncpu \cup {t}
    /\ UNCHANGED <<tensor, stack, next, lastRead>>

RequestNext(t) ==
    /\ status[t] = "busy" /\ stack[t] = <<>> /\ next[t] < Len(List[t])
    /\ Push(t, List[t][next[t] + 1], "none")
    /\ UNCHANGED <<tensor, next, oncpu, status, lastRead>>

EndTask(t) ==
    /\ status[t] = "busy" /\ stack[t] = <<>> /\ next[t] = Len(List[t])
    /\ status' = [status EXCEPT ![t] = "done"]
    /\ oncpu' = oncpu \ {t}
    /\ UNCHANGED <<tensor, stack, next, lastRead>>

-----------------------------------------------------------------------------
(* on_req_const_block *)

NewBlock(b) == m_count[b] = 0

(* The first critical section: count the request, then compute the block,  *)
(* sleep until it is computed, or have it at once.                         *)
on_req_const_block(t) ==
    /\ Running(t, "req")
    /\ LET b        == Top(t).blk
           newblock == NewBlock(b)
           waits    == ~newblock /\ b \in m_inprogress
       IN  /\ m_count' = [m_count EXCEPT ![b] = @ + 1]
           /\ m_map' = m_map \cup {b}
           /\ m_inprogress' = IF newblock THEN m_inprogress \cup {b} ELSE m_inprogress
           /\ m_cond' = IF waits THEN [m_cond EXCEPT ![b] = @ \cup {t}] ELSE m_cond
           /\ sig' = [sig EXCEPT ![t] = FALSE]
           /\ GoTo(t, IF newblock THEN "compute" ELSE IF waits THEN "release" ELSE "use")
    /\ UNCHANGED <<full, next, oncpu, status, lastRead>>

(* compute_block without m_lock: first the block it depends on, if any. *)
ComputeNested(t) ==
    /\ Running(t, "compute") /\ Dep[Top(t).blk] # NoBlock
    /\ Push(t, Dep[Top(t).blk], "fill")
    /\ UNCHANGED <<tensor, next, oncpu, status, lastRead>>

Fill(t) ==
    /\ Running(t, "fill") \/ (Running(t, "compute") /\ Dep[Top(t).blk] = NoBlock)
    /\ full' = full \cup {Top(t).blk}
    /\ GoTo(t, "computed")
    /\ UNCHANGED <<m_count, m_inprogress, m_map, m_cond, sig, next, oncpu,
                   status, lastRead>>

(* compute_block throws: m_lock is taken and released, nothing is undone,  *)
(* and the exception ends every enclosing request and the task.            *)
ComputeFails(t) ==
    /\ (Running(t, "compute") \/ Running(t, "fill")) /\ Top(t).blk \in MayFail
    /\ status' = [status EXCEPT ![t] = "threw"]
    /\ stack' = [stack EXCEPT ![t] = <<>>]
    /\ oncpu' = oncpu \ {t}
    /\ UNCHANGED <<tensor, next, lastRead>>

(* m_cond.signal: every cond under the key. *)
BugSignalsOne(b) == IF m_cond[b] = {} THEN sig
                    ELSE [sig EXCEPT ![CHOOSE t \in m_cond[b] : TRUE] = TRUE]
SignalAll(b) == [t \in Threads |-> sig[t] \/ t \in m_cond[b]]

Computed(t) ==
    /\ Running(t, "computed")
    /\ m_inprogress' = m_inprogress \ {Top(t).blk}
    /\ sig' = SignalAll(Top(t).blk)
    /\ GoTo(t, "use")
    /\ UNCHANGED <<m_count, m_map, m_cond, full, next, oncpu, status, lastRead>>

(* thread_pool::release_cpu, cond.wait(), thread_pool::acquire_cpu *)
ReleaseCpu(t) ==
    /\ Running(t, "release")
    /\ oncpu' = oncpu \ {t}
    /\ GoTo(t, "sleep")
    /\ UNCHANGED <<tensor, next, status, lastRead>>

BugWakesEarly(t) == TRUE
Woken(t) == sig[t]

WakeUp(t) ==
    /\ At(t, "sleep") /\ Woken(t)
    /\ sig' = [sig EXCEPT ![t] = FALSE]
    /\ GoTo(t, "acquire")
    /\ UNCHANGED <<m_count, m_inprogress, m_map, m_cond, full, next, oncpu,
                   status, lastRead>>

CpuFree(t) == Cardinality(oncpu \ {t}) < NCpus

AcquireCpu(t) ==
    /\ At(t, "acquire") /\ CpuFree(t)
    /\ oncpu' = oncpu \cup {t}
    /\ GoTo(t, "erase")
    /\ UNCHANGED <<tensor, next, status, lastRead>>

EraseCond(t) ==                         \* m_cond.erase under m_lock
    /\ Running(t, "erase")
    /\ m_cond' = [m_cond EXCEPT ![Top(t).blk] = @ \ {t}]
    /\ GoTo(t, "use")
    /\ UNCHANGED <<m_count, m_inprogress, m_map, sig, full, next, oncpu,
                   status, lastRead>>

-----------------------------------------------------------------------------
(* The caller reads the block and returns it. *)

Use(t) ==
    /\ Running(t, "use")
    /\ lastRead' = [lastRead EXCEPT ![t] = Top(t).blk \in m_map \cap full]
    /\ GoTo(t, "ret")
    /\ UNCHANGED <<tensor, next, oncpu, status>>

BugRemovesEarly(n) == n <= 1
LastUser(n) == n = 0

on_ret_const_block(t) ==
    /\ Running(t, "ret")
    /\ LET b == Top(t).blk
       IN  /\ m_count' = [m_count EXCEPT ![b] = @ - 1]
           /\ IF LastUser(m_count[b] - 1)
              THEN m_map' = m_map \ {b} /\ full' = full \ {b}
              ELSE UNCHANGED <<m_map, full>>
    /\ stack' = [stack EXCEPT ![t] = Tail(@)]
    /\ next' = IF Len(stack[t]) = 1 THEN [next EXCEPT ![t] = @ + 1] ELSE next
    /\ UNCHANGED <<m_inprogress, m_cond, sig, oncpu, status, lastRead>>

-----------------------------------------------------------------------------
Step(t) == \/ StartTask(t) \/ RequestNext(t) \/ EndTask(t)
           \/ on_req_const_block(t) \/ ComputeNested(t) \/ Fill(t)
           \/ ComputeFails(t) \/ Computed(t)
           \/ ReleaseCpu(t) \/ WakeUp(t) \/ AcquireCpu(t) \/ EraseCond(t)
           \/ Use(t) \/ on_ret_const_block(t)

Ended == (\A t \in Threads : status[t] \in {"done", "threw"}) /\ UNCHANGED vars

Next == (\E t \in Threads : Step(t)) \/ Ended

Spec == Init /\ [][Next]_vars

(* A thread that can go on does: computing a block takes finite time and   *)
(* the pool hands a free CPU to a thread that waits for one (WaiterGetsCpu *)
(* of ThreadPool), so a thread may not be passed over forever.             *)
FairSpec == Spec /\ \A t \in Threads : SF_vars(Step(t))

-----------------------------------------------------------------------------
(* Properties *)

Places == {"none", "req", "compute", "fill", "computed", "release", "sleep",
           "acquire", "erase", "use", "ret"}

TypeOK ==
    /\ m_count \in [Blocks -> Nat]
    /\ m_inprogress \subseteq Blocks /\ m_map \subseteq Blocks /\ full \subseteq Blocks
    /\ m_cond \in [Blocks -> SUBSET Threads]
    /\ sig \in [Threads -> BOOLEAN]
    /\ stack \in [Threads -> Seq([blk : Blocks, at : Places])]
    /\ next \in [Threads -> Nat]
    /\ oncpu \subseteq Threads /\ Cardinality(oncpu) <= NCpus
    /\ status \in [Threads -> {"queued", "busy", "done", "threw"}]
    /\ lastRead \in [Threads -> BOOLEAN]

(* Every read sees a block that is present and fully computed, also by a   *)
(* thread that slept while another thread computed it and lost the CPU in  *)
(* between.                                                                *)
ReadsComplete == \A t \in Threads : lastRead[t]

Computes(t, b) == \E i \in DOMAIN stack[t] :
    stack[t][i].blk = b /\ stack[t][i].at \in {"compute", "fill", "computed"}

(* One thread at a time computes a block, and                              *)
(* the count of a block is the number of requests that have not been       *)
(* returned, sleeping ones included, and the block is in the map exactly   *)
(* while it is counted: it is neither removed under a reader nor kept.     *)
(* Only a block whose computation threw is excepted: it stays in progress, *)
(* counted and present, with nobody computing it.                          *)
Holds(t, b) == \E i \in DOMAIN stack[t] : stack[t][i].blk = b /\ stack[t][i].at # "req"
Lost(b) == b \in m_inprogress /\ \A t \in Threads : ~Computes(t, b)
CountsRequests == TypeOK /\ \A b \in Blocks : ~Lost(b) =>
    /\ Cardinality({t \in Threads : Computes(t, b)}) <= 1
    /\ m_count[b] = Cardinality({t \in Threads : Holds(t, b)})
    /\ b \in m_map <=> m_count[b] > 0

(* A thread asleep on a block is signalled or its block is being computed  *)
(* by a thread that will signal it.                                        *)
SleeperHasWaker == \A t \in Threads :
    stack[t] # <<>> /\ Top(t).at \in {"release", "sleep"} =>
        sig[t] \/ (Top(t).blk \in m_inprogress /\ t \in m_cond[Top(t).blk])

(* Every task ends, however its requests interleave with nested ones and   *)
(* with the threads that wait for a CPU.                                   *)
AllEnd == <>(\A t \in Threads : status[t] \in {"done", "threw"})

(* gen_block_tensor_i.h: a request returns the reference to the block (or  *)
(* throws); it does not wait for ever.                                     *)
RequestsAnswered == \A t \in Threads :
    (status[t] = "busy" /\ stack[t] # <<>>) ~> (stack[t] = <<>>)
=============================================================================
