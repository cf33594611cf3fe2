----------------------------- MODULE TaskSubmit -----------------------------
(***************************************************************************)
(* What thread_pool::submit promises to its caller (thread_pool.h:87-91):  *)
(* "Submits a collection of tasks ... Returns when all the tasks have been *)
(* completed".  A source is one call of submit with its collection of      *)
(* tasks; a task may itself submit a nested source.  Every task of an open *)
(* source runs exactly once, a call returns only when all of its tasks     *)
(* have finished, and it throws exactly when one of its tasks threw.       *)
(* Workers, CPUs, queues and locks do not appear here.                     *)
(***************************************************************************)
EXTENDS Naturals, Sequences

CONSTANTS Task, Source, NoSource,
          TaskSeq,      \* [Source -> Seq(Task)]: the task iterator of a call
          Nested,       \* [Task -> Source \cup {NoSource}]: a call made by a task
          Throwing,     \* the tasks that may throw
          Roots         \* Seq(Source): the calls of the client thread, in order

VARIABLES tst,          \* [Task -> {"todo", "running", "ok", "failed"}]
          sst           \* [Source -> {"new", "open", "returned", "threw"}]

vars == <<tst, sst>>

InSource(s) == {TaskSeq[s][i] : i \in DOMAIN TaskSeq[s]}
Returned(s) == sst[s] \in {"returned", "threw"}
Finished(t) == tst[t] \in {"ok", "failed"}

Init == /\ tst = [t \in Task |-> "todo"]
        /\ sst = [s \in Source |-> "new"]

(* The client thread makes its next call once the previous one returned. *)
OpenRoot == \E i \in DOMAIN Roots :
    /\ sst[Roots[i]] = "new"
    /\ \A j \in 1..(i - 1) : Returned(Roots[j])
    /\ sst' = [sst EXCEPT ![Roots[i]] = "open"]
    /\ UNCHANGED tst

OpenNested(t) ==
    /\ tst[t] = "running" /\ Nested[t] # NoSource
    /\ sst[Nested[t]] = "new"
    /\ sst' = [sst EXCEPT ![Nested[t]] = "open"]
    /\ UNCHANGED tst

Start(s, t) ==
    /\ sst[s] = "open" /\ t \in InSource(s) /\ tst[t] = "todo"
    /\ tst' = [tst EXCEPT ![t] = "running"]
    /\ UNCHANGED sst

(* A task ends well only after the call it made returned without throwing. *)
FinishOk(t) ==
    /\ tst[t] = "running"
    /\ Nested[t] # NoSource => sst[Nested[t]] = "returned"
    /\ tst' = [tst EXCEPT ![t] = "ok"]
    /\ UNCHANGED sst

(* It fails by its own exception, before or after the call, or by the      *)
(* exception that the call rethrew.                                        *)
FinishFailed(t) ==
    /\ tst[t] = "running"
    /\ \/ t \in Throwing /\ (Nested[t] # NoSource => sst[Nested[t]] # "open")
       \/ Nested[t] # NoSource /\ sst[Nested[t]] = "threw"
    /\ tst' = [tst EXCEPT ![t] = "failed"]
    /\ UNCHANGED sst

Return(s) ==
    /\ sst[s] = "open"
    /\ \A t \in InSource(s) : Finished(t)
    /\ sst' = [sst EXCEPT ![s] = IF \E t \in InSource(s) : tst[t] = "failed"
                                 THEN "threw" ELSE "returned"]
    /\ UNCHANGED tst

Next == \/ OpenRoot
        \/ \E t \in Task : OpenNested(t) \/ FinishOk(t) \/ FinishFailed(t)
        \/ \E s \in Source, t \in Task : Start(s, t)
        \/ \E s \in Source : Return(s)

Spec == Init /\ [][Next]_vars
=============================================================================
