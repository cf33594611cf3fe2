------------------------------ MODULE PosixCond ------------------------------
(***************************************************************************)
(* libutil::cond over POSIX threads (src/libutil/threads/posix): a flag    *)
(* m_sig with a mutex and a condition variable.  wait() sleeps only if the *)
(* flag is off, and does not test it again when pthread_cond_wait returns. *)
(* The mutex is held for the whole of signal() and broadcast() and for the *)
(* whole of wait() except in pthread_cond_wait, so these are the steps.    *)
(***************************************************************************)
EXTENDS Naturals, FiniteSets

CONSTANTS Waiters, Signallers, Broadcasters,    \* disjoint
          Calls,            \* bound: the calls each thread makes
          SpuriousWakeups

Threads == Waiters \cup Signallers \cup Broadcasters

VARIABLES m_sig,
          sleeping,     \* blocked in pthread_cond_wait
          woken,        \* returned from it, the mutex not yet taken again
          left          \* [Threads -> 0..Calls]: calls still to make

cond == <<m_sig, sleeping, woken, left>>

CondInit ==
    /\ m_sig = FALSE /\ sleeping = {} /\ woken = {}
    /\ left = [t \in Threads |-> Calls]

Call(t) == left[t] > 0 /\ left' = [left EXCEPT ![t] = @ - 1]
Outside(w) == w \notin sleeping \cup woken

(* wait() with the flag on: exits at once. *)
WaitThrough(w) ==
    /\ Outside(w) /\ m_sig
    /\ Call(w)
    /\ m_sig' = FALSE
    /\ UNCHANGED <<sleeping, woken>>

WaitSleep(w) ==
    /\ Outside(w) /\ ~m_sig
    /\ Call(w)
    /\ sleeping' = sleeping \cup {w}
    /\ UNCHANGED <<m_sig, woken>>

(* A sleeper that was woken takes the mutex and leaves. *)
WaitLeave(w) ==
    /\ w \in woken
    /\ woken' = woken \ {w}
    /\ m_sig' = FALSE
    /\ UNCHANGED <<sleeping, left>>

SpuriousReturn(w) ==
    /\ SpuriousWakeups /\ w \in sleeping
    /\ sleeping' = sleeping \ {w} /\ woken' = woken \cup {w}
    /\ UNCHANGED <<m_sig, left>>

(* Only the call that turns the flag on wakes a sleeper. *)
BugSignalAsleep(s) ==
    /\ Call(s)
    /\ m_sig' = TRUE
    /\ UNCHANGED <<sleeping, woken>>
Signal(s) ==
    /\ Call(s)
    /\ m_sig' = TRUE
    /\ IF ~m_sig /\ sleeping # {}
       THEN \E w \in sleeping : sleeping' = sleeping \ {w} /\ woken' = woken \cup {w}
       ELSE UNCHANGED <<sleeping, woken>>

Broadcast(b) ==
    /\ Call(b)
    /\ m_sig' = TRUE
    /\ IF ~m_sig THEN sleeping' = {} /\ woken' = woken \cup sleeping
                 ELSE UNCHANGED <<sleeping, woken>>

CondNext ==
    \/ \E w \in Waiters : WaitThrough(w) \/ WaitSleep(w) \/ WaitLeave(w) \/ SpuriousReturn(w)
    \/ \E s \in Signallers : Signal(s)
    \/ \E b \in Broadcasters : Broadcast(b)

CondSpec == CondInit /\ [][CondNext]_cond

(* Whoever can take the mutex does. *)
CondFairSpec == CondSpec /\ \A w \in Waiters : WF_cond(WaitLeave(w))

-----------------------------------------------------------------------------
(* Properties *)

CondTypeOK ==
    /\ m_sig \in BOOLEAN
    /\ sleeping \subseteq Waiters /\ woken \subseteq Waiters \ sleeping
    /\ left \in [Threads -> 0..Calls]

(* With one waiter (the only way the library uses a cond) the flag is on   *)
(* while somebody sleeps only if the sleeper has been woken: a signal that *)
(* comes before, during or after wait() is never lost.                     *)
NoLostSignal == CondTypeOK /\ (m_sig => sleeping = {})

(* A signalled waiter does come back. *)
SignalWakes == \A w \in Waiters : (w \in sleeping \cup woken /\ m_sig) ~> w \notin sleeping \cup woken
=============================================================================
