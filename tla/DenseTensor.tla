---------------------------- MODULE DenseTensor ----------------------------
(***************************************************************************)
(* dense_tensor (libtensor/dense_tensor/impl/dense_tensor_impl.h): the     *)
(* sessions through which control objects obtain pointers to the elements. *)
(* Every handler runs under m_mtx, so each is one action.                  *)
(*                                                                         *)
(* A client is one control object (dense_tensor_ctrl): it opens a session  *)
(* when it is built, asks for pointers and returns them, and closes the    *)
(* session when it is destroyed, with pointers still out if an exception   *)
(* unwinds it.  The elements stay at one address, so a pointer is         *)
(* either null (FALSE) or not, and a pointer handed out twice compares     *)
(* equal.  A request that throws changes nothing: it is a stuttering step. *)
(* Left out: prefetch and priority, which only advise the allocator.       *)
(***************************************************************************)
EXTENDS Integers, FiniteSets, FiniteSetsExt

CONSTANTS
    Clients,
    InitSlots,        \* slots for sessions at first (8 in the code)
    MaxPtrs,          \* bound of the model: read-only pointers of a client
    CloseDuringWrite  \* may a session close while another one writes?

ASSUME SlotsAssumption == InitSlots \in Nat \ {0} /\ MaxPtrs \in Nat
ASSUME CloseAssumption == CloseDuringWrite \in BOOLEAN
ASSUME ClientsAssumption == IsFiniteSet(Clients)

VARIABLES
    m_dataptr,           \* a read-write pointer is out
    m_const_dataptr,     \* a read-only pointer is out
    m_ptrcount,
    m_sessions,          \* slot -> session is open
    m_session_ptrcount,  \* slot -> pointers of the session
    m_immutable,
    handle,              \* client -> slot of its session, or NoSession
    rw,                  \* clients that hold a read-write pointer
    ro                   \* client -> read-only pointers it holds

tensor == <<m_dataptr, m_const_dataptr, m_ptrcount, m_session_ptrcount>>
held == <<rw, ro>>
vars == <<tensor, m_sessions, m_immutable, handle, held>>

NoSession == -1
Slots == DOMAIN m_sessions
Open(c) == handle[c] # NoSession

Init ==
    /\ m_dataptr = FALSE /\ m_const_dataptr = FALSE /\ m_ptrcount = 0
    /\ m_sessions = [i \in 0..(InitSlots - 1) |-> FALSE]
    /\ m_session_ptrcount = [i \in 0..(InitSlots - 1) |-> 0]
    /\ m_immutable = FALSE
    /\ handle = [c \in Clients |-> NoSession]
    /\ rw = {} /\ ro = [c \in Clients |-> 0]

(* The slot of a new session, and the slots there are afterwards. *)
FirstFree ==
    IF \E i \in Slots : ~m_sessions[i]
    THEN Min({i \in Slots : ~m_sessions[i]})
    ELSE Cardinality(Slots)
Enough(i) == IF i \in Slots THEN Slots ELSE 0..(2 * Cardinality(Slots) - 1)

(* on_req_open_session, from the constructor of the control. *)
OpenSession(c) ==
    /\ ~Open(c)
    /\ LET h == FirstFree
       IN  /\ handle' = [handle EXCEPT ![c] = h]
           /\ m_sessions' = [i \in Enough(h) |->
                               i = h \/ (i \in Slots /\ m_sessions[i])]
           /\ m_session_ptrcount' = [i \in Enough(h) |->
                  IF i = h \/ i \notin Slots THEN 0 ELSE m_session_ptrcount[i]]
    /\ UNCHANGED <<m_dataptr, m_const_dataptr, m_ptrcount, m_immutable, held>>

(* What closing session h gives back: its own read-only pointers, or the   *)
(* read-write pointer, whichever session has it.                           *)
BugKeepsCounts(h) == UNCHANGED tensor
GiveBackAll(h) ==
    \/ /\ m_const_dataptr
       /\ m_ptrcount' = m_ptrcount - m_session_ptrcount[h]
       /\ m_session_ptrcount' = [m_session_ptrcount EXCEPT ![h] = 0]
       /\ m_const_dataptr' = (m_ptrcount' # 0)
       /\ UNCHANGED m_dataptr
    \/ /\ ~m_const_dataptr /\ m_dataptr
       /\ m_ptrcount' = 0
       /\ m_session_ptrcount' = [m_session_ptrcount EXCEPT ![h] = 0]
       /\ m_dataptr' = FALSE
       /\ UNCHANGED m_const_dataptr
    \/ ~m_const_dataptr /\ ~m_dataptr /\ UNCHANGED tensor

(* on_req_close_session, from the destructor of the control: the client    *)
(* and its pointers are gone.                                              *)
CloseSession(c) ==
    /\ Open(c)
    /\ CloseDuringWrite \/ rw \subseteq {c}
    /\ m_sessions' = [m_sessions EXCEPT ![handle[c]] = FALSE]
    /\ GiveBackAll(handle[c])
    /\ handle' = [handle EXCEPT ![c] = NoSession]
    /\ rw' = rw \ {c} /\ ro' = [ro EXCEPT ![c] = 0]
    /\ UNCHANGED m_immutable

(* on_req_dataptr *)
BugIgnoresReaders == ~m_immutable /\ ~m_dataptr
MayWrite == ~m_immutable /\ ~m_dataptr /\ ~m_const_dataptr

ReqDataptr(c) ==
    /\ Open(c) /\ MayWrite
    /\ m_dataptr' = TRUE
    /\ m_session_ptrcount' = [m_session_ptrcount EXCEPT ![handle[c]] = 1]
    /\ m_ptrcount' = 1
    /\ rw' = rw \cup {c}
    /\ UNCHANGED <<m_const_dataptr, m_sessions, m_immutable, handle, ro>>

(* on_ret_dataptr *)
RetDataptr(c) ==
    /\ Open(c) /\ c \in rw /\ m_dataptr
    /\ m_session_ptrcount' = [m_session_ptrcount EXCEPT ![handle[c]] = 0]
    /\ m_ptrcount' = 0
    /\ m_dataptr' = FALSE
    /\ rw' = rw \ {c}
    /\ UNCHANGED <<m_const_dataptr, m_sessions, m_immutable, handle, ro>>

(* on_req_const_dataptr: the first pointer sets the counts, a further one  *)
(* raises them.                                                            *)
BugAlwaysFirst(n) == 1
Raised(n) == IF m_const_dataptr THEN n + 1 ELSE 1

ReqConstDataptr(c) ==
    /\ Open(c) /\ ~m_dataptr
    /\ ro[c] < MaxPtrs
    /\ m_const_dataptr' = TRUE
    /\ m_session_ptrcount' = [m_session_ptrcount EXCEPT ![handle[c]] = Raised(@)]
    /\ m_ptrcount' = Raised(m_ptrcount)
    /\ ro' = [ro EXCEPT ![c] = @ + 1]
    /\ UNCHANGED <<m_dataptr, m_sessions, m_immutable, handle, rw>>

(* on_ret_const_dataptr *)
RetConstDataptr(c) ==
    /\ Open(c) /\ ro[c] > 0 /\ m_const_dataptr
    /\ LET less == IF m_session_ptrcount[handle[c]] > 0 THEN 1 ELSE 0
       IN  /\ m_session_ptrcount' = [m_session_ptrcount EXCEPT ![handle[c]] = @ - less]
           /\ m_ptrcount' = m_ptrcount - less
    /\ m_const_dataptr' = (m_ptrcount' # 0)
    /\ ro' = [ro EXCEPT ![c] = @ - 1]
    /\ UNCHANGED <<m_dataptr, m_sessions, m_immutable, handle, rw>>

(* immutable::set_immutable *)
SetImmutable ==
    /\ m_immutable' = TRUE
    /\ UNCHANGED <<tensor, m_sessions, handle, held>>

Next ==
    \/ \E c \in Clients :
         \/ OpenSession(c) \/ CloseSession(c)
         \/ ReqDataptr(c) \/ RetDataptr(c)
         \/ ReqConstDataptr(c) \/ RetConstDataptr(c)
    \/ SetImmutable

Spec == Init /\ [][Next]_vars

-----------------------------------------------------------------------------
TypeOK ==
    /\ {m_dataptr, m_const_dataptr, m_immutable} \subseteq BOOLEAN
    /\ m_ptrcount \in Nat
    /\ m_sessions \in [Slots -> BOOLEAN]
    /\ m_session_ptrcount \in [Slots -> Nat]
    /\ handle \in [Clients -> Slots \cup {NoSession}]
    /\ rw \subseteq Clients /\ ro \in [Clients -> 0..MaxPtrs]

(* Open controls have sessions of their own and no session is left over,   *)
(* also after the table of sessions has doubled.                           *)
SessionsMatch ==
    /\ \A c, d \in Clients : Open(c) /\ handle[c] = handle[d] => c = d
    /\ {handle[c] : c \in {d \in Clients : Open(d)}} = {i \in Slots : m_sessions[i]}

(* A pointer that a live control holds is one the tensor knows to be out,  *)
(* for writing or for reading: nobody else's control takes it away         *)
(* (dense_tensor_ctrl.h: controls are "needed to prevent tensor corruption *)
(* in the case of an exception").                                          *)
PointersValid ==
    /\ rw # {} => m_dataptr
    /\ \A c \in Clients : ro[c] > 0 => m_const_dataptr

(* The read-only pointers that are out, client by client. *)
PointersOf(f) == {p \in Clients \X (1..MaxPtrs) : p[2] <= f[p[1]]}

(* The counts are those of the pointers really held, session by session    *)
(* and in all, so the last return or close unlocks the data, and no        *)
(* earlier one does; and the table has the open sessions.                  *)
CountsMatch ==
    /\ TypeOK /\ SessionsMatch
    /\ \A c \in Clients : Open(c) =>
         m_session_ptrcount[handle[c]] = ro[c] + (IF c \in rw THEN 1 ELSE 0)
    /\ m_ptrcount = Cardinality(PointersOf(ro)) + Cardinality(rw)
    /\ (m_ptrcount # 0) <=> (m_dataptr \/ m_const_dataptr)

(* The code implements shared readers and one writer. *)
Shared == INSTANCE SharedData WITH Users <- Clients, writers <- rw, readers <- ro
SharedSpec == Shared!Spec
=============================================================================
