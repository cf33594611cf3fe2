----------------------------- MODULE Units_proofs -----------------------------
(***************************************************************************)
(* Proofs about four units that know nothing of each other: the condition  *)
(* variable of libutil, the sessions and pointers of dense_tensor, the     *)
(* page file of libxm, and the orbit algorithms.                           *)
(***************************************************************************)
EXTENDS PosixCond, DenseTensor, XmPages, OrbitCalls, Orbits_proofs

-----------------------------------------------------------------------------
(* The condition variable, with one waiter, as the library uses it, and    *)
(* any number of threads that signal and broadcast.                        *)

(* A cond belongs to the thread that waits on it. *)
OneWaiter == \A v, w \in Waiters : v = w

(* At first there is nothing to lose.                                      *)
LEMMA InitNoLost ==
    ASSUME Calls \in Nat, CondInit
    PROVE  NoLostSignal
<1>1. Calls \in 0..Calls
  OBVIOUS
<1>2. left \in [Threads -> 0..Calls]
  BY <1>1 DEF CondInit
<1> QED
  BY <1>2 DEF CondInit, NoLostSignal, CondTypeOK

(* The only sleeper is woken by whoever turns the flag on. *)
LEMMA StepNoLost ==
    ASSUME Calls \in Nat, OneWaiter, NoLostSignal, [CondNext]_cond
    PROVE  NoLostSignal'
<1> USE DEF NoLostSignal, CondTypeOK
<1>1. ASSUME NEW t \in Threads, Call(t)
      PROVE  left' \in [Threads -> 0..Calls]
  BY <1>1 DEF Call
<1>2. Waiters \subseteq Threads /\ Signallers \subseteq Threads /\ Broadcasters \subseteq Threads
  BY DEF Threads
<1>3. ASSUME NEW w \in Waiters,
             WaitThrough(w) \/ WaitSleep(w) \/ WaitLeave(w) \/ SpuriousReturn(w)
      PROVE  NoLostSignal'
  <2>1. CASE WaitThrough(w)
    BY <1>1, <1>2, <2>1 DEF WaitThrough
  <2>2. CASE WaitSleep(w)
    BY <1>1, <1>2, <2>2 DEF WaitSleep, Outside
  <2>3. CASE WaitLeave(w)
    BY <2>3 DEF WaitLeave
  <2>4. CASE SpuriousReturn(w)
    BY <2>4 DEF SpuriousReturn
  <2> QED
    BY <1>3, <2>1, <2>2, <2>3, <2>4
<1>4. ASSUME NEW s \in Signallers, Signal(s)
      PROVE  NoLostSignal'
  <2>1. left' \in [Threads -> 0..Calls] /\ m_sig' = TRUE
    BY <1>1, <1>2, <1>4 DEF Signal
  <2>2. CASE ~m_sig /\ sleeping # {}
    <3>1. PICK w \in sleeping : sleeping' = sleeping \ {w} /\ woken' = woken \cup {w}
      BY <1>4, <2>2 DEF Signal
    <3>2. sleeping = {w}
      BY <3>1 DEF OneWaiter
    <3> QED
      BY <2>1, <3>1, <3>2
  <2>3. CASE ~(~m_sig /\ sleeping # {})
    BY <1>4, <2>1, <2>3 DEF Signal
  <2> QED
    BY <2>2, <2>3
<1>5. ASSUME NEW b \in Broadcasters, Broadcast(b)
      PROVE  NoLostSignal'
  <2>1. left' \in [Threads -> 0..Calls] /\ m_sig' = TRUE
    BY <1>1, <1>2, <1>5 DEF Broadcast
  <2> QED
    BY <1>5, <2>1 DEF Broadcast
<1>6. CASE UNCHANGED cond
  BY <1>6 DEF cond
<1> QED
  BY <1>3, <1>4, <1>5, <1>6 DEF CondNext

(* While somebody sleeps the flag is off: a signal that comes before,      *)
(* during or after wait() is never lost, and spurious returns do no harm.  *)
THEOREM NeverLost ==
    ASSUME Calls \in Nat, OneWaiter
    PROVE  CondSpec => []NoLostSignal
<1>1. CondInit => NoLostSignal
  BY InitNoLost
<1>2. NoLostSignal /\ [CondNext]_cond => NoLostSignal'
  BY StepNoLost
<1> QED
  BY <1>1, <1>2, PTL DEF CondSpec

-----------------------------------------------------------------------------
(* The sessions and pointers of dense_tensor, for any number of control    *)
(* objects and of slots, as long as no session is closed while another one *)
(* holds the read-write pointer.                                           *)

(* The slots are numbered from zero. *)
SlotInv == \E n \in Nat \ {0} : Slots = 0..(n - 1)

(* The flags say who holds pointers, only open sessions hold some, and     *)
(* there is one writer or there are readers.                               *)
FlagInv ==
    /\ m_dataptr <=> rw # {}
    /\ m_const_dataptr <=> \E c \in Clients : ro[c] > 0
    /\ ~(m_dataptr /\ m_const_dataptr)
    /\ \A c, d \in rw : c = d
    /\ \A c \in Clients : c \in rw \/ ro[c] > 0 => Open(c)

SessionCounts == \A c \in Clients : Open(c) =>
    m_session_ptrcount[handle[c]] = ro[c] + (IF c \in rw THEN 1 ELSE 0)

Total == m_ptrcount = Cardinality(PointersOf(ro)) + Cardinality(rw)

TensorInv == TypeOK /\ SlotInv /\ SessionsMatch /\ FlagInv /\ SessionCounts /\ Total

-----------------------------------------------------------------------------
(* Operators *)

(* There are finitely many pointers.                                       *)
LEMMA PointersFinite ==
    ASSUME NEW f
    PROVE  IsFiniteSet(PointersOf(f)) /\ Cardinality(PointersOf(f)) \in Nat
<1>1. IsFiniteSet(1..MaxPtrs)
  BY SlotsAssumption, FS_Interval
<1>2. IsFiniteSet(Clients \X (1..MaxPtrs))
  BY <1>1, ClientsAssumption, FS_Product
<1>3. PointersOf(f) \in SUBSET (Clients \X (1..MaxPtrs))
  BY DEF PointersOf
<1> QED
  BY <1>2, <1>3, FS_Subset, FS_CardinalityType

(* One pointer more, and all the pointers of a client less. *)
LEMMA PointerMore ==
    ASSUME NEW f \in [Clients -> 0..MaxPtrs], NEW c \in Clients, f[c] < MaxPtrs
    PROVE  Cardinality(PointersOf([f EXCEPT ![c] = @ + 1])) = Cardinality(PointersOf(f)) + 1
<1> DEFINE g == [f EXCEPT ![c] = @ + 1]
<1>1. f[c] \in Nat /\ f[c] + 1 \in 1..MaxPtrs
  BY SlotsAssumption
<1>2. PointersOf(g) = PointersOf(f) \cup {<<c, f[c] + 1>>}
  <2>1. ASSUME NEW p \in Clients \X (1..MaxPtrs)
        PROVE  p[2] <= g[p[1]] <=> p[2] <= f[p[1]] \/ p = <<c, f[c] + 1>>
    <3>1. p[1] \in Clients /\ p[2] \in 1..MaxPtrs /\ p = <<p[1], p[2]>> /\ p[2] \in Int
      OBVIOUS
    <3>2. CASE p[1] = c
      <4>1. g[p[1]] = f[c] + 1 /\ f[p[1]] = f[c]
        BY <3>2
      <4>2. p = <<c, f[c] + 1>> <=> p[2] = f[c] + 1
        BY <3>1, <3>2
      <4> QED
        BY <1>1, <3>1, <4>1, <4>2
    <3>3. CASE p[1] # c
      BY <3>1, <3>3
    <3> QED
      BY <3>2, <3>3
  <2>2. <<c, f[c] + 1>> \in Clients \X (1..MaxPtrs)
    BY <1>1
  <2> QED
    BY <2>1, <2>2 DEF PointersOf
<1>3. <<c, f[c] + 1>> \notin PointersOf(f)
  BY <1>1 DEF PointersOf
<1> QED
  BY <1>2, <1>3, PointersFinite, FS_AddElement

(* Returning a pointer lowers the count by one.                            *)
LEMMA PointerLess ==
    ASSUME NEW f \in [Clients -> 0..MaxPtrs], NEW c \in Clients, f[c] > 0
    PROVE  Cardinality(PointersOf([f EXCEPT ![c] = @ - 1])) = Cardinality(PointersOf(f)) - 1
<1> DEFINE g == [f EXCEPT ![c] = @ - 1]
<1>1. f[c] \in Nat /\ f[c] - 1 \in 0..MaxPtrs /\ f[c] - 1 < MaxPtrs
  BY SlotsAssumption
<1>2. g \in [Clients -> 0..MaxPtrs] /\ g[c] < MaxPtrs
  BY <1>1
<1>3. [g EXCEPT ![c] = @ + 1] = f
  <2>1. g[c] + 1 = f[c] /\ \A d \in Clients : d # c => g[d] = f[d]
    BY <1>1
  <2>2. [g EXCEPT ![c] = @ + 1] = [d \in Clients |-> IF d = c THEN g[c] + 1 ELSE g[d]]
    OBVIOUS
  <2>3. [g EXCEPT ![c] = @ + 1] = [d \in Clients |-> f[d]]
    BY <2>1, <2>2
  <2> QED
    BY <2>3
<1>4. Cardinality(PointersOf([g EXCEPT ![c] = @ + 1])) = Cardinality(PointersOf(g)) + 1
  BY <1>2, PointerMore
<1>5. Cardinality(PointersOf(g)) \in Nat
  BY PointersFinite
<1> QED
  BY <1>3, <1>4, <1>5

(* Closing a session lowers the count by its pointers.                     *)
LEMMA PointersCleared ==
    ASSUME NEW f \in [Clients -> 0..MaxPtrs], NEW c \in Clients
    PROVE  Cardinality(PointersOf([f EXCEPT ![c] = 0])) = Cardinality(PointersOf(f)) - f[c]
<1> DEFINE g == [f EXCEPT ![c] = 0]
           mine == {c} \X (1..f[c])
<1>1. f[c] \in Nat /\ f[c] <= MaxPtrs
  BY SlotsAssumption
<1>2. IsFiniteSet(1..f[c]) /\ Cardinality(1..f[c]) = f[c]
  BY <1>1, FS_Interval
<1>3. IsFiniteSet({c}) /\ Cardinality({c}) = 1
  BY FS_Singleton
<1>4. Cardinality(mine) = 1 * f[c]
  BY <1>2, <1>3, FS_Product
<1>5. Cardinality(mine) = f[c]
  BY <1>1, <1>4
<1>6. mine \subseteq PointersOf(f)
  BY <1>1, SlotsAssumption DEF PointersOf
<1>7. PointersOf(g) = PointersOf(f) \ mine
  <2>1. ASSUME NEW p \in Clients \X (1..MaxPtrs)
        PROVE  p[2] <= g[p[1]] <=> p[2] <= f[p[1]] /\ p \notin mine
    <3>1. p[1] \in Clients /\ p[2] \in 1..MaxPtrs /\ p = <<p[1], p[2]>> /\ p[2] \in Int
      OBVIOUS
    <3>2. CASE p[1] = c
      <4>1. g[p[1]] = 0 /\ f[p[1]] = f[c]
        BY <3>2
      <4>2. p \in mine <=> p[2] \in 1..f[c]
        BY <3>1, <3>2
      <4> QED
        BY <1>1, <3>1, <4>1, <4>2
    <3>3. CASE p[1] # c
      BY <3>1, <3>3
    <3> QED
      BY <3>2, <3>3
  <2> QED
    BY <2>1 DEF PointersOf
<1>8. PointersOf(f) \cap mine = mine
  BY <1>6
<1>9. Cardinality(PointersOf(f) \ mine) = Cardinality(PointersOf(f)) - Cardinality(mine)
  BY <1>8, PointersFinite, FS_Difference
<1> QED
  BY <1>5, <1>7, <1>9

(* The count is zero when nobody reads.                                    *)
LEMMA NoPointers ==
    ASSUME NEW f \in [Clients -> 0..MaxPtrs]
    PROVE  Cardinality(PointersOf(f)) = 0 <=> ~\E c \in Clients : f[c] > 0
<1>1. Cardinality(PointersOf(f)) = 0 <=> PointersOf(f) = {}
  BY PointersFinite, FS_EmptySet
<1>2. ASSUME NEW c \in Clients, f[c] > 0 PROVE <<c, 1>> \in PointersOf(f)
  BY <1>2, SlotsAssumption DEF PointersOf
<1>3. ASSUME NEW p \in PointersOf(f) PROVE p[1] \in Clients /\ f[p[1]] > 0
  BY SlotsAssumption DEF PointersOf
<1> QED
  BY <1>1, <1>2, <1>3

-----------------------------------------------------------------------------
(* Initial states *)

(* At first every slot is free.                                            *)
LEMMA TensorInit == Init => TensorInv
<1> SUFFICES ASSUME Init PROVE TensorInv
  OBVIOUS
<1> USE DEF Init
<1>1. NoSession \notin Nat
  BY DEF NoSession
<1>2. Slots = 0..(InitSlots - 1) /\ SlotInv
  BY SlotsAssumption DEF Slots, SlotInv
<1>3. ro \in [Clients -> 0..MaxPtrs]
  BY SlotsAssumption
<1>4. TypeOK
  BY <1>2, <1>3 DEF TypeOK, Slots
<1>5. \A c \in Clients : ~Open(c)
  BY DEF Open
<1>6. SessionsMatch
  BY <1>2, <1>5 DEF SessionsMatch, Slots
<1>7. FlagInv
  BY DEF FlagInv
<1>8. SessionCounts
  BY <1>5 DEF SessionCounts
<1>9. Total
  <2>1. Cardinality(PointersOf(ro)) = 0
    BY <1>3, NoPointers
  <2>2. Cardinality(rw) = 0
    BY FS_EmptySet
  <2> QED
    BY <2>1, <2>2 DEF Total
<1> QED
  BY <1>2, <1>4, <1>6, <1>7, <1>8, <1>9 DEF TensorInv

-----------------------------------------------------------------------------
(* Sessions *)

(* Session handles are numbered from zero.                                 *)
LEMMA SlotNumbers ==
    ASSUME SlotInv
    PROVE  /\ Slots \subseteq Nat /\ IsFiniteSet(Slots) /\ NoSession \notin Slots
           /\ Cardinality(Slots) \in Nat \ {0} /\ Slots = 0..(Cardinality(Slots) - 1)
<1>1. PICK n \in Nat \ {0} : Slots = 0..(n - 1)
  BY DEF SlotInv
<1>2. IsFiniteSet(Slots) /\ Cardinality(Slots) = n
  BY <1>1, FS_Interval
<1> QED
  BY <1>1, <1>2 DEF NoSession

(* The slot of an open session is in the table and open. *)
LEMMA HandleSlot ==
    ASSUME TensorInv, NEW c \in Clients, Open(c)
    PROVE  handle[c] \in Slots /\ m_sessions[handle[c]]
<1>1. handle[c] \in Slots
  BY DEF TensorInv, TypeOK, Open
<1>2. handle[c] \in {handle[d] : d \in {d \in Clients : Open(d)}}
  OBVIOUS
<1> QED
  BY <1>1, <1>2 DEF TensorInv, SessionsMatch

(* A session is opened in a slot that is free, old or new. *)
LEMMA FreeSlot ==
    ASSUME TensorInv
    PROVE  /\ FirstFree \in Nat /\ FirstFree \in Enough(FirstFree)
           /\ Slots \subseteq Enough(FirstFree)
           /\ \E n \in Nat \ {0} : Enough(FirstFree) = 0..(n - 1)
           /\ FirstFree \in Slots => ~m_sessions[FirstFree]
           /\ \A c \in Clients : Open(c) => handle[c] # FirstFree
<1> DEFINE free == {i \in Slots : ~m_sessions[i]}
           n == Cardinality(Slots)
<1>1. /\ Slots \subseteq Nat /\ n \in Nat \ {0} /\ Slots = 0..(n - 1)
  BY SlotNumbers DEF TensorInv
<1> HIDE DEF n
<1>2. CASE \E i \in Slots : ~m_sessions[i]
  <2>1. FirstFree = Min(free) /\ free # {} /\ free \in SUBSET Nat
    BY <1>1, <1>2 DEF FirstFree
  <2>2. FirstFree \in free
    BY <2>1, MinOfNaturals
  <2>3. Enough(FirstFree) = Slots
    BY <2>2 DEF Enough
  <2> QED
    BY <1>1, <2>2, <2>3, HandleSlot
<1>3. CASE ~\E i \in Slots : ~m_sessions[i]
  <2>1. FirstFree = n
    BY <1>3 DEF FirstFree, n
  <2>2. FirstFree \notin Slots
    BY <1>1, <2>1
  <2>3. Enough(FirstFree) = 0..(2 * n - 1) /\ 2 * n \in Nat \ {0}
    BY <1>1, <2>2 DEF Enough, n
  <2>4. n \in 0..(2 * n - 1) /\ 0..(n - 1) \subseteq 0..(2 * n - 1)
    BY <1>1
  <2> QED
    BY <1>1, <2>1, <2>2, <2>3, <2>4, HandleSlot
<1> QED
  BY <1>2, <1>3

(* A session is opened in a free slot, or in one of those added.           *)
LEMMA OpenKeeps ==
    ASSUME TensorInv, NEW c \in Clients, OpenSession(c)
    PROVE  TensorInv'
<1> DEFINE h == FirstFree
<1>1. /\ ~Open(c) /\ handle' = [handle EXCEPT ![c] = h]
      /\ m_sessions' = [i \in Enough(h) |-> i = h \/ (i \in Slots /\ m_sessions[i])]
      /\ m_session_ptrcount' = [i \in Enough(h) |->
             IF i = h \/ i \notin Slots THEN 0 ELSE m_session_ptrcount[i]]
      /\ UNCHANGED <<m_dataptr, m_const_dataptr, m_ptrcount, m_immutable, rw, ro>>
  BY DEF OpenSession, held
<1>2. /\ h \in Nat /\ h \in Enough(h) /\ Slots \subseteq Enough(h)
      /\ \E n \in Nat \ {0} : Enough(h) = 0..(n - 1)
      /\ h \in Slots => ~m_sessions[h]
      /\ \A d \in Clients : Open(d) => handle[d] # h
  BY FreeSlot
<1> HIDE DEF h
<1> USE DEF TensorInv
<1>3. Slots' = Enough(h) /\ SlotInv'
  BY <1>1, <1>2 DEF Slots, SlotInv
<1>4. \A i \in Enough(h) : m_sessions'[i] <=> i = h \/ (i \in Slots /\ m_sessions[i])
  BY <1>1
<1>5. \A d \in Clients : handle'[d] = IF d = c THEN h ELSE handle[d]
  BY <1>1 DEF TypeOK
<1>6. h # NoSession
  BY <1>2 DEF NoSession
<1>7. \A d \in Clients : Open(d)' <=> d = c \/ Open(d)
  BY <1>5, <1>6 DEF Open
<1>8. TypeOK'
  <2>1. handle' \in [Clients -> Slots' \cup {NoSession}]
    BY <1>1, <1>2, <1>3 DEF TypeOK
  <2>2. m_session_ptrcount' \in [Slots' -> Nat]
    BY <1>1, <1>3 DEF TypeOK
  <2>3. m_sessions' \in [Slots' -> BOOLEAN]
    BY <1>1, <1>3 DEF TypeOK
  <2> QED
    BY <1>1, <2>1, <2>2, <2>3 DEF TypeOK
<1>9. SessionsMatch'
  <2>1. ASSUME NEW d \in Clients, NEW e \in Clients, Open(d)', handle'[d] = handle'[e]
        PROVE  d = e
    BY <1>2, <1>5, <1>7, <2>1 DEF SessionsMatch, Open
  <2>2. ASSUME NEW d \in Clients, Open(d)'
        PROVE  handle'[d] \in Slots' /\ m_sessions'[handle'[d]]
    <3>1. CASE d = c
      BY <1>2, <1>3, <1>4, <1>5, <3>1
    <3>2. CASE d # c
      BY <1>2, <1>3, <1>4, <1>5, <1>7, <2>2, <3>2, HandleSlot
    <3> QED
      BY <3>1, <3>2
  <2>3. ASSUME NEW i \in Slots', m_sessions'[i]
        PROVE  \E d \in Clients : Open(d)' /\ handle'[d] = i
    <3>1. CASE i = h
      BY <1>5, <1>7, <3>1
    <3>2. CASE i # h
      <4>1. i \in Slots /\ m_sessions[i]
        BY <1>3, <1>4, <2>3, <3>2
      <4>2. i \in {handle[d] : d \in {d \in Clients : Open(d)}}
        BY <4>1 DEF SessionsMatch
      <4>3. PICK d \in Clients : Open(d) /\ handle[d] = i
        BY <4>2
      <4> QED
        BY <1>1, <1>5, <1>7, <4>3
    <3> QED
      BY <3>1, <3>2
  <2>4. {handle'[d] : d \in {d \in Clients : Open(d)'}} = {i \in Slots' : m_sessions'[i]}
    BY <2>2, <2>3
  <2> QED
    BY <2>1, <2>4 DEF SessionsMatch
<1>10. FlagInv'
  BY <1>1, <1>7 DEF FlagInv
<1>11. SessionCounts'
  <2> SUFFICES ASSUME NEW d \in Clients, Open(d)'
               PROVE  m_session_ptrcount'[handle'[d]] = ro[d] + (IF d \in rw THEN 1 ELSE 0)
    BY <1>1 DEF SessionCounts
  <2>1. CASE d = c
    <3>1. c \notin rw /\ ro[c] = 0
      <4>1. ro[c] \in 0..MaxPtrs /\ ~(ro[c] > 0) /\ c \notin rw
        BY <1>1 DEF FlagInv, TypeOK
      <4> QED
        BY <4>1, SlotsAssumption
    <3>2. m_session_ptrcount'[handle'[d]] = 0
      BY <1>1, <1>2, <1>5, <2>1
    <3> QED
      BY <2>1, <3>1, <3>2
  <2>2. CASE d # c
    <3>1. Open(d) /\ handle'[d] = handle[d] /\ handle[d] \in Slots /\ handle[d] # h
      BY <1>2, <1>5, <1>7, <2>2, HandleSlot
    <3> QED
      BY <1>1, <1>2, <3>1 DEF SessionCounts
  <2> QED
    BY <2>1, <2>2
<1>12. Total'
  BY <1>1 DEF Total
<1> QED
  BY <1>3, <1>8, <1>9, <1>10, <1>11, <1>12

(* A step that opens and closes no session keeps the table as it is. *)
LEMMA TableKeeps ==
    ASSUME TensorInv, UNCHANGED <<m_sessions, handle>>
    PROVE  /\ Slots' = Slots /\ SlotInv' /\ SessionsMatch'
           /\ \A c \in Clients : Open(c)' <=> Open(c)
<1>1. Slots' = Slots
  BY DEF Slots
<1>2. \A c \in Clients : Open(c)' <=> Open(c)
  BY DEF Open
<1>3. SlotInv'
  BY <1>1 DEF TensorInv, SlotInv
<1>4. SessionsMatch'
  <2>1. {c \in Clients : Open(c)'} = {c \in Clients : Open(c)}
    BY <1>2
  <2>2. {handle'[c] : c \in {d \in Clients : Open(d)'}} = {i \in Slots' : m_sessions'[i]}
    BY <1>1, <2>1 DEF TensorInv, SessionsMatch
  <2>3. \A c, d \in Clients : Open(c)' /\ handle'[c] = handle'[d] => c = d
    BY <1>2 DEF TensorInv, SessionsMatch
  <2> QED
    BY <2>2, <2>3 DEF SessionsMatch
<1> QED
  BY <1>1, <1>2, <1>3, <1>4

(* One session's count changes with what its client holds. *)
LEMMA OneCount ==
    ASSUME TensorInv, NEW c \in Clients, Open(c), NEW n \in Nat,
           m_session_ptrcount' = [m_session_ptrcount EXCEPT ![handle[c]] = n],
           UNCHANGED <<m_sessions, handle>>,
           n = ro'[c] + (IF c \in rw' THEN 1 ELSE 0),
           \A d \in Clients : d # c => ro'[d] = ro[d] /\ (d \in rw' <=> d \in rw)
    PROVE  SessionCounts' /\ m_session_ptrcount' \in [Slots -> Nat]
<1> USE DEF TensorInv
<1>1. handle[c] \in Slots /\ m_session_ptrcount \in [Slots -> Nat]
  BY HandleSlot DEF TypeOK
<1>2. m_session_ptrcount' \in [Slots -> Nat] /\ m_session_ptrcount'[handle[c]] = n
  BY <1>1
<1>3. ASSUME NEW d \in Clients, Open(d), d # c
      PROVE  m_session_ptrcount'[handle[d]] = m_session_ptrcount[handle[d]]
  <2>1. handle[d] # handle[c] /\ handle[d] \in Slots
    BY <1>3, HandleSlot DEF SessionsMatch
  <2> QED
    BY <1>1, <2>1
<1>4. SessionCounts'
  <2> SUFFICES ASSUME NEW d \in Clients, Open(d)'
               PROVE  m_session_ptrcount'[handle'[d]] = ro'[d] + (IF d \in rw' THEN 1 ELSE 0)
    BY DEF SessionCounts
  <2>1. Open(d)
    BY DEF Open
  <2>2. CASE d = c
    BY <1>2, <2>2
  <2>3. CASE d # c
    BY <1>3, <2>1, <2>3 DEF SessionCounts
  <2> QED
    BY <2>2, <2>3
<1> QED
  BY <1>2, <1>4

(* Nobody holds a pointer while neither flag is set. *)
LEMMA Unlocked ==
    ASSUME TensorInv, ~m_dataptr, ~m_const_dataptr
    PROVE  /\ rw = {} /\ ro = [c \in Clients |-> 0] /\ m_ptrcount = 0
           /\ Cardinality(PointersOf(ro)) = 0
<1> USE DEF TensorInv
<1>1. ro \in [Clients -> 0..MaxPtrs] /\ rw = {}
  BY DEF TypeOK, FlagInv
<1>2. \A c \in Clients : ro[c] = 0
  BY <1>1, SlotsAssumption DEF FlagInv
<1>3. Cardinality(PointersOf(ro)) = 0
  BY <1>1, <1>2, NoPointers
<1>4. m_ptrcount = 0
  BY <1>1, <1>3, FS_EmptySet DEF Total
<1> QED
  BY <1>1, <1>2, <1>3, <1>4

(* A writer is given the pointer when nobody has one.                      *)
LEMMA ReqWriteKeeps ==
    ASSUME TensorInv, NEW c \in Clients, ReqDataptr(c)
    PROVE  TensorInv'
<1> USE DEF TensorInv
<1>1. /\ Open(c) /\ ~m_dataptr /\ ~m_const_dataptr /\ m_dataptr' = TRUE
      /\ m_session_ptrcount' = [m_session_ptrcount EXCEPT ![handle[c]] = 1]
      /\ m_ptrcount' = 1 /\ rw' = rw \cup {c}
      /\ UNCHANGED <<m_const_dataptr, m_sessions, m_immutable, handle, ro>>
  BY DEF ReqDataptr, MayWrite
<1>2. rw = {} /\ ro = [d \in Clients |-> 0] /\ Cardinality(PointersOf(ro)) = 0
  BY <1>1, Unlocked
<1>3. rw' = {c}
  BY <1>1, <1>2
<1>4. /\ Slots' = Slots /\ SlotInv' /\ SessionsMatch'
      /\ \A d \in Clients : Open(d)' <=> Open(d)
  BY <1>1, TableKeeps
<1>5. 1 = ro'[c] + (IF c \in rw' THEN 1 ELSE 0)
  BY <1>1, <1>2, <1>3
<1>6. SessionCounts' /\ m_session_ptrcount' \in [Slots -> Nat]
  BY <1>1, <1>3, <1>2, <1>5, OneCount
<1>7. TypeOK'
  BY <1>1, <1>3, <1>4, <1>6 DEF TypeOK, Slots
<1>8. FlagInv'
  <2>1. \A d \in Clients : ~(ro'[d] > 0)
    BY <1>1, <1>2
  <2> QED
    BY <1>1, <1>3, <1>4, <2>1 DEF FlagInv
<1>9. Total'
  <2>1. PointersOf(ro)' = PointersOf(ro)
    BY <1>1 DEF PointersOf
  <2>2. Cardinality({c}) = 1
    BY FS_Singleton
  <2> QED
    BY <1>1, <1>2, <1>3, <2>1, <2>2 DEF Total
<1> QED
  BY <1>4, <1>6, <1>7, <1>8, <1>9

(* A writer returns the pointer.                                           *)
LEMMA RetWriteKeeps ==
    ASSUME TensorInv, NEW c \in Clients, RetDataptr(c)
    PROVE  TensorInv'
<1> USE DEF TensorInv
<1>1. /\ Open(c) /\ c \in rw /\ m_dataptr /\ m_dataptr' = FALSE
      /\ m_session_ptrcount' = [m_session_ptrcount EXCEPT ![handle[c]] = 0]
      /\ m_ptrcount' = 0 /\ rw' = rw \ {c}
      /\ UNCHANGED <<m_const_dataptr, m_sessions, m_immutable, handle, ro>>
  BY DEF RetDataptr
<1>2. rw' = {} /\ ~m_const_dataptr
  BY <1>1 DEF FlagInv
<1>3. ro \in [Clients -> 0..MaxPtrs] /\ \A d \in Clients : ro[d] = 0
  BY <1>2, SlotsAssumption DEF FlagInv, TypeOK
<1>4. /\ Slots' = Slots /\ SlotInv' /\ SessionsMatch'
      /\ \A d \in Clients : Open(d)' <=> Open(d)
  BY <1>1, TableKeeps
<1>5. 0 = ro'[c] + (IF c \in rw' THEN 1 ELSE 0)
  BY <1>1, <1>2, <1>3
<1>6. \A d \in rw : d = c
  BY <1>1 DEF FlagInv
<1>7. SessionCounts' /\ m_session_ptrcount' \in [Slots -> Nat]
  BY <1>1, <1>2, <1>5, <1>6, OneCount
<1>8. TypeOK'
  BY <1>1, <1>2, <1>4, <1>7 DEF TypeOK, Slots
<1>9. FlagInv'
  BY <1>1, <1>2, <1>4 DEF FlagInv
<1>10. Total'
  <2>1. Cardinality(PointersOf(ro)) = 0
    BY <1>3, NoPointers
  <2> QED
    BY <1>1, <1>2, <2>1, FS_EmptySet DEF Total
<1> QED
  BY <1>4, <1>7, <1>8, <1>9, <1>10

(* Readers share the tensor.                                               *)
LEMMA ReqReadKeeps ==
    ASSUME TensorInv, NEW c \in Clients, ReqConstDataptr(c)
    PROVE  TensorInv'
<1> USE DEF TensorInv
<1>1. /\ Open(c) /\ ~m_dataptr /\ ro[c] < MaxPtrs /\ m_const_dataptr' = TRUE
      /\ m_session_ptrcount' =
            [m_session_ptrcount EXCEPT ![handle[c]] = Raised(m_session_ptrcount[handle[c]])]
      /\ m_ptrcount' = Raised(m_ptrcount)
      /\ ro' = [ro EXCEPT ![c] = @ + 1]
      /\ UNCHANGED <<m_dataptr, m_sessions, m_immutable, handle, rw>>
  BY DEF ReqConstDataptr
<1>2. rw = {} /\ ro \in [Clients -> 0..MaxPtrs] /\ ro[c] \in Nat
  BY <1>1, SlotsAssumption DEF FlagInv, TypeOK
<1>3. m_session_ptrcount[handle[c]] = ro[c]
  BY <1>1, <1>2 DEF SessionCounts
<1>4. ~m_const_dataptr => ro[c] = 0 /\ m_ptrcount = 0
  BY <1>1, Unlocked
<1>5. Raised(m_session_ptrcount[handle[c]]) = ro[c] + 1 /\ Raised(m_ptrcount) = m_ptrcount + 1
  BY <1>3, <1>4 DEF Raised
<1>6. ro' \in [Clients -> 0..MaxPtrs] /\ ro'[c] = ro[c] + 1 /\ \A d \in Clients : d # c => ro'[d] = ro[d]
  BY <1>1, <1>2, SlotsAssumption
<1>7. /\ Slots' = Slots /\ SlotInv' /\ SessionsMatch'
      /\ \A d \in Clients : Open(d)' <=> Open(d)
  BY <1>1, TableKeeps
<1>8. ro[c] + 1 = ro'[c] + (IF c \in rw' THEN 1 ELSE 0)
  BY <1>1, <1>2, <1>6
<1>9. SessionCounts' /\ m_session_ptrcount' \in [Slots -> Nat]
  <2>1. m_session_ptrcount' = [m_session_ptrcount EXCEPT ![handle[c]] = ro[c] + 1]
    BY <1>1, <1>5
  <2> QED
    BY <1>1, <1>2, <1>6, <1>8, <2>1, OneCount, ro[c] + 1 \in Nat
<1>10. m_ptrcount' = m_ptrcount + 1 /\ m_ptrcount \in Nat
  BY <1>1, <1>5 DEF TypeOK
<1>11. TypeOK'
  BY <1>1, <1>6, <1>7, <1>9, <1>10 DEF TypeOK, Slots
<1>12. FlagInv'
  <2>1. ro'[c] > 0
    BY <1>2, <1>6
  <2>2. \A d \in Clients : ro'[d] > 0 => Open(d)'
    BY <1>1, <1>6, <1>7 DEF FlagInv
  <2> QED
    BY <1>1, <1>2, <2>1, <2>2 DEF FlagInv
<1>13. Total'
  <2>1. Cardinality(PointersOf(ro')) = Cardinality(PointersOf(ro)) + 1
    BY <1>1, <1>2, PointerMore
  <2>2. Cardinality(rw) = 0 /\ Cardinality(PointersOf(ro)) \in Nat
    BY <1>2, FS_EmptySet, PointersFinite
  <2>3. PointersOf(ro)' = PointersOf(ro')
    BY DEF PointersOf
  <2> QED
    BY <1>1, <1>10, <2>1, <2>2, <2>3 DEF Total
<1> QED
  BY <1>7, <1>9, <1>11, <1>12, <1>13

(* A reader returns one of its pointers.                                   *)
LEMMA RetReadKeeps ==
    ASSUME TensorInv, NEW c \in Clients, RetConstDataptr(c)
    PROVE  TensorInv'
<1> USE DEF TensorInv
<1> DEFINE less == IF m_session_ptrcount[handle[c]] > 0 THEN 1 ELSE 0
<1>1. /\ Open(c) /\ ro[c] > 0 /\ m_const_dataptr
      /\ m_session_ptrcount' = [m_session_ptrcount EXCEPT ![handle[c]] = @ - less]
      /\ m_ptrcount' = m_ptrcount - less
      /\ m_const_dataptr' = (m_ptrcount' # 0)
      /\ ro' = [ro EXCEPT ![c] = @ - 1]
      /\ UNCHANGED <<m_dataptr, m_sessions, m_immutable, handle, rw>>
  BY DEF RetConstDataptr
<1>2. ~m_dataptr /\ rw = {} /\ ro \in [Clients -> 0..MaxPtrs] /\ ro[c] \in Nat
  BY <1>1, SlotsAssumption DEF FlagInv, TypeOK
<1>3. m_session_ptrcount[handle[c]] = ro[c]
  BY <1>1, <1>2 DEF SessionCounts
<1>4. less = 1
  BY <1>1, <1>3
<1> HIDE DEF less
<1>5. ro' \in [Clients -> 0..MaxPtrs] /\ ro'[c] = ro[c] - 1 /\ \A d \in Clients : d # c => ro'[d] = ro[d]
  BY <1>1, <1>2, SlotsAssumption
<1>6. /\ Slots' = Slots /\ SlotInv' /\ SessionsMatch'
      /\ \A d \in Clients : Open(d)' <=> Open(d)
  BY <1>1, TableKeeps
<1>7. ro[c] - 1 \in Nat /\ ro[c] - 1 = ro'[c] + (IF c \in rw' THEN 1 ELSE 0)
  BY <1>1, <1>2, <1>5
<1>8. SessionCounts' /\ m_session_ptrcount' \in [Slots -> Nat]
  <2>1. m_session_ptrcount' = [m_session_ptrcount EXCEPT ![handle[c]] = ro[c] - 1]
    BY <1>1, <1>3, <1>4
  <2> QED
    BY <1>1, <1>2, <1>5, <1>7, <2>1, OneCount
<1>9. Total' /\ m_ptrcount' \in Nat /\ m_ptrcount' = Cardinality(PointersOf(ro'))
  <2>1. Cardinality(PointersOf(ro')) = Cardinality(PointersOf(ro)) - 1
    BY <1>1, <1>2, PointerLess
  <2>2. /\ Cardinality(rw) = 0 /\ Cardinality(PointersOf(ro)) \in Nat
        /\ Cardinality(PointersOf(ro')) \in Nat
    BY <1>2, FS_EmptySet, PointersFinite
  <2>3. PointersOf(ro)' = PointersOf(ro')
    BY DEF PointersOf
  <2> QED
    BY <1>1, <1>4, <2>1, <2>2, <2>3 DEF Total
<1>10. TypeOK'
  <2>1. m_const_dataptr' \in BOOLEAN
    BY <1>1
  <2> QED
    BY <1>1, <1>5, <1>6, <1>8, <1>9, <2>1 DEF TypeOK, Slots
<1>11. FlagInv'
  <2>1. m_const_dataptr' <=> \E d \in Clients : ro'[d] > 0
    BY <1>1, <1>5, <1>9, NoPointers
  <2>2. ASSUME NEW d \in Clients, ro'[d] > 0 PROVE Open(d)'
    BY <1>1, <1>5, <1>6, <2>2 DEF FlagInv
  <2> QED
    BY <1>1, <1>2, <2>1, <2>2 DEF FlagInv
<1> QED
  BY <1>6, <1>8, <1>9, <1>10, <1>11

(* A control is destroyed with the pointers it still holds. *)
LEMMA CloseKeeps ==
    ASSUME TensorInv, ~CloseDuringWrite, NEW c \in Clients, CloseSession(c)
    PROVE  TensorInv'
<1> USE DEF TensorInv
<1> DEFINE h == handle[c]
<1>1. /\ Open(c) /\ rw \subseteq {c}
      /\ m_sessions' = [m_sessions EXCEPT ![h] = FALSE]
      /\ GiveBackAll(h)
      /\ handle' = [handle EXCEPT ![c] = NoSession]
      /\ rw' = rw \ {c} /\ ro' = [ro EXCEPT ![c] = 0]
      /\ UNCHANGED m_immutable
  BY DEF CloseSession
<1>2. h \in Slots /\ m_sessions[h] /\ h # NoSession
  BY <1>1, HandleSlot, SlotNumbers
<1>3. /\ ro \in [Clients -> 0..MaxPtrs] /\ ro[c] \in Nat
      /\ m_session_ptrcount \in [Slots -> Nat]
  BY SlotsAssumption DEF TypeOK
<1>4. m_session_ptrcount[h] = ro[c] + (IF c \in rw THEN 1 ELSE 0)
  BY <1>1 DEF SessionCounts
<1> HIDE DEF h
<1>5. rw' = {} /\ ro' \in [Clients -> 0..MaxPtrs] /\ ro'[c] = 0
      /\ \A d \in Clients : d # c => ro'[d] = ro[d]
  BY <1>1, <1>3, SlotsAssumption
<1>6. Slots' = Slots /\ SlotInv'
  BY <1>1 DEF Slots, SlotInv
<1>7. \A d \in Clients : handle'[d] = IF d = c THEN NoSession ELSE handle[d]
  BY <1>1 DEF TypeOK
<1>8. \A d \in Clients : Open(d)' <=> Open(d) /\ d # c
  BY <1>7 DEF Open
<1>9. \A i \in Slots : m_sessions'[i] <=> m_sessions[i] /\ i # h
  BY <1>1 DEF TypeOK
<1>10. \A d \in Clients : Open(d) /\ d # c => handle[d] # h
  BY <1>1 DEF SessionsMatch, h
<1>11. SessionsMatch'
  <2>1. ASSUME NEW d \in Clients, NEW e \in Clients, Open(d)', handle'[d] = handle'[e]
        PROVE  d = e
    BY <1>7, <1>8, <2>1 DEF SessionsMatch, Open
  <2>2. ASSUME NEW d \in Clients, Open(d)'
        PROVE  handle'[d] \in Slots' /\ m_sessions'[handle'[d]]
    BY <1>6, <1>7, <1>8, <1>9, <1>10, <2>2, HandleSlot
  <2>3. ASSUME NEW i \in Slots', m_sessions'[i]
        PROVE  \E d \in Clients : Open(d)' /\ handle'[d] = i
    <3>1. i \in Slots /\ m_sessions[i] /\ i # h
      BY <1>6, <1>9, <2>3
    <3>2. i \in {handle[d] : d \in {d \in Clients : Open(d)}}
      BY <3>1 DEF SessionsMatch
    <3>3. PICK d \in Clients : Open(d) /\ handle[d] = i
      BY <3>2
    <3> QED
      BY <1>7, <1>8, <3>1, <3>3 DEF h
  <2>4. {handle'[d] : d \in {d \in Clients : Open(d)'}} = {i \in Slots' : m_sessions'[i]}
    BY <2>2, <2>3
  <2> QED
    BY <2>1, <2>4 DEF SessionsMatch
<1>12. /\ m_session_ptrcount' \in [Slots -> Nat]
       /\ \A i \in Slots : i # h => m_session_ptrcount'[i] = m_session_ptrcount[i]
  BY <1>1, <1>3 DEF GiveBackAll, tensor
<1>13. SessionCounts'
  <2> SUFFICES ASSUME NEW d \in Clients, Open(d)'
               PROVE  m_session_ptrcount'[handle'[d]] = ro'[d] + (IF d \in rw' THEN 1 ELSE 0)
    BY DEF SessionCounts
  <2>1. d # c /\ Open(d) /\ handle'[d] = handle[d] /\ handle[d] # h /\ handle[d] \in Slots
    BY <1>7, <1>8, <1>10, HandleSlot
  <2>2. d \notin rw /\ d \notin rw' /\ ro'[d] = ro[d]
    BY <1>1, <1>5, <2>1
  <2> QED
    BY <1>12, <2>1, <2>2 DEF SessionCounts
<1>14. Cardinality(PointersOf(ro')) = Cardinality(PointersOf(ro)) - ro[c]
  BY <1>1, <1>3, PointersCleared
<1>15. Cardinality(PointersOf(ro)) \in Nat /\ Cardinality(PointersOf(ro')) \in Nat
  BY PointersFinite
<1>16. Cardinality(rw') = 0 /\ PointersOf(ro)' = PointersOf(ro')
  BY <1>5, FS_EmptySet DEF PointersOf
<1>17. /\ m_ptrcount' = Cardinality(PointersOf(ro'))
       /\ m_dataptr' = FALSE
       /\ m_const_dataptr' = (m_ptrcount' # 0)
  <2>1. CASE m_const_dataptr
    <3>1. rw = {} /\ ~m_dataptr
      BY <2>1 DEF FlagInv
    <3>2. m_ptrcount = Cardinality(PointersOf(ro)) /\ m_session_ptrcount[h] = ro[c]
      BY <1>3, <1>4, <1>15, <3>1, FS_EmptySet DEF Total
    <3>3. /\ m_ptrcount' = m_ptrcount - m_session_ptrcount[h]
          /\ m_const_dataptr' = (m_ptrcount' # 0) /\ UNCHANGED m_dataptr
      BY <1>1, <2>1 DEF GiveBackAll
    <3>4. m_dataptr = FALSE
      BY <3>1 DEF TypeOK
    <3>5. m_ptrcount' = Cardinality(PointersOf(ro'))
      BY <1>14, <3>2, <3>3
    <3> QED
      BY <3>3, <3>4, <3>5
  <2>2. CASE ~m_const_dataptr
    <3>1. \A d \in Clients : ro[d] = 0 /\ ro'[d] = 0
      BY <1>3, <1>5, <2>2, SlotsAssumption DEF FlagInv
    <3>2. Cardinality(PointersOf(ro')) = 0 /\ Cardinality(PointersOf(ro)) = 0
      BY <1>3, <1>5, <3>1, NoPointers
    <3>3. CASE m_dataptr
      <4>1. m_const_dataptr = FALSE
        BY <2>2 DEF TypeOK
      <4>2. m_ptrcount' = 0 /\ m_dataptr' = FALSE /\ m_const_dataptr' = FALSE
        BY <1>1, <2>2, <3>3, <4>1 DEF GiveBackAll
      <4> QED
        BY <3>2, <4>2
    <3>4. CASE ~m_dataptr
      <4>1. m_ptrcount = 0
        BY <2>2, <3>4, Unlocked
      <4>2. UNCHANGED <<m_dataptr, m_const_dataptr, m_ptrcount>>
        BY <1>1, <2>2, <3>4 DEF GiveBackAll, tensor
      <4> QED
        BY <2>2, <3>2, <3>4, <4>1, <4>2 DEF TypeOK
    <3> QED
      BY <3>3, <3>4
  <2> QED
    BY <2>1, <2>2
<1>18. FlagInv'
  <2>1. m_const_dataptr' <=> \E d \in Clients : ro'[d] > 0
    BY <1>5, <1>17, NoPointers
  <2>2. ASSUME NEW d \in Clients, ro'[d] > 0 PROVE Open(d)'
    BY <1>5, <1>8, <2>2 DEF FlagInv
  <2> QED
    BY <1>5, <1>17, <2>1, <2>2 DEF FlagInv
<1>19. Total'
  BY <1>15, <1>16, <1>17 DEF Total
<1>20. TypeOK'
  <2>1. m_const_dataptr' \in BOOLEAN /\ m_dataptr' \in BOOLEAN /\ m_ptrcount' \in Nat
    BY <1>15, <1>17
  <2>2. m_sessions' \in [Slots' -> BOOLEAN]
    BY <1>1, <1>6 DEF TypeOK
  <2>3. handle' \in [Clients -> Slots' \cup {NoSession}]
    BY <1>1, <1>6 DEF TypeOK
  <2> QED
    BY <1>1, <1>5, <1>6, <1>12, <2>1, <2>2, <2>3 DEF TypeOK
<1> QED
  BY <1>6, <1>11, <1>13, <1>18, <1>19, <1>20

(* set_immutable touches no session.                                       *)
LEMMA StillKeeps == TensorInv /\ (SetImmutable \/ UNCHANGED vars) => TensorInv'
<1> SUFFICES ASSUME TensorInv, SetImmutable \/ UNCHANGED vars PROVE TensorInv'
  OBVIOUS
<1> USE DEF TensorInv
<1>1. /\ UNCHANGED <<m_dataptr, m_const_dataptr, m_ptrcount, m_session_ptrcount, m_sessions, handle, rw, ro>>
      /\ m_immutable' \in BOOLEAN
  BY DEF SetImmutable, vars, tensor, held, TypeOK
<1>2. /\ Slots' = Slots /\ SlotInv' /\ SessionsMatch'
      /\ \A c \in Clients : Open(c)' <=> Open(c)
  BY <1>1, TableKeeps
<1>3. TypeOK' /\ FlagInv' /\ SessionCounts'
  BY <1>1, <1>2 DEF TypeOK, FlagInv, SessionCounts, Slots
<1>4. PointersOf(ro)' = PointersOf(ro)
  BY <1>1 DEF PointersOf
<1>5. Total'
  BY <1>1, <1>4 DEF Total
<1> QED
  BY <1>2, <1>3, <1>5

(* Every step keeps the invariant, where no session is closed while it     *)
(* writes.                                                                 *)
LEMMA TensorNext ==
    ASSUME ~CloseDuringWrite, TensorInv, [Next]_vars
    PROVE  TensorInv'
BY OpenKeeps, CloseKeeps, ReqWriteKeeps, RetWriteKeeps, ReqReadKeeps, RetReadKeeps, StillKeeps DEF Next

(* The invariant holds in every reachable state, where no session is       *)
(* closed while it writes.                                                 *)
LEMMA TensorInvariance ==
    ASSUME ~CloseDuringWrite
    PROVE  Spec => []TensorInv
<1>1. TensorInv /\ [Next]_vars => TensorInv'
  BY TensorNext
<1> QED
  BY TensorInit, <1>1, PTL DEF Spec

-----------------------------------------------------------------------------
(* A pointer that a control holds is one the tensor knows to be out,       *)
(* whatever other controls request, return or leave behind when they are   *)
(* destroyed.                                                              *)
THEOREM HeldPointersValid ==
    ASSUME ~CloseDuringWrite
    PROVE  Spec => []PointersValid
<1>1. TensorInv => PointersValid
  BY DEF TensorInv, FlagInv, PointersValid
<1> QED
  BY <1>1, TensorInvariance, PTL

(* The counts of the sessions and of the tensor are those of the pointers  *)
(* held, and the table of sessions is that of the open controls, however   *)
(* often it has grown.                                                     *)
THEOREM CountsAreExact ==
    ASSUME ~CloseDuringWrite
    PROVE  Spec => []CountsMatch
<1>1. TensorInv => CountsMatch
  <2> SUFFICES ASSUME TensorInv PROVE CountsMatch
    OBVIOUS
  <2> USE DEF TensorInv
  <2>1. ro \in [Clients -> 0..MaxPtrs]
    BY DEF TypeOK
  <2>2. (m_ptrcount # 0) <=> (m_dataptr \/ m_const_dataptr)
    <3>1. Cardinality(PointersOf(ro)) \in Nat /\ (Cardinality(PointersOf(ro)) = 0 <=> ~m_const_dataptr)
      BY <2>1, PointersFinite, NoPointers DEF FlagInv
    <3>2. IsFiniteSet(rw)
      BY ClientsAssumption, FS_Subset DEF TypeOK
    <3>3. Cardinality(rw) \in Nat /\ (Cardinality(rw) = 0 <=> ~m_dataptr)
      BY <3>2, FS_CardinalityType, FS_EmptySet DEF FlagInv
    <3> QED
      BY <3>1, <3>3 DEF Total
  <2> QED
    BY <2>2 DEF CountsMatch, SessionCounts, Total
<1> QED
  BY <1>1, TensorInvariance, PTL

-----------------------------------------------------------------------------
(* The refinement: every step of the tensor is a step of shared readers    *)
(* and one writer, or none.                                                *)

(* At first nobody has a pointer.                                          *)
LEMMA RefineInit == Init => Shared!Init
BY DEF Init, Shared!Init, Shared!NoReaders

(* A step gives or returns pointers as the abstract sharing allows, or     *)
(* stutters.                                                               *)
LEMMA RefineStep ==
    ASSUME TensorInv, ~CloseDuringWrite, [Next]_vars
    PROVE  [Shared!Next]_<<rw, ro>>
<1> USE DEF TensorInv
<1>1. ro \in [Clients -> 0..MaxPtrs] /\ \A c \in Clients : ro[c] \in Nat
  BY SlotsAssumption DEF TypeOK
<1>2. ASSUME NEW c \in Clients, OpenSession(c) PROVE UNCHANGED <<rw, ro>>
  BY <1>2 DEF OpenSession, held
<1>3. ASSUME NEW c \in Clients, CloseSession(c) PROVE [Shared!Next]_<<rw, ro>>
  <2>1. rw' = rw \ {c} /\ ro' = [ro EXCEPT ![c] = 0]
    BY <1>3 DEF CloseSession
  <2>2. CASE c \in rw
    <3>1. ro[c] = 0
      BY <1>1, <2>2 DEF FlagInv
    <3>2. ro' = ro
      BY <1>1, <2>1, <3>1
    <3>3. Shared!GiveWrite(c)
      BY <2>1, <2>2, <3>2 DEF Shared!GiveWrite
    <3> QED
      BY <3>3 DEF Shared!Next
  <2>3. CASE c \notin rw /\ ro[c] > 0
    <3>1. 0 \in 0..(ro[c] - 1) /\ rw' = rw
      BY <1>1, <2>1, <2>3
    <3>2. Shared!GiveRead(c)
      BY <2>1, <2>3, <3>1 DEF Shared!GiveRead
    <3> QED
      BY <3>2 DEF Shared!Next
  <2>4. CASE c \notin rw /\ ~(ro[c] > 0)
    <3>1. ro[c] = 0
      BY <1>1, <2>4
    <3>2. UNCHANGED <<rw, ro>>
      BY <1>1, <2>1, <2>4, <3>1
    <3> QED
      BY <3>2
  <2> QED
    BY <2>2, <2>3, <2>4
<1>4. ASSUME NEW c \in Clients, ReqDataptr(c) PROVE Shared!Next
  <2>1. ~m_dataptr /\ ~m_const_dataptr /\ rw' = rw \cup {c} /\ ro' = ro
    BY <1>4 DEF ReqDataptr, MayWrite
  <2>2. rw = {} /\ ro = [d \in Clients |-> 0]
    BY <2>1, Unlocked
  <2>3. Shared!TakeWrite(c)
    BY <2>1, <2>2 DEF Shared!TakeWrite, Shared!NoReaders
  <2> QED
    BY <2>3 DEF Shared!Next
<1>5. ASSUME NEW c \in Clients, RetDataptr(c) PROVE Shared!Next
  <2>1. Shared!GiveWrite(c)
    BY <1>5 DEF RetDataptr, Shared!GiveWrite
  <2> QED
    BY <2>1 DEF Shared!Next
<1>6. ASSUME NEW c \in Clients, ReqConstDataptr(c) PROVE Shared!Next
  <2>1. rw = {}
    BY <1>6 DEF ReqConstDataptr, FlagInv
  <2>2. Shared!TakeRead(c)
    BY <1>6, <2>1 DEF ReqConstDataptr, Shared!TakeRead
  <2> QED
    BY <2>2 DEF Shared!Next
<1>7. ASSUME NEW c \in Clients, RetConstDataptr(c) PROVE Shared!Next
  <2>1. ro[c] > 0 /\ ro' = [ro EXCEPT ![c] = ro[c] - 1] /\ rw' = rw
    BY <1>7 DEF RetConstDataptr
  <2>2. ro[c] - 1 \in 0..(ro[c] - 1)
    BY <1>1, <2>1
  <2>3. Shared!GiveRead(c)
    BY <2>1, <2>2 DEF Shared!GiveRead
  <2> QED
    BY <2>3 DEF Shared!Next
<1>8. CASE SetImmutable \/ UNCHANGED vars
  BY <1>8 DEF SetImmutable, vars, held
<1> QED
  BY <1>2, <1>3, <1>4, <1>5, <1>6, <1>7, <1>8 DEF Next

(* The tensor with its flags, counts and table of sessions gives what      *)
(* SharedData promises: one user that may write, or any number that read.  *)
THEOREM Implements ==
    ASSUME ~CloseDuringWrite
    PROVE  Spec => SharedSpec
<1>1. TensorInv /\ [Next]_vars => [Shared!Next]_<<rw, ro>>
  BY RefineStep
<1> QED
  BY TensorInvariance, RefineInit, <1>1, PTL DEF Spec, SharedSpec, Shared!Spec

-----------------------------------------------------------------------------
(* The page file of libxm, for any sizes of page groups, bytes and handles *)
(* and any sequence of requests: until an extension fails no page is       *)
(* shared or lost, as long as the offsets in the file fit in a handle.     *)

(* A handle names a run of pages within the file. *)
Names(p, s, n) == p = make_data_ptr(s, n) /\ s + n <= filePages
HandleInv == \A p \in blocks : \E s \in Nat : \E n \in 1..(SizeLimit - 1) : Names(p, s, n)

(* The bitmap is never larger than the file; it has a bit for each page    *)
(* until an extension fails.                                               *)
BytesInv == /\ bytes <= BytesFor(filePages)
            /\ state = "up" /\ fails = 0 => bytes = BytesFor(filePages)

PagesInv == PagesExact /\ HandleInv /\ BytesInv

-----------------------------------------------------------------------------
(* Operators *)

(* Multiplication is monotonic.                                            *)
LEMMA Products ==
    ASSUME NEW a \in Nat, NEW q \in Nat, NEW n \in Nat, q < n
    PROVE  a * q + a <= a * n
<1>1. PICK d \in Nat : n = q + 1 + d
  <2>1. n - q - 1 \in Nat /\ n = q + 1 + (n - q - 1)
    OBVIOUS
  <2> QED
    BY <2>1
<1>2. a * n = a * q + a + a * d /\ a * d \in Nat
  BY <1>1
<1> QED
  BY <1>2

(* What make_data_ptr packs, get_block_offset and get_block_npages unpack. *)
LEMMA Unpack ==
    ASSUME NEW s \in 0..(OffLimit - 1), NEW n \in Nat
    PROVE  /\ make_data_ptr(s, n) \in Nat
           /\ get_block_offset(make_data_ptr(s, n)) = s
           /\ get_block_npages(make_data_ptr(s, n)) = n
<1> DEFINE x == s + n * OffLimit
<1> DEFINE q == x \div OffLimit
<1> DEFINE r == x % OffLimit
<1>0. OffLimit \in Nat \ {0}
  BY SizeAssumption
<1>1. x \in Nat
  BY <1>0
<1>2. q \in Nat /\ r \in 0..(OffLimit - 1) /\ x = OffLimit * q + r
  BY <1>0, <1>1
<1>3. ~(q < n)
  BY <1>0, <1>2, Products
<1>4. ~(n < q)
  BY <1>0, <1>2, Products
<1> QED
  BY <1>0, <1>1, <1>2, <1>3, <1>4 DEF make_data_ptr, get_block_offset, get_block_npages

(* The bitmap has room for the pages.                                      *)
LEMMA EnoughBytes ==
    ASSUME NEW n \in Nat
    PROVE  BytesFor(n) \in Nat /\ n <= BytesFor(n) * ByteBits
<1> DEFINE q == n \div ByteBits
<1> DEFINE r == n % ByteBits
<1>0. ByteBits \in Nat \ {0}
  BY SizeAssumption
<1>1. q \in Nat /\ r \in 0..(ByteBits - 1) /\ n = ByteBits * q + r
  BY <1>0
<1>2. (q + 1) * ByteBits = ByteBits * q + ByteBits /\ q * ByteBits = ByteBits * q
  BY <1>0, <1>1
<1>3. BytesFor(n) = q + (IF r = 0 THEN 0 ELSE 1)
  BY DEF BytesFor
<1> HIDE DEF q, r
<1> QED
  BY <1>0, <1>1, <1>2, <1>3

(* It does not shrink when the file grows.                                 *)
LEMMA BytesGrow ==
    ASSUME NEW n \in Nat, NEW m \in Nat, n <= m
    PROVE  BytesFor(n) <= BytesFor(m)
<1> DEFINE q == n \div ByteBits
<1> DEFINE r == n % ByteBits
<1> DEFINE q2 == m \div ByteBits
<1> DEFINE r2 == m % ByteBits
<1>0. ByteBits \in Nat \ {0}
  BY SizeAssumption
<1>1. q \in Nat /\ r \in 0..(ByteBits - 1) /\ n = ByteBits * q + r
  BY <1>0
<1>2. q2 \in Nat /\ r2 \in 0..(ByteBits - 1) /\ m = ByteBits * q2 + r2
  BY <1>0
<1>3. ~(q2 < q)
  BY <1>0, <1>1, <1>2, Products
<1>4. q = q2 => r <= r2
  BY <1>0, <1>1, <1>2
<1>5. /\ BytesFor(n) = q + (IF r = 0 THEN 0 ELSE 1)
      /\ BytesFor(m) = q2 + (IF r2 = 0 THEN 0 ELSE 1)
  BY DEF BytesFor
<1> HIDE DEF q, r, q2, r2
<1> QED
  BY <1>1, <1>2, <1>3, <1>4, <1>5

(* A longer bitmap has all bits of a shorter one.                          *)
LEMMA BitsGrow ==
    ASSUME NEW a \in Nat, NEW b \in Nat, a <= b
    PROVE  Bits(0, a) \subseteq Bits(0, b)
<1>0. ByteBits \in Nat \ {0}
  BY SizeAssumption
<1>1. a * ByteBits \in Nat /\ b * ByteBits \in Nat /\ a * ByteBits <= b * ByteBits
  <2>1. CASE a = b
    BY <1>0, <2>1
  <2>2. CASE a < b
    BY <1>0, <2>2, Products
  <2> QED
    BY <2>1, <2>2
<1> QED
  BY <1>0, <1>1 DEF Bits

(* The pages of a handle are those it names, and have bits while the       *)
(* bitmap matches the file.                                                *)
LEMMA HandlePages ==
    ASSUME AllocatorTypeOK, OffsetsFit, NEW p, NEW s \in Nat, NEW n \in 1..(SizeLimit - 1),
           Names(p, s, n)
    PROVE  get_block_npages(p) = n /\ PagesOf(p) = Run(s, n) /\ Run(s, n) \subseteq 0..(filePages - 1)
<1>1. OffLimit \in Nat /\ SizeLimit \in Nat /\ filePages \in Nat /\ filePages <= OffLimit
  BY SizeAssumption DEF AllocatorTypeOK, OffsetsFit
<1>2. s \in 0..(OffLimit - 1) /\ n \in Nat
  BY <1>1 DEF Names
<1>3. p = make_data_ptr(s, n) /\ s + n <= filePages
  BY DEF Names
<1>4. get_block_npages(p) = n /\ get_block_offset(p) = s
  BY <1>2, <1>3, Unpack
<1> QED
  BY <1>1, <1>2, <1>3, <1>4 DEF PagesOf, Run

-----------------------------------------------------------------------------
(* The invariant *)

(* The new file has one page, which is free.                               *)
LEMMA PagesInit == AllocatorInit => PagesInv
<1> SUFFICES ASSUME AllocatorInit PROVE PagesInv
  OBVIOUS
<1> USE DEF AllocatorInit
<1>1. ByteBits \in Nat \ {0} /\ MaxLive \in Nat /\ MaxFails \in Nat
  BY SizeAssumption, BoundAssumption
<1>2. BytesFor(1) = 1
  <2>1. CASE ByteBits = 1
    BY <2>1 DEF BytesFor
  <2>2. CASE ByteBits > 1
    <3>1. 1 \div ByteBits = 0 /\ 1 % ByteBits = 1
      <4>1. 0 < ByteBits /\ 1 \in 0..(ByteBits - 1)
        BY <1>1, <2>2
      <4> DEFINE q == 1 \div ByteBits
      <4> DEFINE r == 1 % ByteBits
      <4>2. q \in Nat /\ r \in 0..(ByteBits - 1) /\ 1 = ByteBits * q + r
        BY <1>1
      <4>3. ~(0 < q)
        BY <1>1, <2>2, <4>2, Products
      <4> HIDE DEF q, r
      <4>4. q = 0 /\ ByteBits * q = 0
        BY <1>1, <4>2, <4>3
      <4>5. r = 1
        BY <4>2, <4>4
      <4> QED
        BY <4>4, <4>5 DEF q, r
    <3> QED
      BY <3>1 DEF BytesFor
  <2> QED
    BY <1>1, <2>1, <2>2
<1>3. AllocatorTypeOK
  BY <1>1 DEF AllocatorTypeOK
<1> QED
  BY <1>2, <1>3 DEF PagesInv, PagesExact, BlocksDisjoint, BitmapExact, HandleInv, BytesInv

(* The run that is found: free, within the file, with a bit for each page. *)
LEMMA FoundRun ==
    ASSUME PagesInv, OffsetsFit, Found
    PROVE  \E s \in Nat :
              /\ want \in Nat \ {0} /\ s + want <= filePages
              /\ used' = used \cup (Run(s, want) \cap Bits(0, bytes))
              /\ IF TooLarge(want)
                 THEN state' = "exited" /\ blocks' = blocks
                 ELSE blocks' = blocks \cup {make_data_ptr(s, want)} /\ state' = state
              /\ Run(s, want) \cap used = {}
              /\ fails = 0 => Run(s, want) \subseteq Bits(0, bytes)
<1>1. PICK set \in Scanned :
        /\ Searching /\ Ends(set, want) # {}
        /\ LET start == Min(Ends(set, want)) + 1 - want
           IN  /\ used' = used \cup (Run(start, want) \cap Bits(0, bytes))
               /\ IF TooLarge(want)
                  THEN state' = "exited" /\ UNCHANGED blocks
                  ELSE blocks' = blocks \cup {make_data_ptr(start, want)} /\ UNCHANGED state
  BY DEF Found
<1>2. filePages \in Nat \ {0} /\ bytes \in Nat /\ want \in 0..MaxLive /\ want # 0 /\ MaxLive \in Nat
  BY <1>1, BoundAssumption DEF PagesInv, PagesExact, AllocatorTypeOK, Searching
<1>3. Ends(set, want) \in SUBSET Nat
  BY <1>2 DEF Ends
<1> DEFINE i == Min(Ends(set, want))
<1> DEFINE s == i + 1 - want
<1>4. i \in Ends(set, want)
  BY <1>1, <1>3, MinOfNaturals
<1>5. i \in 0..(filePages - 1) /\ want <= i + 1 /\ Run(s, want) \cap set = {}
  BY <1>4 DEF Ends
<1>6. used \subseteq set
  BY DEF Scanned
<1>7. ASSUME fails = 0 PROVE Run(s, want) \subseteq Bits(0, bytes)
  <2>1. bytes = BytesFor(filePages)
    BY <1>1, <1>7 DEF PagesInv, BytesInv, Searching
  <2>2. filePages <= bytes * ByteBits
    BY <1>2, <2>1, EnoughBytes
  <2>3. bytes * ByteBits \in Nat /\ 0 * ByteBits = 0
    BY <1>2, SizeAssumption
  <2> QED
    BY <1>2, <1>5, <2>2, <2>3 DEF Run, Bits
<1>8. s \in Nat /\ s + want <= filePages
  BY <1>2, <1>5
<1> HIDE DEF i
<1> QED
  BY <1>1, <1>2, <1>5, <1>6, <1>7, <1>8 DEF i

(* It gets an owner, or the process ends.                                  *)
LEMMA FoundInv ==
    ASSUME PagesInv, OffsetsFit, Found
    PROVE  PagesInv'
<1>1. PICK s \in Nat :
              /\ want \in Nat \ {0} /\ s + want <= filePages
              /\ used' = used \cup (Run(s, want) \cap Bits(0, bytes))
              /\ IF TooLarge(want)
                 THEN state' = "exited" /\ blocks' = blocks
                 ELSE blocks' = blocks \cup {make_data_ptr(s, want)} /\ state' = state
              /\ Run(s, want) \cap used = {}
              /\ fails = 0 => Run(s, want) \subseteq Bits(0, bytes)
  BY FoundRun
<1>2. state = "up" /\ want' = 0 /\ UNCHANGED <<filePages, realPages, bytes, fails>>
  BY DEF Found, Searching
<1>3. AllocatorTypeOK /\ MaxLive \in Nat /\ SizeLimit \in Nat
  BY BoundAssumption, SizeAssumption DEF PagesInv, PagesExact
<1>4. BytesInv'
  BY <1>2 DEF PagesInv, BytesInv
<1>5. /\ filePages' \in Nat \ {0} /\ realPages' \in Nat /\ bytes' \in Nat
      /\ used' \subseteq Bits(0, bytes)'
      /\ want' \in 0..MaxLive /\ fails' \in 0..MaxFails
      /\ state' \in {"up", "exited", "crashed", "gone"}
  <2>1. used' \subseteq Bits(0, bytes)'
    <3>1. used \subseteq Bits(0, bytes) /\ Bits(0, bytes)' = Bits(0, bytes)
      BY <1>2, <1>3 DEF AllocatorTypeOK, Bits
    <3> QED
      BY <1>1, <3>1
  <2>2. state' \in {"up", "exited"}
    BY <1>1, <1>2
  <2> QED
    BY <1>2, <1>3, <2>1, <2>2 DEF AllocatorTypeOK
<1>6. CASE TooLarge(want)
  <2>1. blocks' = blocks /\ state' = "exited"
    BY <1>1, <1>6
  <2>2. HandleInv' /\ BlocksDisjoint' /\ BitmapExact'
    BY <1>2, <2>1 DEF PagesInv, PagesExact, HandleInv, Names, BlocksDisjoint, BitmapExact
  <2>3. AllocatorTypeOK'
    BY <1>3, <1>5, <2>1 DEF AllocatorTypeOK
  <2> QED
    BY <1>4, <2>2, <2>3 DEF PagesInv, PagesExact
<1>7. CASE ~TooLarge(want)
  <2> DEFINE ptr == make_data_ptr(s, want)
  <2>1. blocks' = blocks \cup {ptr} /\ state' = state
    BY <1>1, <1>7
  <2>2. want \in 1..(SizeLimit - 1)
    BY <1>1, <1>3, <1>7 DEF TooLarge
  <2>3. Names(ptr, s, want)
    BY <1>1 DEF Names
  <2>4. get_block_npages(ptr) = want /\ PagesOf(ptr) = Run(s, want)
    BY <1>3, <2>2, <2>3, HandlePages
  <2>5. AllocatorTypeOK'
    BY <1>3, <1>5, <2>1, <2>2, <2>4 DEF AllocatorTypeOK
  <2>6. HandleInv'
    BY <1>2, <2>1, <2>2, <2>3 DEF PagesInv, HandleInv, Names
  <2>7. BlocksDisjoint' /\ BitmapExact'
    <3>1. CASE fails = 0
      <4>1. used = UNION {PagesOf(p) : p \in blocks}
        BY <1>2, <3>1 DEF PagesInv, PagesExact, BitmapExact
      <4>2. PagesOf(ptr) \cap used = {} /\ used' = used \cup PagesOf(ptr)
        BY <1>1, <2>4, <3>1
      <4>3. \A p \in blocks : PagesOf(p) \cap PagesOf(ptr) = {}
        BY <4>1, <4>2
      <4>4. \A p, q \in blocks : p # q => PagesOf(p) \cap PagesOf(q) = {}
        BY <3>1 DEF PagesInv, PagesExact, BlocksDisjoint
      <4> HIDE DEF ptr
      <4> QED
        BY <2>1, <4>1, <4>2, <4>3, <4>4 DEF BlocksDisjoint, BitmapExact
    <3> QED
      BY <1>2, <3>1 DEF BlocksDisjoint, BitmapExact
  <2> QED
    BY <1>4, <2>5, <2>6, <2>7 DEF PagesInv, PagesExact
<1> QED
  BY <1>6, <1>7

(* New pages come with new bits, and those are cleared.                    *)
LEMMA GrownPages ==
    ASSUME PagesInv
    PROVE  /\ Grown(filePages) \in Nat \ {0} /\ filePages <= Grown(filePages)
           /\ BytesFor(filePages) \in Nat /\ BytesFor(Grown(filePages)) \in Nat
           /\ BytesFor(filePages) <= BytesFor(Grown(filePages))
<1>1. filePages \in Nat \ {0} /\ GrowPages \in Nat \ {0}
  BY SizeAssumption DEF PagesInv, PagesExact, AllocatorTypeOK
<1>2. Grown(filePages) \in Nat \ {0} /\ filePages <= Grown(filePages)
  BY <1>1 DEF Grown
<1> QED
  BY <1>1, <1>2, EnoughBytes, BytesGrow

(* The pages that the file grows by are free.                              *)
LEMMA ExtendInv ==
    ASSUME PagesInv, Extend
    PROVE  PagesInv'
<1> DEFINE g == Grown(filePages)
<1>1. /\ state = "up" /\ filePages' = g /\ realPages' = g /\ bytes' = BytesFor(g)
      /\ UNCHANGED <<want, blocks, fails, state>>
  BY DEF Extend, NeedsMore, Searching
<1>2. PICK junk \in SUBSET Bits(bytes, BytesFor(filePages)) : used' = used \cup junk
  BY DEF Extend, ClearFrom
<1>3. /\ AllocatorTypeOK /\ bytes \in Nat /\ filePages \in Nat
      /\ bytes <= BytesFor(filePages)
      /\ fails = 0 => bytes = BytesFor(filePages)
  BY <1>1 DEF PagesInv, PagesExact, BytesInv, AllocatorTypeOK
<1>4. /\ g \in Nat \ {0} /\ filePages <= g /\ BytesFor(filePages) \in Nat /\ BytesFor(g) \in Nat
      /\ BytesFor(filePages) <= BytesFor(g)
  BY GrownPages
<1> HIDE DEF g
<1>5. used' \subseteq Bits(0, bytes')
  <2>1. Bits(0, bytes) \subseteq Bits(0, bytes')
    BY <1>1, <1>3, <1>4, BitsGrow
  <2>2. Bits(0, BytesFor(filePages)) \subseteq Bits(0, bytes')
    BY <1>1, <1>3, <1>4, BitsGrow
  <2>3. Bits(bytes, BytesFor(filePages)) \subseteq Bits(0, BytesFor(filePages))
    <3>1. bytes * ByteBits \in Nat /\ 0 * ByteBits = 0 /\ BytesFor(filePages) * ByteBits \in Nat
      BY <1>3, <1>4, SizeAssumption
    <3> QED
      BY <3>1 DEF Bits
  <2>4. used \subseteq Bits(0, bytes)
    BY <1>3 DEF AllocatorTypeOK
  <2> QED
    BY <1>2, <2>1, <2>2, <2>3, <2>4
<1>6. AllocatorTypeOK'
  BY <1>1, <1>3, <1>4, <1>5 DEF AllocatorTypeOK, Bits
<1>7. fails = 0 => used' = used
  <2>1. SUFFICES ASSUME fails = 0 PROVE Bits(bytes, BytesFor(filePages)) = {}
    BY <1>2
  <2>2. bytes * ByteBits \in Nat /\ BytesFor(filePages) * ByteBits = bytes * ByteBits
    BY <1>3, <2>1, SizeAssumption
  <2> QED
    BY <2>2 DEF Bits
<1>8. BlocksDisjoint' /\ BitmapExact'
  BY <1>1, <1>7 DEF PagesInv, PagesExact, BlocksDisjoint, BitmapExact
<1>9. HandleInv'
  BY <1>1, <1>3, <1>4, SizeAssumption DEF PagesInv, HandleInv, Names
<1>10. BytesInv'
  BY <1>1, <1>4 DEF BytesInv
<1> QED
  BY <1>6, <1>8, <1>9, <1>10 DEF PagesInv, PagesExact

(* After a failure only the types and the handles matter.                  *)
LEMMA ExtendFailsInv ==
    ASSUME PagesInv, ExtendFails
    PROVE  PagesInv'
<1> DEFINE g == Grown(filePages)
<1>1. /\ filePages' = g /\ fails' = fails + 1 /\ fails < MaxFails /\ want' = 0
      /\ UNCHANGED <<blocks, state>>
      /\ \/ UNCHANGED <<realPages, bytes, used>>
         \/ realPages' = g /\ bytes' = 0 /\ used' = {}
  BY DEF ExtendFails, NoBitmap
<1>2. /\ AllocatorTypeOK /\ bytes \in Nat /\ filePages \in Nat /\ fails \in 0..MaxFails
      /\ bytes <= BytesFor(filePages) /\ MaxLive \in Nat /\ MaxFails \in Nat
  BY BoundAssumption DEF PagesInv, PagesExact, BytesInv, AllocatorTypeOK
<1>3. /\ g \in Nat \ {0} /\ filePages <= g /\ BytesFor(filePages) \in Nat /\ BytesFor(g) \in Nat
      /\ BytesFor(filePages) <= BytesFor(g)
  BY GrownPages
<1> HIDE DEF g
<1>4. fails' \in 1..MaxFails
  BY <1>1, <1>2
<1>5. AllocatorTypeOK'
  <2>1. used' \subseteq Bits(0, bytes)' /\ bytes' \in Nat /\ realPages' \in Nat
    <3>1. CASE UNCHANGED <<realPages, bytes, used>>
      BY <1>2, <3>1 DEF AllocatorTypeOK, Bits
    <3>2. CASE realPages' = g /\ bytes' = 0 /\ used' = {}
      BY <1>3, <3>2
    <3> QED
      BY <1>1, <3>1, <3>2
  <2>2. \A p \in blocks' : get_block_npages(p) \in 1..(SizeLimit - 1)
    BY <1>1, <1>2 DEF AllocatorTypeOK
  <2>3. filePages' \in Nat \ {0} /\ want' \in 0..MaxLive /\ fails' \in 0..MaxFails
    BY <1>1, <1>2, <1>3, <1>4
  <2>4. state' \in {"up", "exited", "crashed", "gone"}
    BY <1>1, <1>2 DEF AllocatorTypeOK
  <2> QED
    BY <2>1, <2>2, <2>3, <2>4 DEF AllocatorTypeOK
<1>6. BlocksDisjoint' /\ BitmapExact'
  BY <1>4 DEF BlocksDisjoint, BitmapExact
<1>7. HandleInv'
  BY <1>1, <1>2, <1>3, SizeAssumption DEF PagesInv, HandleInv, Names
<1>8. BytesInv'
  BY <1>1, <1>2, <1>3, <1>4 DEF BytesInv
<1> QED
  BY <1>5, <1>6, <1>7, <1>8 DEF PagesInv, PagesExact

(* The pages of a handle are its own, so that freeing it frees no other.   *)
LEMMA DeallocateInv ==
    ASSUME PagesInv, NEW ptr \in blocks, Deallocate(ptr)
    PROVE  PagesInv'
<1>1. /\ state = "up" /\ used' = used \ PagesOf(ptr) /\ blocks' = blocks \ {ptr}
      /\ UNCHANGED <<filePages, realPages, bytes, want, fails, state>>
  BY DEF Deallocate, Idle
<1>2. AllocatorTypeOK'
  BY <1>1 DEF PagesInv, PagesExact, AllocatorTypeOK, Bits
<1>3. HandleInv' /\ BytesInv'
  BY <1>1 DEF PagesInv, HandleInv, Names, BytesInv
<1>4. BlocksDisjoint'
  BY <1>1 DEF PagesInv, PagesExact, BlocksDisjoint
<1>5. BitmapExact'
  <2>1. SUFFICES ASSUME fails = 0 PROVE used' = UNION {PagesOf(p) : p \in blocks'}
    BY <1>1 DEF BitmapExact
  <2>2. used = UNION {PagesOf(p) : p \in blocks}
    BY <1>1, <2>1 DEF PagesInv, PagesExact, BitmapExact
  <2>3. \A p \in blocks : p # ptr => PagesOf(p) \cap PagesOf(ptr) = {}
    BY <2>1 DEF PagesInv, PagesExact, BlocksDisjoint
  <2> QED
    BY <1>1, <2>2, <2>3
<1> QED
  BY <1>2, <1>3, <1>4, <1>5 DEF PagesInv, PagesExact

(* Every step keeps the invariant while the offsets fit in a handle.       *)
LEMMA PagesStep == PagesInv /\ OffsetsFit /\ [AllocatorNext]_allocator => PagesInv'
<1> SUFFICES ASSUME PagesInv, OffsetsFit, [AllocatorNext]_allocator PROVE PagesInv'
  OBVIOUS
<1> USE BoundAssumption
<1>1. ASSUME NEW n \in 1..MaxLive, Request(n) PROVE PagesInv'
  BY <1>1 DEF Request, PagesInv, PagesExact, AllocatorTypeOK, BlocksDisjoint, BitmapExact,
              HandleInv, Names, BytesInv, Bits
<1>2. ASSUME NEW ptr \in blocks, Deallocate(ptr) PROVE PagesInv'
  BY <1>2, DeallocateInv
<1>3. CASE Found
  BY <1>3, FoundInv
<1>4. CASE Crash
  BY <1>4 DEF Crash, PagesInv, PagesExact, AllocatorTypeOK, BlocksDisjoint, BitmapExact,
              HandleInv, Names, BytesInv, Bits
<1>5. CASE Extend
  BY <1>5, ExtendInv
<1>6. CASE ExtendFails
  BY <1>6, ExtendFailsInv
<1>7. CASE Destroy
  <2>1. BytesFor(filePages) \in Nat
    BY EnoughBytes DEF PagesInv, PagesExact, AllocatorTypeOK
  <2> QED
    BY <1>7, <2>1 DEF Destroy, NoBitmap, PagesInv, PagesExact, AllocatorTypeOK, BlocksDisjoint,
              BitmapExact, HandleInv, Names, BytesInv, Bits
<1>8. CASE Ended \/ UNCHANGED allocator
  <2>1. UNCHANGED <<filePages, realPages, bytes, used, want, blocks, fails, state>>
    BY <1>8 DEF Ended, allocator
  <2>2. AllocatorTypeOK'
    BY <2>1 DEF PagesInv, PagesExact, AllocatorTypeOK, Bits
  <2> QED
    BY <2>1, <2>2 DEF PagesInv, PagesExact, BlocksDisjoint, BitmapExact, HandleInv, Names, BytesInv
<1> QED
  BY <1>1, <1>2, <1>3, <1>4, <1>5, <1>6, <1>7, <1>8 DEF AllocatorNext

(* Until an extension fails no page belongs to two blocks, and the pages   *)
(* of the blocks are those set in the bitmap, for every file whose offsets *)
(* fit in a handle (alloc.c packs the offset without looking at its size). *)
THEOREM PagesStayExact == AllocatorSpec /\ []OffsetsFit => []PagesExact
<1>1. AllocatorSpec /\ []OffsetsFit => []PagesInv
  BY PagesInit, PagesStep, PTL DEF AllocatorSpec
<1>2. PagesInv => PagesExact
  BY DEF PagesInv
<1> QED
  BY <1>1, <1>2, PTL

-----------------------------------------------------------------------------
(* The orbit algorithms, for any finite set of blocks and any symmetries.  *)

(* TLC compares these with what they should be for a few groups (run       *)
(* algorithms); this is for any.                                           *)
LEMMA ListsComplete ==
    ASSUME NEW x \in Triples, NEW i \in Idx
    PROVE  /\ combined_orbits(x[1], x[2], x[3], i) \in CanonicalList(x[3], OrbitOf(x[1] \cup x[2], i))
           /\ subgroup_orbits(x[2], x[3], i) \in CanonicalList(x[3], OrbitOf(x[2], i))
<1>1. /\ x[1] \subseteq Bijection(Idx, Idx) /\ x[2] \subseteq Bijection(Idx, Idx)
      /\ x[3] \subseteq Bijection(Idx, Idx)
      /\ \A j \in Idx : OrbitOf(x[3], j) \subseteq OrbitOf(x[1], j) \cap OrbitOf(x[2], j)
  BY TriplesAssumption
<1>2. /\ \A j \in Idx : OrbitOf(x[3], j) \subseteq OrbitOf(x[1], j)
      /\ \A j \in Idx : OrbitOf(x[3], j) \subseteq OrbitOf(x[2], j)
  BY <1>1
<1> QED
  BY <1>1, <1>2, CombinedOrbits, SubgroupOrbits

(* The lists of both orbit algorithms are complete and sorted, for any     *)
(* finite set of blocks and any symmetries.                                *)
THEOREM OrbitsAlwaysComplete == OrbitSpec => []OrbitsComplete
<1> DEFINE CallOK == \E x \in Triples, i \in Idx : call = [sym |-> x, i |-> i]
<1>1. OrbitInit => CallOK
  BY DEF OrbitInit
<1>2. CallOK /\ [OtherIndex]_call => CallOK'
  <2> SUFFICES ASSUME CallOK, [OtherIndex]_call PROVE CallOK'
    OBVIOUS
  <2>1. CASE OtherIndex
    BY <2>1 DEF OtherIndex
  <2>2. CASE UNCHANGED call
    BY <2>2
  <2> QED
    BY <2>1, <2>2
<1>3. CallOK => OrbitsComplete
  <2> SUFFICES ASSUME NEW x \in Triples, NEW i \in Idx, call = [sym |-> x, i |-> i]
               PROVE  OrbitsComplete
    OBVIOUS
  <2>1. call.sym = x /\ call.i = i
    OBVIOUS
  <2> QED
    BY <2>1, ListsComplete DEF OrbitsComplete, CanonicalList
<1> QED
  BY <1>1, <1>2, <1>3, PTL DEF OrbitSpec
=============================================================================
