---------------------- MODULE DirectBlockTensor_proofs ----------------------
(***************************************************************************)
(* The safety of direct_gen_block_tensor for any number of threads, CPUs   *)
(* and blocks, for any lists and any dependences between the blocks that   *)
(* have no cycle, and whichever computations throw.                        *)
(***************************************************************************)
EXTENDS DirectBlockTensor, FiniteSetTheorems, SequenceTheorems, TLAPS

Entry == [blk : Blocks, at : Places]

Active == {"compute", "fill", "computed"}          \* computes the block
Waiting == {"release", "sleep"}                    \* before the signal
Leaving == {"acquire", "erase"}                    \* after it
Given == Leaving \cup {"use", "ret"}               \* has the block

(* The levels of DepAssumption. *)
level == CHOOSE f \in [Blocks -> 0..Cardinality(Blocks)] :
             \A b \in Blocks : Dep[b] # NoBlock => f[Dep[b]] < f[b]

TypeInv == TypeOK /\ IsFiniteSet(oncpu)

(* Every request but the last was made by a computation, and no block is   *)
(* requested twice by one thread.                                          *)
StackInv ==
    \A t \in Threads : \A i \in DOMAIN stack[t] :
        /\ i > 1 => stack[t][i].at = "fill"
        /\ \A j \in DOMAIN stack[t] : i < j => level[stack[t][i].blk] < level[stack[t][j].blk]

(* A block is in progress as long as somebody computes it, and complete    *)
(* when he is done; whoever waits has a cond under the key of the block,   *)
(* signalled when and only when the block has been computed.               *)
EntryOK(t, e) ==
    /\ e.at \in Active => e.blk \in m_inprogress
    /\ e.at \in Given => e.blk \notin m_inprogress
    /\ e.at \in Given \cup {"computed"} => e.blk \in full
    /\ e.at \in Waiting =>
          /\ t \in m_cond[e.blk]
          /\ sig[t] <=> e.blk \notin m_inprogress
          /\ sig[t] => e.blk \in full
EntryInv == \A t \in Threads : \A i \in DOMAIN stack[t] : EntryOK(t, stack[t][i])

(* A cond is in the map only while its thread is on its way through it. *)
CondInv == \A t \in Threads : \A b \in Blocks : t \in m_cond[b] =>
    stack[t] # <<>> /\ Top(t).blk = b /\ Top(t).at \in Waiting \cup Leaving

OneComputes == \A t, u \in Threads : \A b \in Blocks :
    Computes(t, b) /\ Computes(u, b) => t = u

(* The count of a block, one that was lost being counted once more. *)
Holders(b) == {t \in Threads : Holds(t, b)}
CountInv == \A b \in Blocks :
    /\ m_count[b] = Cardinality(Holders(b)) + (IF Lost(b) THEN 1 ELSE 0)
    /\ b \in m_map <=> m_count[b] > 0
    /\ b \in m_map => b \in m_inprogress \cup full

Inv == /\ TypeInv /\ StackInv /\ EntryInv /\ CondInv /\ OneComputes /\ CountInv
       /\ ReadsComplete

-----------------------------------------------------------------------------
(* Operators *)

(* Levels fall along the dependencies of the blocks.                       *)
LEMMA LevelType ==
    /\ level \in [Blocks -> Nat]
    /\ \A b \in Blocks : Dep[b] # NoBlock => Dep[b] \in Blocks /\ level[Dep[b]] < level[b]
<1>1. Cardinality(Blocks) \in Nat
  BY FiniteAssumption, FS_CardinalityType
<1>2. /\ level \in [Blocks -> 0..Cardinality(Blocks)]
      /\ \A b \in Blocks : Dep[b] # NoBlock => level[Dep[b]] < level[b]
  BY DepAssumption DEF level
<1> QED
  BY <1>1, <1>2, ListAssumption

(* The top of a stack moves on. *)
LEMMA Moved ==
    ASSUME NEW t \in Threads, TypeOK, stack[t] # <<>>, NEW p \in Places, GoTo(t, p)
    PROVE  /\ stack' \in [Threads -> Seq(Entry)]
           /\ \A u \in Threads : u # t => stack'[u] = stack[u]
           /\ 1 \in DOMAIN stack[t] /\ DOMAIN stack[t] \subseteq Nat \ {0}
           /\ stack'[t] # <<>> /\ DOMAIN stack'[t] = DOMAIN stack[t]
           /\ stack'[t][1] = [blk |-> Top(t).blk, at |-> p]
           /\ \A i \in DOMAIN stack[t] : i # 1 => stack'[t][i] = stack[t][i]
<1> DEFINE s == stack[t]
<1>1. s \in Seq(Entry) /\ Len(s) \in Nat \ {0} /\ DOMAIN s = 1..Len(s)
  BY EmptySeq, LenProperties DEF TypeOK, Entry
<1>2. s[1] \in Entry
  BY <1>1
<1>3. stack' = [stack EXCEPT ![t] = [s EXCEPT ![1] = [s[1] EXCEPT !.at = p]]]
  BY DEF GoTo
<1>4. [s[1] EXCEPT !.at = p] = [blk |-> s[1].blk, at |-> p]
  BY <1>2 DEF Entry
<1>5. [blk |-> s[1].blk, at |-> p] \in Entry
  BY <1>2 DEF Entry
<1>6. stack'[t] = [s EXCEPT ![1] = [blk |-> s[1].blk, at |-> p]]
  BY <1>3, <1>4 DEF TypeOK
<1>7. stack'[t] \in Seq(Entry) /\ Len(stack'[t]) = Len(s)
  BY <1>1, <1>5, <1>6, ExceptSeq
<1>8. DOMAIN stack'[t] = DOMAIN s
  BY <1>6
<1>9. /\ stack'[t][1] = [blk |-> s[1].blk, at |-> p]
      /\ \A i \in DOMAIN s : i # 1 => stack'[t][i] = s[i]
  BY <1>1, <1>6
<1>10. stack' \in [Threads -> Seq(Entry)] /\ \A u \in Threads : u # t => stack'[u] = stack[u]
  BY <1>3, <1>6, <1>7 DEF TypeOK, Entry
<1> QED
  BY <1>1, <1>7, <1>8, <1>9, <1>10 DEF Top

(* A new request, made by the thread or by a computation on its stack. *)
LEMMA Pushed ==
    ASSUME NEW t \in Threads, TypeOK, NEW b \in Blocks, NEW p \in Places, Push(t, b, p)
    PROVE  /\ stack' \in [Threads -> Seq(Entry)]
           /\ \A u \in Threads : u # t => stack'[u] = stack[u]
           /\ Len(stack[t]) \in Nat /\ DOMAIN stack[t] = 1..Len(stack[t])
           /\ stack'[t] # <<>> /\ DOMAIN stack'[t] = 1..(Len(stack[t]) + 1)
           /\ stack'[t][1] = [blk |-> b, at |-> "req"]
           /\ stack[t] # <<>> => stack'[t][2] = [blk |-> Top(t).blk, at |-> p]
           /\ \A i \in 2..Len(stack[t]) : stack'[t][i + 1] = stack[t][i]
<1> DEFINE s == stack[t]
           r == [blk |-> b, at |-> "req"]
           low == IF s = <<>> THEN <<>> ELSE [s EXCEPT ![1] = [s[1] EXCEPT !.at = p]]
<1>1. s \in Seq(Entry) /\ Len(s) \in Nat /\ DOMAIN s = 1..Len(s) /\ (s # <<>> => Len(s) > 0)
  <2>1. s \in Seq(Entry)
    BY DEF TypeOK, Entry
  <2>2. Len(s) \in Nat /\ DOMAIN s = 1..Len(s)
    BY <2>1, LenProperties
  <2>3. s # <<>> => Len(s) \in Nat \ {0}
    BY <2>1, EmptySeq
  <2> QED
    BY <2>1, <2>2, <2>3
<1>2. stack' = [stack EXCEPT ![t] = <<r>> \o low]
  BY DEF Push
<1>3. ASSUME s # <<>>
      PROVE  /\ low = [s EXCEPT ![1] = [blk |-> s[1].blk, at |-> p]]
             /\ [blk |-> s[1].blk, at |-> p] \in Entry
  <2>1. s[1] \in Entry
    BY <1>1, <1>3
  <2>2. [s[1] EXCEPT !.at = p] = [blk |-> s[1].blk, at |-> p]
    BY <2>1 DEF Entry
  <2> QED
    BY <1>3, <2>1, <2>2 DEF Entry
<1>4. /\ low \in Seq(Entry) /\ Len(low) = Len(s)
      /\ s # <<>> => low[1] = [blk |-> s[1].blk, at |-> p]
      /\ \A i \in 2..Len(s) : low[i] = s[i]
  <2>1. CASE s = <<>>
    BY <2>1, EmptySeq
  <2>2. CASE s # <<>>
    BY <1>1, <1>3, <2>2, ExceptSeq
  <2> QED
    BY <2>1, <2>2
<1>5. r \in Entry /\ <<r>> \in Seq(Entry) /\ Len(<<r>>) = 1
  BY DEF Entry, Places
<1> HIDE DEF low, r
<1>6. /\ <<r>> \o low \in Seq(Entry) /\ Len(<<r>> \o low) = 1 + Len(low)
      /\ \A i \in 1..(1 + Len(low)) : (<<r>> \o low)[i] = IF i <= 1 THEN <<r>>[i] ELSE low[i - 1]
  BY <1>4, <1>5, ConcatProperties
<1>7. stack'[t] = <<r>> \o low /\ (\A u \in Threads : u # t => stack'[u] = stack[u])
  BY <1>2 DEF TypeOK
<1>8. stack' \in [Threads -> Seq(Entry)]
  BY <1>2, <1>6 DEF TypeOK, Entry
<1>9. DOMAIN stack'[t] = 1..(Len(s) + 1) /\ stack'[t] # <<>>
  BY <1>1, <1>4, <1>6, <1>7, LenProperties, EmptySeq
<1>10. stack'[t][1] = r
  BY <1>1, <1>4, <1>6, <1>7
<1>11. s # <<>> => stack'[t][2] = [blk |-> s[1].blk, at |-> p]
  BY <1>1, <1>4, <1>6, <1>7
<1>12. \A i \in 2..Len(s) : stack'[t][i + 1] = s[i]
  BY <1>1, <1>4, <1>6, <1>7
<1> QED
  BY <1>1, <1>7, <1>8, <1>9, <1>10, <1>11, <1>12 DEF r, Top

(* The last request of a thread is returned. *)
LEMMA Popped ==
    ASSUME NEW t \in Threads, TypeOK, stack[t] # <<>>,
           stack' = [stack EXCEPT ![t] = Tail(@)]
    PROVE  /\ stack' \in [Threads -> Seq(Entry)]
           /\ \A u \in Threads : u # t => stack'[u] = stack[u]
           /\ Len(stack[t]) \in Nat \ {0} /\ DOMAIN stack[t] = 1..Len(stack[t])
           /\ DOMAIN stack'[t] = 1..(Len(stack[t]) - 1)
           /\ \A i \in 1..(Len(stack[t]) - 1) : stack'[t][i] = stack[t][i + 1]
<1> DEFINE s == stack[t]
<1>1. s \in Seq(Entry)
  BY DEF TypeOK, Entry
<1>2. Len(s) \in Nat \ {0} /\ DOMAIN s = 1..Len(s)
  BY <1>1, EmptySeq, LenProperties
<1>3. Tail(s) \in Seq(Entry) /\ Len(Tail(s)) = Len(s) - 1
  BY <1>1, HeadTailProperties
<1>4. \A i \in 1..(Len(s) - 1) : Tail(s)[i] = s[i + 1]
  BY <1>1, <1>2, HeadTailProperties
<1>5. stack'[t] = Tail(s) /\ \A u \in Threads : u # t => stack'[u] = stack[u]
  BY DEF TypeOK
<1>6. DOMAIN Tail(s) = 1..(Len(s) - 1)
  BY <1>3, LenProperties
<1>7. stack' \in [Threads -> Seq(Entry)]
  BY <1>3 DEF TypeOK, Entry
<1> QED
  BY <1>2, <1>4, <1>5, <1>6, <1>7

(* A thread has one request for each block, so the place of the last one   *)
(* says what it does with the block.                                       *)
LEMMA TopOnly ==
    ASSUME NEW t \in Threads, TypeOK, StackInv, stack[t] # <<>>
    PROVE  /\ Top(t) \in Entry /\ 1 \in DOMAIN stack[t]
           /\ \A i \in DOMAIN stack[t] : i # 1 =>
                  stack[t][i].blk # Top(t).blk /\ stack[t][i].at = "fill"
           /\ Holds(t, Top(t).blk) <=> Top(t).at # "req"
           /\ Computes(t, Top(t).blk) <=> Top(t).at \in Active
<1>1. stack[t] \in Seq(Entry)
  BY DEF TypeOK, Entry
<1>2. Len(stack[t]) \in Nat \ {0} /\ DOMAIN stack[t] = 1..Len(stack[t])
  BY <1>1, EmptySeq, LenProperties
<1>3. \A i \in DOMAIN stack[t] : stack[t][i] \in Entry
  BY <1>1, <1>2, ElementOfSeq
<1>4. 1 \in DOMAIN stack[t] /\ Top(t) \in Entry
  BY <1>2, <1>3 DEF Top
<1>5. ASSUME NEW i \in DOMAIN stack[t], i # 1
      PROVE  stack[t][i].blk # Top(t).blk /\ stack[t][i].at = "fill"
  <2>1. i > 1
    BY <1>2, <1>5
  <2>2. level[Top(t).blk] < level[stack[t][i].blk] /\ stack[t][i].at = "fill"
    BY <1>4, <2>1 DEF StackInv, Top
  <2>3. Top(t).blk \in Blocks /\ stack[t][i].blk \in Blocks
    BY <1>3, <1>4 DEF Entry
  <2>4. level[Top(t).blk] \in Nat
    BY <2>3, LevelType
  <2> QED
    BY <2>2, <2>4
<1>6. Holds(t, Top(t).blk) <=> Top(t).at # "req"
  BY <1>4, <1>5 DEF Holds, Top
<1>7. Computes(t, Top(t).blk) <=> Top(t).at \in Active
  BY <1>4, <1>5 DEF Computes, Top, Active
<1> QED
  BY <1>4, <1>5, <1>6, <1>7

(* A thread that moves on changes what it holds of its top block only.     *)
LEMMA MovedKeeps ==
    ASSUME NEW t \in Threads, TypeOK, StackInv, stack[t] # <<>>, NEW p \in Places, GoTo(t, p)
    PROVE  /\ StackInv'
           /\ \A u \in Threads, b \in Blocks :
                 /\ Holds(u, b)' <=> IF u = t /\ b = Top(t).blk THEN p # "req" ELSE Holds(u, b)
                 /\ Computes(u, b)' <=> IF u = t /\ b = Top(t).blk THEN p \in Active
                                        ELSE Computes(u, b)
<1> DEFINE top == Top(t).blk
<1>1. /\ stack' \in [Threads -> Seq(Entry)]
      /\ \A u \in Threads : u # t => stack'[u] = stack[u]
      /\ 1 \in DOMAIN stack[t] /\ DOMAIN stack[t] \subseteq Nat \ {0}
      /\ stack'[t] # <<>> /\ DOMAIN stack'[t] = DOMAIN stack[t]
      /\ stack'[t][1] = [blk |-> top, at |-> p]
      /\ \A i \in DOMAIN stack[t] : i # 1 => stack'[t][i] = stack[t][i]
  BY Moved
<1>2. \A i \in DOMAIN stack[t] : /\ stack'[t][i].blk = stack[t][i].blk
                                 /\ i # 1 => stack'[t][i].at = stack[t][i].at
  BY <1>1 DEF Top
<1>3. StackInv'
  <2> SUFFICES ASSUME NEW u \in Threads, NEW i \in DOMAIN stack'[u]
               PROVE  /\ i > 1 => stack'[u][i].at = "fill"
                      /\ \A j \in DOMAIN stack'[u] :
                            i < j => level[stack'[u][i].blk] < level[stack'[u][j].blk]
    BY DEF StackInv
  <2>1. CASE u = t
    <3>1. i > 1 => i # 1 /\ stack[t][i].at = "fill"
      BY <1>1, <2>1 DEF StackInv
    <3>2. \A j \in DOMAIN stack[t] : i < j => level[stack[t][i].blk] < level[stack[t][j].blk]
      BY <1>1, <2>1 DEF StackInv
    <3> QED
      BY <1>1, <1>2, <2>1, <3>1, <3>2
  <2>2. CASE u # t
    BY <1>1, <2>2 DEF StackInv
  <2> QED
    BY <2>1, <2>2
<1>4. ASSUME NEW u \in Threads, NEW b \in Blocks
      PROVE  /\ Holds(u, b)' <=> IF u = t /\ b = top THEN p # "req" ELSE Holds(u, b)
             /\ Computes(u, b)' <=> IF u = t /\ b = top THEN p \in Active ELSE Computes(u, b)
  <2>1. CASE u # t
    BY <1>1, <2>1 DEF Holds, Computes
  <2>2. CASE u = t /\ b # top
    <3>1. stack[t][1].blk # b /\ stack'[t][1].blk # b
      BY <1>1, <2>2 DEF Top
    <3>2. \A i \in DOMAIN stack[t] : stack[t][i].blk = b => stack'[t][i] = stack[t][i]
      BY <1>1, <3>1
    <3>3. \A i \in DOMAIN stack[t] : stack'[t][i].blk = b => stack'[t][i] = stack[t][i]
      BY <1>1, <3>1
    <3> QED
      BY <1>1, <2>2, <3>2, <3>3 DEF Holds, Computes
  <2>3. CASE u = t /\ b = top
    <3>1. \A i \in DOMAIN stack[t] : i # 1 => stack'[t][i].blk # b
      BY <1>2, <2>3, TopOnly
    <3>2. stack'[t][1].blk = b /\ stack'[t][1].at = p
      BY <1>1, <2>3
    <3>3. Holds(t, b)' <=> p # "req"
      BY <1>1, <3>1, <3>2 DEF Holds
    <3>4. Computes(t, b)' <=> p \in Active
      BY <1>1, <3>1, <3>2 DEF Computes, Active
    <3> QED
      BY <2>3, <3>3, <3>4
  <2> QED
    BY <2>1, <2>2, <2>3
<1> QED
  BY <1>3, <1>4

-----------------------------------------------------------------------------
(* Counts *)

(* The holders of a block can be counted.                                  *)
LEMMA HoldersFinite ==
    ASSUME NEW b \in Blocks
    PROVE  /\ IsFiniteSet(Holders(b)) /\ Cardinality(Holders(b)) \in Nat
           /\ \A t \in Threads : Holds(t, b) => Cardinality(Holders(b)) > 0
           /\ Cardinality(Holders(b)) = 0 <=> Holders(b) = {}
<1>1. Holders(b) \in SUBSET Threads
  BY DEF Holders
<1>2. IsFiniteSet(Holders(b))
  BY <1>1, FiniteAssumption, FS_Subset
<1>3. Cardinality(Holders(b)) \in Nat
  BY <1>2, FS_CardinalityType
<1>4. Cardinality(Holders(b)) = 0 <=> Holders(b) = {}
  BY <1>2, FS_EmptySet
<1>5. ASSUME NEW t \in Threads, Holds(t, b) PROVE Cardinality(Holders(b)) > 0
  <2>1. t \in Holders(b)
    BY <1>5 DEF Holders
  <2> QED
    BY <1>3, <1>4, <2>1
<1> QED
  BY <1>2, <1>3, <1>4, <1>5

(* Who computes a block holds it.                                          *)
LEMMA ComputesHolds ==
    ASSUME NEW t \in Threads, NEW b \in Blocks, Computes(t, b)
    PROVE  Holds(t, b)
BY DEF Computes, Holds

(* A step that moves no thread into, out of or through a computation. *)
LEMMA SameCounts ==
    ASSUME OneComputes, CountInv,
           \A u \in Threads, b \in Blocks : /\ Holds(u, b)' <=> Holds(u, b)
                                            /\ Computes(u, b)' <=> Computes(u, b),
           UNCHANGED <<m_count, m_inprogress, m_map>>, full \subseteq full'
    PROVE  OneComputes' /\ CountInv'
<1>1. ASSUME NEW b \in Blocks PROVE Holders(b)' = Holders(b)
  <2>1. \A u \in Threads : Holds(u, b)' <=> Holds(u, b)
    OBVIOUS
  <2> QED
    BY <2>1, Zenon DEF Holders
<1>2. ASSUME NEW b \in Blocks PROVE Lost(b)' <=> Lost(b)
  BY DEF Lost
<1>3. OneComputes'
  BY DEF OneComputes
<1>4. CountInv'
  BY <1>1, <1>2 DEF CountInv
<1> QED
  BY <1>3, <1>4

(* The requests other than the one that moves. *)
LEMMA OtherEntries ==
    ASSUME NEW t \in Threads, TypeOK, StackInv, EntryInv, stack[t] # <<>>,
           NEW p \in Places, GoTo(t, p),
           EntryOK(t, stack[t][1])',
           m_inprogress \subseteq m_inprogress',
           full \subseteq full',
           \A u \in Threads : u # t => /\ sig'[u] = sig[u]
                                       /\ \A b \in Blocks : u \in m_cond[b] => u \in m_cond'[b],
           \A u \in Threads : \A i \in DOMAIN stack[u] :
               u # t /\ stack[u][i].at \in Given \cup Waiting =>
                   (stack[u][i].blk \in m_inprogress' <=> stack[u][i].blk \in m_inprogress)
    PROVE  EntryInv'
<1>1. /\ \A u \in Threads : u # t => stack'[u] = stack[u]
      /\ DOMAIN stack'[t] = DOMAIN stack[t]
      /\ \A i \in DOMAIN stack[t] : i # 1 => stack'[t][i] = stack[t][i]
  BY Moved
<1> SUFFICES ASSUME NEW u \in Threads, NEW i \in DOMAIN stack'[u]
             PROVE  EntryOK(u, stack[u][i])'
  BY DEF EntryInv
<1>2. CASE u = t /\ i = 1
  BY <1>2
<1>3. CASE u = t /\ i # 1
  <2>1. stack'[t][i] = stack[t][i] /\ stack[t][i].at = "fill" /\ EntryOK(t, stack[t][i])
    BY <1>1, <1>3, TopOnly DEF EntryInv
  <2> QED
    BY <1>3, <2>1 DEF EntryOK, Active, Given, Leaving, Waiting
<1>4. CASE u # t
  <2>1. stack'[u] = stack[u] /\ EntryOK(u, stack[u][i])
    BY <1>1, <1>4 DEF EntryInv
  <2>2. stack[u][i].blk \in Blocks
    <3>1. stack[u] \in Seq(Entry)
      BY DEF TypeOK, Entry
    <3>2. stack[u][i] \in Entry
      BY <2>1, <3>1, LenProperties, ElementOfSeq
    <3> QED
      BY <3>2 DEF Entry
  <2> QED
    BY <1>4, <2>1, <2>2 DEF EntryOK
<1> QED
  BY <1>2, <1>3, <1>4

(* Who is on his way through a cond. *)
LEMMA SameConds ==
    ASSUME NEW t \in Threads, TypeOK, CondInv, stack[t] # <<>>,
           NEW p \in Places, GoTo(t, p),
           \A u \in Threads, b \in Blocks : u \in m_cond'[b] =>
               \/ u \in m_cond[b] /\ (u # t \/ p \in Waiting \cup Leaving)
               \/ u = t /\ b = Top(t).blk /\ p \in Waiting \cup Leaving
    PROVE  CondInv'
<1>1. /\ \A u \in Threads : u # t => stack'[u] = stack[u]
      /\ stack'[t] # <<>> /\ stack'[t][1] = [blk |-> Top(t).blk, at |-> p]
  BY Moved
<1>2. Top(t)' = [blk |-> Top(t).blk, at |-> p]
  BY <1>1 DEF Top
<1>3. \A u \in Threads : u # t => Top(u)' = Top(u)
  BY <1>1 DEF Top
<1> QED
  BY <1>1, <1>2, <1>3 DEF CondInv

-----------------------------------------------------------------------------
(* Initial states and steps *)

(* At first no block is in the cache.                                      *)
LEMMA InitInv == Init => Inv
<1> SUFFICES ASSUME Init PROVE Inv
  OBVIOUS
<1> USE DEF Init
<1>1. IsFiniteSet({}) /\ Cardinality({}) = 0
  BY FS_EmptySet
<1>2. \A t \in Threads : stack[t] = <<>> /\ DOMAIN stack[t] = {}
  OBVIOUS
<1>3. TypeInv
  <2>1. \A t \in Threads : stack[t] \in Seq([blk : Blocks, at : Places])
    BY <1>2, EmptySeq
  <2>2. stack \in [Threads -> Seq([blk : Blocks, at : Places])]
    BY <2>1
  <2> QED
    BY <1>1, <2>2, CpuAssumption DEF TypeInv, TypeOK
<1>4. StackInv /\ EntryInv /\ CondInv
  BY <1>2 DEF StackInv, EntryInv, CondInv
<1>5. \A t \in Threads, b \in Blocks : ~Holds(t, b) /\ ~Computes(t, b)
  BY <1>2 DEF Holds, Computes
<1>6. OneComputes
  BY <1>5 DEF OneComputes
<1>7. \A b \in Blocks : Holders(b) = {} /\ ~Lost(b)
  BY <1>5 DEF Holders, Lost
<1>8. CountInv
  <2>1. \A b \in Blocks : m_count[b] = 0 /\ Cardinality(Holders(b)) = 0 /\ ~Lost(b)
    BY <1>1, <1>7
  <2>2. \A b \in Blocks : m_count[b] = Cardinality(Holders(b)) + (IF Lost(b) THEN 1 ELSE 0)
    BY <2>1
  <2> QED
    BY <2>1, <2>2 DEF CountInv
<1>9. ReadsComplete
  BY DEF ReadsComplete
<1> QED
  BY <1>3, <1>4, <1>6, <1>8, <1>9 DEF Inv

(* A step of a request that leaves the counts and the computations alone:  *)
(* what is to be shown about it.                                           *)
LEMMA MoveKeeps ==
    ASSUME NEW t \in Threads, Inv, stack[t] # <<>>, Top(t).at # "req",
           NEW p \in Places \ {"req"}, GoTo(t, p), Top(t).at \in Active <=> p \in Active,
           EntryOK(t, stack[t][1])',
           UNCHANGED <<m_count, m_inprogress, m_map, next>>,
           full \subseteq full' /\ full' \subseteq Blocks,
           sig' \in [Threads -> BOOLEAN],
           \A u \in Threads : u # t => sig'[u] = sig[u],
           \/ UNCHANGED m_cond /\ (Top(t).at \notin Waiting \cup Leaving \/ p \in Waiting \cup Leaving)
           \/ m_cond' = [m_cond EXCEPT ![Top(t).blk] = @ \ {t}] /\ Top(t).at \in Leaving,
           IsFiniteSet(oncpu') /\ Cardinality(oncpu') <= NCpus /\ oncpu' \subseteq Threads,
           UNCHANGED status,
           lastRead' \in [Threads -> BOOLEAN] /\ ReadsComplete'
    PROVE  Inv'
<1> USE DEF Inv, TypeInv
<1>1. stack' \in [Threads -> Seq(Entry)]
  BY Moved
<1>2. Top(t).blk \in Blocks
  BY TopOnly DEF Entry
<1>3. m_cond' \in [Blocks -> SUBSET Threads]
  BY <1>2 DEF TypeOK
<1>4. TypeInv'
  BY <1>1, <1>3 DEF TypeOK, Entry
<1>5. StackInv'
  BY MovedKeeps
<1>6. \A u \in Threads, b \in Blocks : /\ Holds(u, b)' <=> Holds(u, b)
                                       /\ Computes(u, b)' <=> Computes(u, b)
  BY MovedKeeps, TopOnly
<1>7. OneComputes' /\ CountInv'
  BY <1>6, SameCounts
<1>8. \A u \in Threads, b \in Blocks : u # t => (u \in m_cond'[b] <=> u \in m_cond[b])
  BY <1>2 DEF TypeOK
<1>9. EntryInv'
  BY <1>8, OtherEntries
<1>10. \A b \in Blocks : t \in m_cond'[b] => t \in m_cond[b] /\ p \in Waiting \cup Leaving
  <2> SUFFICES ASSUME NEW b \in Blocks, t \in m_cond'[b]
               PROVE  t \in m_cond[b] /\ p \in Waiting \cup Leaving
    OBVIOUS
  <2>1. t \in m_cond[b]
    BY <1>2 DEF TypeOK
  <2>2. Top(t).blk = b /\ Top(t).at \in Waiting \cup Leaving
    BY <2>1 DEF CondInv
  <2> QED
    BY <1>2, <2>1, <2>2 DEF TypeOK
<1>11. CondInv'
  BY <1>8, <1>10, SameConds
<1> QED
  BY <1>4, <1>5, <1>7, <1>9, <1>11

(* Taking and ending a task touches no block.                              *)
LEMMA TaskKeeps ==
    ASSUME NEW t \in Threads, Inv, StartTask(t) \/ EndTask(t)
    PROVE  Inv'
<1> USE DEF Inv, TypeInv
<1>1. UNCHANGED <<tensor, stack, next, lastRead>>
  BY DEF StartTask, EndTask
<1>2. status' \in [Threads -> {"queued", "busy", "done", "threw"}]
  BY DEF StartTask, EndTask, TypeOK
<1>3. IsFiniteSet(oncpu') /\ Cardinality(oncpu') <= NCpus /\ oncpu' \subseteq Threads
  <2>1. CASE StartTask(t)
    <3>1. /\ IsFiniteSet(oncpu \cup {t})
          /\ Cardinality(oncpu \cup {t}) = IF t \in oncpu THEN Cardinality(oncpu)
                                                          ELSE Cardinality(oncpu) + 1
      BY FS_AddElement
    <3>2. Cardinality(oncpu) \in Nat
      BY FS_CardinalityType
    <3> QED
      BY <2>1, <3>1, <3>2, CpuAssumption DEF StartTask, TypeOK
  <2>2. CASE EndTask(t)
    <3>1. /\ IsFiniteSet(oncpu \ {t})
          /\ Cardinality(oncpu \ {t}) = IF t \in oncpu THEN Cardinality(oncpu) - 1
                                                       ELSE Cardinality(oncpu)
      BY FS_RemoveElement
    <3>2. Cardinality(oncpu) \in Nat
      BY FS_CardinalityType
    <3> QED
      BY <2>2, <3>1, <3>2, CpuAssumption DEF EndTask, TypeOK
  <2> QED
    BY <2>1, <2>2
<1>4. TypeInv'
  BY <1>1, <1>2, <1>3 DEF TypeOK, tensor
<1>5. StackInv' /\ EntryInv' /\ CondInv' /\ ReadsComplete'
  BY <1>1 DEF StackInv, EntryInv, EntryOK, CondInv, Top, ReadsComplete, tensor
<1>6. \A u \in Threads, b \in Blocks : /\ Holds(u, b)' <=> Holds(u, b)
                                       /\ Computes(u, b)' <=> Computes(u, b)
  BY <1>1 DEF Holds, Computes
<1>7. OneComputes' /\ CountInv'
  BY <1>1, <1>6, SameCounts DEF tensor
<1> QED
  BY <1>4, <1>5, <1>7

(* A new request is not counted yet. *)
LEMMA PushKeeps ==
    ASSUME NEW t \in Threads, Inv, NEW b \in Blocks, NEW p \in Places, Push(t, b, p),
           UNCHANGED <<tensor, next, oncpu, status, lastRead>>,
           \/ stack[t] = <<>>
           \/ stack[t] # <<>> /\ Top(t).at = "compute" /\ p = "fill" /\ b = Dep[Top(t).blk]
    PROVE  Inv'
<1> USE DEF Inv, TypeInv
<1>1. /\ stack' \in [Threads -> Seq(Entry)]
      /\ \A u \in Threads : u # t => stack'[u] = stack[u]
      /\ Len(stack[t]) \in Nat /\ DOMAIN stack[t] = 1..Len(stack[t])
      /\ stack'[t] # <<>> /\ DOMAIN stack'[t] = 1..(Len(stack[t]) + 1)
      /\ stack'[t][1] = [blk |-> b, at |-> "req"]
      /\ stack[t] # <<>> => stack'[t][2] = [blk |-> Top(t).blk, at |-> p]
      /\ \A i \in 2..Len(stack[t]) : stack'[t][i + 1] = stack[t][i]
  BY Pushed
<1>2. stack[t] \in Seq(Entry) /\ \A i \in DOMAIN stack[t] : stack[t][i] \in Entry
  BY <1>1, ElementOfSeq DEF TypeOK, Entry
<1>3. stack[t] = <<>> => Len(stack[t]) = 0
  OBVIOUS
<1>4. ASSUME NEW i \in DOMAIN stack[t]
      PROVE  /\ i + 1 \in DOMAIN stack'[t]
             /\ stack'[t][i + 1].blk = stack[t][i].blk
             /\ stack'[t][i + 1].at = "fill"
             /\ stack[t][i].at \in {"compute", "fill"}
             /\ level[b] < level[stack[t][i].blk]
  <2>1. i \in 1..Len(stack[t]) /\ stack[t] # <<>> /\ 1 \in DOMAIN stack[t]
    BY <1>1, <1>3
  <2>2. Top(t).blk \in Blocks /\ level[b] < level[Top(t).blk] /\ level[Top(t).blk] \in Nat /\ level[b] \in Nat
    BY <1>2, <2>1, LevelType, ListAssumption DEF Top, Entry
  <2>3. CASE i = 1
    BY <1>1, <2>1, <2>2, <2>3 DEF Top
  <2>4. CASE i # 1
    <3>1. i \in 2..Len(stack[t]) /\ i > 1
      BY <1>1, <2>1, <2>4
    <3>2. stack'[t][i + 1] = stack[t][i] /\ stack[t][i].at = "fill"
      BY <1>1, <3>1 DEF StackInv
    <3>3. level[Top(t).blk] < level[stack[t][i].blk]
      BY <2>1, <3>1 DEF StackInv, Top
    <3>4. level[stack[t][i].blk] \in Nat
      BY <1>2, LevelType DEF Entry
    <3> QED
      BY <1>1, <2>1, <2>2, <3>1, <3>2, <3>3, <3>4
  <2> QED
    BY <2>3, <2>4
<1>5. ASSUME NEW i \in DOMAIN stack'[t], i # 1
      PROVE  i - 1 \in DOMAIN stack[t] /\ i = (i - 1) + 1 /\ i > 1
  BY <1>1, <1>5
<1>6. TypeInv'
  BY <1>1 DEF TypeOK, Entry, tensor
<1>7. StackInv'
  <2> SUFFICES ASSUME NEW u \in Threads, NEW i \in DOMAIN stack'[u]
               PROVE  /\ i > 1 => stack'[u][i].at = "fill"
                      /\ \A j \in DOMAIN stack'[u] :
                            i < j => level[stack'[u][i].blk] < level[stack'[u][j].blk]
    BY DEF StackInv
  <2>1. CASE u # t
    BY <1>1, <2>1 DEF StackInv
  <2>2. CASE u = t /\ i = 1
    <3>1. ASSUME NEW j \in DOMAIN stack'[u], i < j
          PROVE  level[stack'[u][i].blk] < level[stack'[u][j].blk]
      <4>1. j - 1 \in DOMAIN stack[t] /\ j = (j - 1) + 1
        BY <1>5, <2>2, <3>1
      <4>2. /\ stack'[t][(j - 1) + 1].blk = stack[t][j - 1].blk
            /\ level[b] < level[stack[t][j - 1].blk]
        BY <1>4, <4>1
      <4> QED
        BY <1>1, <2>2, <4>1, <4>2
    <3> QED
      BY <2>2, <3>1
  <2>3. CASE u = t /\ i # 1
    <3>1. i - 1 \in DOMAIN stack[t] /\ i = (i - 1) + 1 /\ i > 1
      BY <1>5, <2>3
    <3>2. stack'[u][i].at = "fill" /\ stack'[u][i].blk = stack[t][i - 1].blk
      BY <1>4, <2>3, <3>1
    <3>3. ASSUME NEW j \in DOMAIN stack'[u], i < j
          PROVE  level[stack'[u][i].blk] < level[stack'[u][j].blk]
      <4>1. j \in Nat /\ i \in Nat
        BY <1>1, <2>3
      <4>2. j - 1 \in DOMAIN stack[t] /\ j = (j - 1) + 1
        BY <1>5, <2>3, <3>1, <3>3, <4>1
      <4>3. stack'[u][j].blk = stack[t][j - 1].blk
        BY <1>4, <2>3, <4>2
      <4>4. i - 1 < j - 1
        BY <3>3, <4>1
      <4> QED
        BY <3>1, <3>2, <4>2, <4>3, <4>4 DEF StackInv
    <3> QED
      BY <3>2, <3>3
  <2> QED
    BY <2>1, <2>2, <2>3
<1>8. EntryInv'
  <2> SUFFICES ASSUME NEW u \in Threads, NEW i \in DOMAIN stack'[u]
               PROVE  EntryOK(u, stack[u][i])'
    BY DEF EntryInv
  <2>1. CASE u # t
    BY <1>1, <2>1 DEF EntryInv, EntryOK, tensor
  <2>2. CASE u = t /\ i = 1
    BY <1>1, <2>2 DEF EntryOK, Active, Given, Leaving, Waiting
  <2>3. CASE u = t /\ i # 1
    <3>1. i - 1 \in DOMAIN stack[t] /\ i = (i - 1) + 1
      BY <1>5, <2>3
    <3>2. /\ stack'[u][i].at = "fill" /\ stack'[u][i].blk = stack[t][i - 1].blk
          /\ stack[t][i - 1].at \in {"compute", "fill"} /\ EntryOK(t, stack[t][i - 1])
      BY <1>4, <2>3, <3>1 DEF EntryInv
    <3> QED
      BY <2>3, <3>2 DEF EntryOK, Active, Given, Leaving, Waiting, tensor
  <2> QED
    BY <2>1, <2>2, <2>3
<1>9. CondInv'
  <2>1. \A c \in Blocks : t \notin m_cond[c]
    <3>1. stack[t] # <<>> => Top(t).at = "compute"
      OBVIOUS
    <3> QED
      BY <3>1 DEF CondInv, Waiting, Leaving
  <2> QED
    BY <1>1, <2>1 DEF CondInv, Top, tensor
<1>10. ASSUME NEW u \in Threads, NEW c \in Blocks
       PROVE  /\ Holds(u, c)' <=> Holds(u, c)
              /\ Computes(u, c)' <=> Computes(u, c)
  <2>1. CASE u # t
    BY <1>1, <2>1 DEF Holds, Computes
  <2>2. CASE u = t
    <3>1. Holds(t, c) => Holds(t, c)'
      BY <1>4 DEF Holds
    <3>2. Computes(t, c) => Computes(t, c)'
      BY <1>4 DEF Computes
    <3>3. ASSUME NEW i \in DOMAIN stack'[t], stack'[t][i].blk = c, stack'[t][i].at # "req"
          PROVE  Holds(t, c) /\ Computes(t, c)
      <4>1. i # 1
        BY <1>1, <3>3
      <4>2. i - 1 \in DOMAIN stack[t] /\ i = (i - 1) + 1
        BY <1>5, <4>1
      <4>3. stack[t][i - 1].blk = c /\ stack[t][i - 1].at \in {"compute", "fill"}
        BY <1>4, <3>3, <4>2
      <4> QED
        BY <4>2, <4>3 DEF Holds, Computes
    <3>4. Holds(t, c)' => Holds(t, c)
      BY <3>3 DEF Holds
    <3>5. Computes(t, c)' => Computes(t, c)
      BY <3>3 DEF Computes
    <3> QED
      BY <2>2, <3>1, <3>2, <3>4, <3>5
  <2> QED
    BY <2>1, <2>2
<1>11. OneComputes' /\ CountInv'
  BY <1>10, SameCounts DEF tensor
<1>12. ReadsComplete'
  BY DEF ReadsComplete
<1> QED
  BY <1>6, <1>7, <1>8, <1>9, <1>11, <1>12

(* A thread that gives a CPU up or takes one. *)
LEMMA CpuKeeps ==
    ASSUME NEW t \in Threads, Inv,
           \/ oncpu' = oncpu \ {t}
           \/ oncpu' = oncpu \cup {t} /\ CpuFree(t)
    PROVE  IsFiniteSet(oncpu') /\ Cardinality(oncpu') <= NCpus /\ oncpu' \subseteq Threads
<1> USE DEF Inv, TypeInv
<1>1. /\ IsFiniteSet(oncpu \ {t})
      /\ Cardinality(oncpu \ {t}) = IF t \in oncpu THEN Cardinality(oncpu) - 1
                                                   ELSE Cardinality(oncpu)
  BY FS_RemoveElement
<1>2. Cardinality(oncpu) \in Nat /\ Cardinality(oncpu \ {t}) \in Nat
  BY <1>1, FS_CardinalityType
<1>3. CASE oncpu' = oncpu \ {t}
  BY <1>1, <1>2, <1>3, CpuAssumption DEF TypeOK
<1>4. CASE oncpu' = oncpu \cup {t} /\ CpuFree(t)
  <2>1. oncpu \cup {t} = (oncpu \ {t}) \cup {t}
    OBVIOUS
  <2>2. /\ IsFiniteSet((oncpu \ {t}) \cup {t})
        /\ Cardinality((oncpu \ {t}) \cup {t}) = Cardinality(oncpu \ {t}) + 1
    BY <1>1, FS_AddElement
  <2>3. IsFiniteSet(oncpu') /\ Cardinality(oncpu') = Cardinality(oncpu \ {t}) + 1
    BY <1>4, <2>1, <2>2
  <2>4. oncpu' \subseteq Threads
    BY <1>4 DEF TypeOK
  <2> QED
    BY <1>2, <1>4, <2>3, <2>4, CpuAssumption DEF CpuFree
<1> QED
  BY <1>3, <1>4

(* The CPUs in use stay within their number.                               *)
LEMMA SameCpus ==
    ASSUME Inv, UNCHANGED oncpu
    PROVE  IsFiniteSet(oncpu') /\ Cardinality(oncpu') <= NCpus /\ oncpu' \subseteq Threads
BY DEF Inv, TypeInv, TypeOK

(* The block that a thread computes becomes complete.                      *)
LEMMA FillKeeps ==
    ASSUME NEW t \in Threads, Inv, Fill(t)
    PROVE  Inv'
<1> USE DEF Inv, TypeInv
<1>1. /\ stack[t] # <<>> /\ Top(t).at \in {"fill", "compute"}
      /\ GoTo(t, "computed") /\ "computed" \in Places \ {"req"}
  BY DEF Fill, Running, At, Places
<1>2. Top(t).blk \in Blocks /\ 1 \in DOMAIN stack[t]
  BY <1>1, TopOnly DEF Entry
<1>3. stack'[t][1] = [blk |-> Top(t).blk, at |-> "computed"]
  BY <1>1, Moved
<1>4. EntryOK(t, Top(t))
  BY <1>2 DEF EntryInv, Top
<1>5. full' = full \cup {Top(t).blk} /\ UNCHANGED <<m_count, m_inprogress, m_map, m_cond, sig, next, oncpu, status, lastRead>>
  BY DEF Fill
<1>6. EntryOK(t, stack[t][1])'
  BY <1>1, <1>3, <1>4, <1>5 DEF EntryOK, Active, Given, Leaving, Waiting
<1>7. ReadsComplete' /\ lastRead' \in [Threads -> BOOLEAN] /\ sig' \in [Threads -> BOOLEAN]
  BY <1>5 DEF ReadsComplete, TypeOK
<1>8. Top(t).at \in Active /\ "computed" \in Active /\ Top(t).at # "req" /\ Top(t).at \notin Waiting \cup Leaving
  BY <1>1 DEF Active, Waiting, Leaving
<1>9. full \subseteq full' /\ full' \subseteq Blocks
  BY <1>2, <1>5 DEF TypeOK
<1> QED
  BY <1>1, <1>5, <1>6, <1>7, <1>8, <1>9, SameCpus, MoveKeeps

(* The CPU goes before the thread sleeps; it still waits. *)
LEMMA ReleaseKeeps ==
    ASSUME NEW t \in Threads, Inv, ReleaseCpu(t)
    PROVE  Inv'
<1> USE DEF Inv, TypeInv
<1>1. /\ stack[t] # <<>> /\ Top(t).at = "release"
      /\ GoTo(t, "sleep") /\ "sleep" \in Places \ {"req"}
  BY DEF ReleaseCpu, Running, At, Places
<1>2. Top(t).blk \in Blocks /\ 1 \in DOMAIN stack[t]
  BY <1>1, TopOnly DEF Entry
<1>3. stack'[t][1] = [blk |-> Top(t).blk, at |-> "sleep"]
  BY <1>1, Moved
<1>4. EntryOK(t, Top(t))
  BY <1>2 DEF EntryInv, Top
<1>5. oncpu' = oncpu \ {t} /\ UNCHANGED <<m_count, m_inprogress, m_map, m_cond, sig, full, next, status, lastRead>>
  BY DEF ReleaseCpu, tensor
<1>6. EntryOK(t, stack[t][1])'
  BY <1>1, <1>3, <1>4, <1>5 DEF EntryOK, Active, Given, Leaving, Waiting
<1>7. ReadsComplete' /\ lastRead' \in [Threads -> BOOLEAN] /\ sig' \in [Threads -> BOOLEAN]
  BY <1>5 DEF ReadsComplete, TypeOK
<1>8. /\ Top(t).at \notin Active /\ "sleep" \notin Active /\ Top(t).at # "req"
      /\ "sleep" \in Waiting \cup Leaving
  BY <1>1 DEF Active, Waiting
<1>9. full \subseteq full' /\ full' \subseteq Blocks
  BY <1>5 DEF TypeOK
<1> QED
  BY <1>1, <1>5, <1>6, <1>7, <1>8, <1>9, CpuKeeps, MoveKeeps

(* A thread that was signalled has its block. *)
LEMMA WakeUpKeeps ==
    ASSUME NEW t \in Threads, Inv, WakeUp(t)
    PROVE  Inv'
<1> USE DEF Inv, TypeInv
<1>1. /\ stack[t] # <<>> /\ Top(t).at = "sleep"
      /\ GoTo(t, "acquire") /\ "acquire" \in Places \ {"req"} /\ sig[t]
  BY DEF WakeUp, Woken, At, Places
<1>2. Top(t).blk \in Blocks /\ 1 \in DOMAIN stack[t]
  BY <1>1, TopOnly DEF Entry
<1>3. stack'[t][1] = [blk |-> Top(t).blk, at |-> "acquire"]
  BY <1>1, Moved
<1>4. EntryOK(t, Top(t))
  BY <1>2 DEF EntryInv, Top
<1>5. sig' = [sig EXCEPT ![t] = FALSE] /\ UNCHANGED <<m_count, m_inprogress, m_map, m_cond, full, next, oncpu, status, lastRead>>
  BY DEF WakeUp
<1>6. EntryOK(t, stack[t][1])'
  BY <1>1, <1>3, <1>4, <1>5 DEF EntryOK, Active, Given, Leaving, Waiting
<1>7. /\ ReadsComplete' /\ lastRead' \in [Threads -> BOOLEAN] /\ sig' \in [Threads -> BOOLEAN]
      /\ \A u \in Threads : u # t => sig'[u] = sig[u]
  BY <1>5 DEF ReadsComplete, TypeOK
<1>8. /\ Top(t).at \notin Active /\ "acquire" \notin Active /\ Top(t).at # "req"
      /\ "acquire" \in Waiting \cup Leaving
  BY <1>1 DEF Active, Leaving
<1>9. full \subseteq full' /\ full' \subseteq Blocks
  BY <1>5 DEF TypeOK
<1> QED
  BY <1>1, <1>5, <1>6, <1>7, <1>8, <1>9, SameCpus, MoveKeeps

(* A waiter that has its CPU again goes on.                                *)
LEMMA AcquireKeeps ==
    ASSUME NEW t \in Threads, Inv, AcquireCpu(t)
    PROVE  Inv'
<1> USE DEF Inv, TypeInv
<1>1. /\ stack[t] # <<>> /\ Top(t).at = "acquire"
      /\ GoTo(t, "erase") /\ "erase" \in Places \ {"req"}
  BY DEF AcquireCpu, At, Places
<1>2. Top(t).blk \in Blocks /\ 1 \in DOMAIN stack[t]
  BY <1>1, TopOnly DEF Entry
<1>3. stack'[t][1] = [blk |-> Top(t).blk, at |-> "erase"]
  BY <1>1, Moved
<1>4. EntryOK(t, Top(t))
  BY <1>2 DEF EntryInv, Top
<1>5. oncpu' = oncpu \cup {t} /\ CpuFree(t) /\ UNCHANGED <<m_count, m_inprogress, m_map, m_cond, sig, full, next, status, lastRead>>
  BY DEF AcquireCpu, tensor
<1>6. EntryOK(t, stack[t][1])'
  BY <1>1, <1>3, <1>4, <1>5 DEF EntryOK, Active, Given, Leaving, Waiting
<1>7. ReadsComplete' /\ lastRead' \in [Threads -> BOOLEAN] /\ sig' \in [Threads -> BOOLEAN]
  BY <1>5 DEF ReadsComplete, TypeOK
<1>8. /\ Top(t).at \notin Active /\ "erase" \notin Active /\ Top(t).at # "req"
      /\ "erase" \in Waiting \cup Leaving
  BY <1>1 DEF Active, Leaving
<1>9. full \subseteq full' /\ full' \subseteq Blocks
  BY <1>5 DEF TypeOK
<1> QED
  BY <1>1, <1>5, <1>6, <1>7, <1>8, <1>9, CpuKeeps, MoveKeeps

(* The waiter takes its condition out of the map.                          *)
LEMMA EraseKeeps ==
    ASSUME NEW t \in Threads, Inv, EraseCond(t)
    PROVE  Inv'
<1> USE DEF Inv, TypeInv
<1>1. /\ stack[t] # <<>> /\ Top(t).at = "erase"
      /\ GoTo(t, "use") /\ "use" \in Places \ {"req"}
  BY DEF EraseCond, Running, At, Places
<1>2. Top(t).blk \in Blocks /\ 1 \in DOMAIN stack[t]
  BY <1>1, TopOnly DEF Entry
<1>3. stack'[t][1] = [blk |-> Top(t).blk, at |-> "use"]
  BY <1>1, Moved
<1>4. EntryOK(t, Top(t))
  BY <1>2 DEF EntryInv, Top
<1>5. m_cond' = [m_cond EXCEPT ![Top(t).blk] = @ \ {t}] /\ UNCHANGED <<m_count, m_inprogress, m_map, sig, full, next, oncpu, status, lastRead>>
  BY DEF EraseCond
<1>6. EntryOK(t, stack[t][1])'
  BY <1>1, <1>3, <1>4, <1>5 DEF EntryOK, Active, Given, Leaving, Waiting
<1>7. ReadsComplete' /\ lastRead' \in [Threads -> BOOLEAN] /\ sig' \in [Threads -> BOOLEAN]
  BY <1>5 DEF ReadsComplete, TypeOK
<1>8. /\ Top(t).at \notin Active /\ "use" \notin Active /\ Top(t).at # "req"
      /\ Top(t).at \in Leaving
  BY <1>1 DEF Active, Leaving
<1>9. full \subseteq full' /\ full' \subseteq Blocks
  BY <1>5 DEF TypeOK
<1> QED
  BY <1>1, <1>5, <1>6, <1>7, <1>8, <1>9, SameCpus, MoveKeeps

(* A block that is given is complete and still in the map. *)
LEMMA UseKeeps ==
    ASSUME NEW t \in Threads, Inv, Use(t)
    PROVE  Inv'
<1> USE DEF Inv, TypeInv
<1>1. /\ stack[t] # <<>> /\ Top(t).at = "use"
      /\ GoTo(t, "ret") /\ "ret" \in Places \ {"req"}
  BY DEF Use, Running, At, Places
<1>2. Top(t).blk \in Blocks /\ 1 \in DOMAIN stack[t] /\ Holds(t, Top(t).blk)
  BY <1>1, TopOnly DEF Entry
<1>3. stack'[t][1] = [blk |-> Top(t).blk, at |-> "ret"]
  BY <1>1, Moved
<1>4. EntryOK(t, Top(t))
  BY <1>2 DEF EntryInv, Top
<1>5. /\ lastRead' = [lastRead EXCEPT ![t] = Top(t).blk \in m_map \cap full]
      /\ UNCHANGED <<m_count, m_inprogress, m_map, m_cond, sig, full, next, oncpu, status>>
  BY DEF Use, tensor
<1>6. EntryOK(t, stack[t][1])'
  BY <1>1, <1>3, <1>4, <1>5 DEF EntryOK, Active, Given, Leaving, Waiting
<1>7. Top(t).blk \in m_map
  <2>1. Cardinality(Holders(Top(t).blk)) > 0 /\ Cardinality(Holders(Top(t).blk)) \in Nat
    BY <1>2, HoldersFinite
  <2>2. m_count[Top(t).blk] > 0
    BY <1>2, <2>1 DEF CountInv
  <2> QED
    BY <1>2, <2>2 DEF CountInv
<1>8. Top(t).blk \in full
  BY <1>1, <1>4 DEF EntryOK, Given
<1>9. ReadsComplete' /\ lastRead' \in [Threads -> BOOLEAN] /\ sig' \in [Threads -> BOOLEAN]
  BY <1>5, <1>7, <1>8 DEF ReadsComplete, TypeOK
<1>10. /\ Top(t).at \notin Active /\ "ret" \notin Active /\ Top(t).at # "req"
       /\ Top(t).at \notin Waiting \cup Leaving
  BY <1>1 DEF Active, Waiting, Leaving
<1>11. full \subseteq full' /\ full' \subseteq Blocks
  BY <1>5 DEF TypeOK
<1> QED
  BY <1>1, <1>5, <1>6, <1>9, <1>10, <1>11, SameCpus, MoveKeeps

(* The end of a computation signals all who wait for the block. *)
LEMMA ComputedKeeps ==
    ASSUME NEW t \in Threads, Inv, Computed(t)
    PROVE  Inv'
<1> USE DEF Inv, TypeInv
<1> DEFINE top == Top(t).blk
<1>1. /\ stack[t] # <<>> /\ Top(t).at = "computed"
      /\ GoTo(t, "use") /\ "use" \in Places
  BY DEF Computed, Running, At, Places
<1>2. top \in Blocks /\ 1 \in DOMAIN stack[t] /\ Holds(t, top) /\ Computes(t, top)
  BY <1>1, TopOnly DEF Entry, Active
<1>3. /\ stack' \in [Threads -> Seq(Entry)]
      /\ \A u \in Threads : u # t => stack'[u] = stack[u]
      /\ DOMAIN stack'[t] = DOMAIN stack[t]
      /\ stack'[t][1] = [blk |-> top, at |-> "use"]
      /\ \A i \in DOMAIN stack[t] : i # 1 => stack'[t][i] = stack[t][i]
  BY <1>1, Moved
<1>4. EntryOK(t, Top(t))
  BY <1>2 DEF EntryInv, Top
<1>5. /\ m_inprogress' = m_inprogress \ {top}
      /\ sig' = [u \in Threads |-> sig[u] \/ u \in m_cond[top]]
      /\ UNCHANGED <<m_count, m_map, m_cond, full, next, oncpu, status, lastRead>>
  BY DEF Computed, SignalAll
<1>6. TypeInv'
  BY <1>3, <1>5 DEF TypeOK, Entry
<1>7. StackInv'
  BY <1>1, MovedKeeps
<1>8. ASSUME NEW u \in Threads, NEW b \in Blocks
      PROVE  /\ Holds(u, b)' <=> Holds(u, b)
             /\ Computes(u, b)' <=> Computes(u, b) /\ b # top
  <2>1. /\ Holds(u, b)' <=> IF u = t /\ b = top THEN "use" # "req" ELSE Holds(u, b)
        /\ Computes(u, b)' <=> IF u = t /\ b = top THEN "use" \in Active ELSE Computes(u, b)
    BY <1>1, MovedKeeps
  <2>2. Computes(u, top) => u = t
    BY <1>2 DEF OneComputes
  <2> QED
    BY <1>2, <2>1, <2>2 DEF Active
<1>9. OneComputes'
  BY <1>8 DEF OneComputes
<1>10. CountInv'
  <2> SUFFICES ASSUME NEW b \in Blocks
               PROVE  /\ m_count'[b] = Cardinality(Holders(b)') + (IF Lost(b)' THEN 1 ELSE 0)
                      /\ b \in m_map' <=> m_count'[b] > 0
                      /\ b \in m_map' => b \in m_inprogress' \cup full'
    BY DEF CountInv
  <2>1. \A u \in Threads : Holds(u, b)' <=> Holds(u, b)
    BY <1>8
  <2>2. Holders(b)' = Holders(b)
    BY <2>1 DEF Holders
  <2>3. Lost(b)' <=> Lost(b)
    BY <1>2, <1>5, <1>8 DEF Lost
  <2>4. top \in full
    BY <1>1, <1>4 DEF EntryOK, Given
  <2> QED
    BY <1>5, <2>2, <2>3, <2>4 DEF CountInv
<1>11. EntryInv'
  <2> SUFFICES ASSUME NEW u \in Threads, NEW i \in DOMAIN stack'[u]
               PROVE  EntryOK(u, stack[u][i])'
    BY DEF EntryInv
  <2>1. CASE u = t /\ i = 1
    BY <1>1, <1>3, <1>4, <1>5, <2>1 DEF EntryOK, Active, Given, Leaving, Waiting
  <2>2. CASE u = t /\ i # 1
    <3>1. stack'[t][i] = stack[t][i] /\ stack[t][i].at = "fill" /\ stack[t][i].blk # top
      BY <1>1, <1>3, <2>2, TopOnly
    <3>2. EntryOK(t, stack[t][i])
      BY <1>3, <2>2 DEF EntryInv
    <3> QED
      BY <1>5, <2>2, <3>1, <3>2 DEF EntryOK, Active, Given, Leaving, Waiting
  <2>3. CASE u # t
    <3>1. stack'[u][i] = stack[u][i] /\ i \in DOMAIN stack[u] /\ EntryOK(u, stack[u][i])
      BY <1>3, <2>3 DEF EntryInv
    <3>2. stack[u][i].blk \in Blocks
      <4>1. stack[u] \in Seq(Entry)
        BY DEF TypeOK, Entry
      <4>2. stack[u][i] \in Entry
        BY <3>1, <4>1, LenProperties, ElementOfSeq
      <4> QED
        BY <4>2 DEF Entry
    <3>3. stack[u][i].at \in Active => stack[u][i].blk # top
      <4>1. stack[u][i].at \in Active => Computes(u, stack[u][i].blk)
        BY <3>1 DEF Computes, Active
      <4> QED
        BY <1>2, <2>3, <3>2, <4>1 DEF OneComputes
    <3>4. CASE stack[u][i].at \in Waiting
      <4>1. u \in m_cond[stack[u][i].blk]
        BY <3>1, <3>4 DEF EntryOK
      <4>2. u \in m_cond[top] => stack[u][i].blk = top
        <5>1. u \in m_cond[top] => Top(u).blk = top
          BY <1>2 DEF CondInv
        <5>2. Top(u).blk = stack[u][i].blk
          BY <3>2, <4>1 DEF CondInv
        <5> QED
          BY <5>1, <5>2
      <4>3. sig'[u] <=> stack[u][i].blk \notin m_inprogress'
        BY <1>5, <3>1, <3>4, <4>1, <4>2 DEF EntryOK
      <4>4. sig'[u] => stack[u][i].blk \in full'
        <5>1. top \in full
          BY <1>1, <1>4 DEF EntryOK, Given
        <5> QED
          BY <1>5, <3>1, <3>4, <4>1, <4>2, <5>1 DEF EntryOK
      <4>5. u \in m_cond'[stack[u][i].blk]
        BY <1>5, <4>1
      <4> QED
        BY <3>1, <3>4, <4>3, <4>4, <4>5 DEF EntryOK, Active, Given, Leaving, Waiting
    <3>5. CASE stack[u][i].at \notin Waiting
      BY <1>5, <3>1, <3>3, <3>5 DEF EntryOK
    <3> QED
      BY <3>4, <3>5
  <2> QED
    BY <2>1, <2>2, <2>3
<1>12. CondInv'
  <2>1. \A b \in Blocks : t \notin m_cond[b]
    BY <1>1 DEF CondInv, Waiting, Leaving
  <2> QED
    BY <1>1, <1>5, <2>1, SameConds
<1>13. ReadsComplete'
  BY <1>5 DEF ReadsComplete
<1> QED
  BY <1>6, <1>7, <1>9, <1>10, <1>11, <1>12, <1>13

(* The first critical section of a request.  A block with no entry is new, *)
(* and one with an entry is either in progress or complete.                *)
LEMMA RequestKeeps ==
    ASSUME NEW t \in Threads, Inv, on_req_const_block(t)
    PROVE  Inv'
<1> USE DEF Inv, TypeInv
<1> DEFINE top == Top(t).blk
           newblock == NewBlock(top)
           waits == ~newblock /\ top \in m_inprogress
           p == IF newblock THEN "compute" ELSE IF waits THEN "release" ELSE "use"
<1>1. stack[t] # <<>> /\ Top(t).at = "req" /\ GoTo(t, p) /\ p \in Places
  BY DEF on_req_const_block, Running, At, Places
<1>2. top \in Blocks /\ 1 \in DOMAIN stack[t] /\ ~Holds(t, top) /\ ~Computes(t, top)
  BY <1>1, TopOnly DEF Entry, Active
<1>3. /\ m_count' = [m_count EXCEPT ![top] = @ + 1]
      /\ m_map' = m_map \cup {top}
      /\ m_inprogress' = IF newblock THEN m_inprogress \cup {top} ELSE m_inprogress
      /\ m_cond' = IF waits THEN [m_cond EXCEPT ![top] = @ \cup {t}] ELSE m_cond
      /\ sig' = [sig EXCEPT ![t] = FALSE]
      /\ UNCHANGED <<full, next, oncpu, status, lastRead>>
  BY DEF on_req_const_block
<1>4. /\ stack' \in [Threads -> Seq(Entry)]
      /\ stack'[t][1] = [blk |-> top, at |-> p]
  BY <1>1, Moved
<1>5. \A b \in Blocks : m_count[b] \in Nat
  BY DEF TypeOK
<1>6. newblock <=> m_count[top] = 0
  BY DEF NewBlock
<1> HIDE DEF p, newblock, top
<1>7. newblock => /\ \A u \in Threads : ~Holds(u, top) /\ ~Computes(u, top)
                  /\ ~Lost(top)
                  /\ top \notin m_inprogress
  <2> SUFFICES ASSUME newblock
               PROVE  /\ \A u \in Threads : ~Holds(u, top) /\ ~Computes(u, top)
                      /\ ~Lost(top)
                      /\ top \notin m_inprogress
    OBVIOUS
  <2>1. m_count[top] = Cardinality(Holders(top)) + (IF Lost(top) THEN 1 ELSE 0)
    BY <1>2 DEF CountInv
  <2>2. Cardinality(Holders(top)) \in Nat
    BY <1>2, HoldersFinite
  <2>3. Cardinality(Holders(top)) = 0 /\ ~Lost(top)
    BY <1>6, <2>1, <2>2
  <2>4. \A u \in Threads : ~Holds(u, top)
    BY <1>2, <2>2, <2>3, HoldersFinite
  <2>5. \A u \in Threads : ~Computes(u, top)
    BY <1>2, <2>4, ComputesHolds
  <2> QED
    BY <2>3, <2>4, <2>5 DEF Lost
<1>8. ~newblock /\ ~waits => top \in full /\ top \notin m_inprogress
  <2>1. ~newblock => m_count[top] > 0
    BY <1>2, <1>5, <1>6
  <2> QED
    BY <1>2, <2>1 DEF CountInv
<1>9. /\ m_inprogress \subseteq m_inprogress'
      /\ m_cond' \in [Blocks -> SUBSET Threads]
      /\ \A u \in Threads, b \in Blocks : u \in m_cond[b] => u \in m_cond'[b]
      /\ \A u \in Threads, b \in Blocks : u \in m_cond'[b] =>
            u \in m_cond[b] \/ (u = t /\ b = top /\ waits)
  BY <1>2, <1>3 DEF TypeOK
<1>10. TypeInv'
  <2>1. m_count' \in [Blocks -> Nat]
    BY <1>2, <1>3, <1>5 DEF TypeOK
  <2>2. m_inprogress' \subseteq Blocks /\ m_map' \subseteq Blocks
    BY <1>2, <1>3 DEF TypeOK
  <2>3. sig' \in [Threads -> BOOLEAN]
    BY <1>3 DEF TypeOK
  <2>4. UNCHANGED oncpu
    BY <1>3
  <2> QED
    BY <1>3, <1>4, <1>9, <2>1, <2>2, <2>3, <2>4, SameCpus DEF TypeOK, Entry
<1>11. StackInv'
  BY <1>1, MovedKeeps
<1>12. p # "req" /\ (p \in Active <=> newblock) /\ (p \in Waiting <=> waits)
       /\ (p \in Given <=> ~newblock /\ ~waits) /\ p # "computed"
  BY DEF p, Active, Waiting, Given, Leaving
<1>13. ASSUME NEW u \in Threads, NEW b \in Blocks
       PROVE  /\ Holds(u, b)' <=> Holds(u, b) \/ (u = t /\ b = top)
              /\ Computes(u, b)' <=> Computes(u, b) \/ (u = t /\ b = top /\ newblock)
  <2>1. /\ Holds(u, b)' <=> IF u = t /\ b = top THEN p # "req" ELSE Holds(u, b)
        /\ Computes(u, b)' <=> IF u = t /\ b = top THEN p \in Active ELSE Computes(u, b)
    BY <1>1, MovedKeeps DEF top
  <2> QED
    BY <1>2, <1>12, <2>1
<1>14. OneComputes'
  BY <1>7, <1>13 DEF OneComputes
<1>15. CountInv'
  <2> SUFFICES ASSUME NEW b \in Blocks
               PROVE  /\ m_count'[b] = Cardinality(Holders(b)') + (IF Lost(b)' THEN 1 ELSE 0)
                      /\ b \in m_map' <=> m_count'[b] > 0
                      /\ b \in m_map' => b \in m_inprogress' \cup full'
    BY DEF CountInv
  <2>1. CASE b # top
    <3>1. \A u \in Threads : Holds(u, b)' <=> Holds(u, b)
      BY <1>13, <2>1
    <3>2. Holders(b)' = Holders(b)
      BY <3>1 DEF Holders
    <3>3. Lost(b)' <=> Lost(b)
      BY <1>3, <1>13, <2>1 DEF Lost
    <3>4. m_count'[b] = m_count[b] /\ (b \in m_map' <=> b \in m_map)
      BY <1>3, <2>1 DEF TypeOK
    <3> QED
      BY <1>3, <1>9, <3>2, <3>3, <3>4 DEF CountInv
  <2>2. CASE b = top
    <3>1. \A u \in Threads : Holds(u, b)' <=> Holds(u, b) \/ u = t
      BY <1>13, <2>2
    <3>2. Holders(b)' = Holders(b) \cup {t} /\ t \notin Holders(b)
      BY <1>2, <2>2, <3>1 DEF Holders
    <3>3. IsFiniteSet(Holders(b)) /\ Cardinality(Holders(b)) \in Nat
      BY HoldersFinite
    <3>4. Cardinality(Holders(b)') = Cardinality(Holders(b)) + 1
      BY <3>2, <3>3, FS_AddElement
    <3>5. Lost(b)' <=> Lost(b)
      BY <1>2, <1>3, <1>7, <1>13, <2>2 DEF Lost
    <3>6. m_count'[b] = m_count[b] + 1 /\ b \in m_map'
      BY <1>3, <2>2 DEF TypeOK
    <3>7. m_count[b] = Cardinality(Holders(b)) + (IF Lost(b) THEN 1 ELSE 0)
      BY DEF CountInv
    <3>8. m_count'[b] = Cardinality(Holders(b)') + (IF Lost(b)' THEN 1 ELSE 0)
      <4>1. CASE Lost(b)
        BY <3>3, <3>4, <3>5, <3>6, <3>7, <4>1
      <4>2. CASE ~Lost(b)
        BY <3>3, <3>4, <3>5, <3>6, <3>7, <4>2
      <4> QED
        BY <4>1, <4>2
    <3>9. m_count'[b] > 0
      BY <1>5, <3>6
    <3>10. b \in m_inprogress' \cup full'
      BY <1>3, <1>8, <1>9, <2>2
    <3> QED
      BY <3>6, <3>8, <3>9, <3>10
  <2> QED
    BY <2>1, <2>2
<1>16. EntryInv'
  <2>1. EntryOK(t, stack[t][1])'
    <3>1. sig'[t] = FALSE /\ (waits => t \in m_cond'[top])
      BY <1>2, <1>3 DEF TypeOK
    <3> QED
      BY <1>3, <1>4, <1>7, <1>8, <1>12, <3>1 DEF EntryOK
  <2>2. ASSUME NEW u \in Threads, NEW i \in DOMAIN stack[u], u # t, stack[u][i].at \in Given \cup Waiting
        PROVE  stack[u][i].blk \in m_inprogress' <=> stack[u][i].blk \in m_inprogress
    <3>1. stack[u][i].at # "req"
      BY <2>2 DEF Given, Waiting, Leaving
    <3>2. Holds(u, stack[u][i].blk)
      BY <3>1 DEF Holds
    <3>3. newblock => stack[u][i].blk # top
      BY <1>7, <3>2
    <3> QED
      BY <1>3, <3>3
  <2>3. \A u \in Threads : u # t => sig'[u] = sig[u]
    BY <1>3 DEF TypeOK
  <2>4. full \subseteq full'
    BY <1>3
  <2> QED
    BY <1>1, <1>9, <2>1, <2>2, <2>3, <2>4, OtherEntries
<1>17. CondInv'
  <2>1. \A b \in Blocks : t \notin m_cond[b]
    BY <1>1 DEF CondInv, Waiting, Leaving
  <2> QED
    BY <1>1, <1>9, <1>12, <2>1, SameConds DEF top
<1>18. ReadsComplete'
  BY <1>3 DEF ReadsComplete
<1> QED
  BY <1>10, <1>11, <1>14, <1>15, <1>16, <1>17, <1>18

(* compute_block throws: all the thread computes is lost. *)
LEMMA FailKeeps ==
    ASSUME NEW t \in Threads, Inv, ComputeFails(t)
    PROVE  Inv'
<1> USE DEF Inv, TypeInv
<1>1. stack[t] # <<>> /\ Top(t).at \in {"compute", "fill"}
  BY DEF ComputeFails, Running, At
<1>2. /\ stack' = [stack EXCEPT ![t] = <<>>] /\ oncpu' = oncpu \ {t}
      /\ status' = [status EXCEPT ![t] = "threw"]
      /\ UNCHANGED <<m_count, m_inprogress, m_map, m_cond, sig, full, next, lastRead>>
  BY DEF ComputeFails, tensor
<1>3. /\ stack' \in [Threads -> Seq(Entry)]
      /\ stack'[t] = <<>> /\ DOMAIN stack'[t] = {}
      /\ \A u \in Threads : u # t => stack'[u] = stack[u]
  <2>1. <<>> \in Seq(Entry) /\ DOMAIN <<>> = {}
    BY EmptySeq
  <2> QED
    BY <1>2, <2>1 DEF TypeOK, Entry
<1>4. IsFiniteSet(oncpu') /\ Cardinality(oncpu') <= NCpus /\ oncpu' \subseteq Threads
  BY <1>2, CpuKeeps
<1>5. TypeInv'
  BY <1>2, <1>3, <1>4 DEF TypeOK, Entry
<1>6. StackInv'
  BY <1>3 DEF StackInv
<1>7. EntryInv'
  <2> SUFFICES ASSUME NEW u \in Threads, NEW i \in DOMAIN stack'[u]
               PROVE  EntryOK(u, stack[u][i])'
    BY DEF EntryInv
  <2>1. u # t
    BY <1>3
  <2> QED
    BY <1>2, <1>3, <2>1 DEF EntryInv, EntryOK
<1>8. CondInv'
  <2>1. \A b \in Blocks : t \notin m_cond[b]
    BY <1>1 DEF CondInv, Waiting, Leaving
  <2> QED
    BY <1>2, <1>3, <2>1 DEF CondInv, Top
<1>9. \A u \in Threads, b \in Blocks :
        u # t => (Holds(u, b)' <=> Holds(u, b)) /\ (Computes(u, b)' <=> Computes(u, b))
  BY <1>3 DEF Holds, Computes
<1>10. \A b \in Blocks : ~Holds(t, b)' /\ ~Computes(t, b)'
  BY <1>3 DEF Holds, Computes
<1>11. ASSUME NEW b \in Blocks, Holds(t, b) PROVE Computes(t, b)
  <2>1. PICK i \in DOMAIN stack[t] : stack[t][i].blk = b
    BY <1>11 DEF Holds
  <2>2. stack[t][i].at \in {"compute", "fill"}
    BY <1>1, TopOnly DEF Top
  <2> QED
    BY <2>1, <2>2 DEF Computes
<1>12. OneComputes'
  BY <1>9, <1>10 DEF OneComputes
<1>13. CountInv'
  <2> SUFFICES ASSUME NEW b \in Blocks
               PROVE  m_count[b] = Cardinality(Holders(b)') + (IF Lost(b)' THEN 1 ELSE 0)
    BY <1>2 DEF CountInv
  <2>1. m_count[b] = Cardinality(Holders(b)) + (IF Lost(b) THEN 1 ELSE 0)
    BY DEF CountInv
  <2>2. IsFiniteSet(Holders(b)) /\ Cardinality(Holders(b)) \in Nat
    BY HoldersFinite
  <2>3. CASE Holds(t, b)
    <3>1. Computes(t, b)
      BY <1>11, <2>3
    <3>2. b \in m_inprogress
      BY <3>1 DEF Computes, EntryInv, EntryOK, Active
    <3>3. ~Lost(b)
      BY <3>1 DEF Lost
    <3>4. \A u \in Threads : ~Computes(u, b)'
      BY <1>9, <1>10, <3>1 DEF OneComputes
    <3>5. Lost(b)'
      BY <1>2, <3>2, <3>4 DEF Lost
    <3>6. t \in Holders(b)
      BY <2>3 DEF Holders
    <3>7. \A u \in Threads : Holds(u, b)' <=> Holds(u, b) /\ u # t
      BY <1>9, <1>10
    <3>8. Holders(b)' = Holders(b) \ {t}
      BY <3>7 DEF Holders
    <3>9. Cardinality(Holders(b)') = Cardinality(Holders(b)) - 1
      BY <2>2, <3>6, <3>8, FS_RemoveElement
    <3> QED
      BY <2>1, <2>2, <3>3, <3>5, <3>9
  <2>4. CASE ~Holds(t, b)
    <3>1. ~Computes(t, b)
      BY <2>4, ComputesHolds
    <3>2. \A u \in Threads : (Holds(u, b)' <=> Holds(u, b)) /\ (Computes(u, b)' <=> Computes(u, b))
      BY <1>9, <1>10, <2>4, <3>1
    <3>3. Holders(b)' = Holders(b)
      BY <3>2 DEF Holders
    <3>4. Lost(b)' <=> Lost(b)
      BY <1>2, <3>2 DEF Lost
    <3> QED
      BY <2>1, <3>3, <3>4
  <2> QED
    BY <2>3, <2>4
<1>14. ReadsComplete'
  BY <1>2 DEF ReadsComplete
<1> QED
  BY <1>5, <1>6, <1>7, <1>8, <1>12, <1>13, <1>14

(* A block is returned; the last user removes it. *)
LEMMA ReturnKeeps ==
    ASSUME NEW t \in Threads, Inv, on_ret_const_block(t)
    PROVE  Inv'
<1> USE DEF Inv, TypeInv
<1> DEFINE top == Top(t).blk
           last == m_count[top] - 1 = 0
<1>1. stack[t] # <<>> /\ Top(t).at = "ret"
  BY DEF on_ret_const_block, Running, At
<1>2. top \in Blocks /\ 1 \in DOMAIN stack[t] /\ Holds(t, top) /\ ~Computes(t, top)
  BY <1>1, TopOnly DEF Entry, Active
<1>3. /\ m_count' = [m_count EXCEPT ![top] = @ - 1]
      /\ IF last THEN m_map' = m_map \ {top} /\ full' = full \ {top}
                 ELSE UNCHANGED <<m_map, full>>
      /\ stack' = [stack EXCEPT ![t] = Tail(@)]
      /\ next' = IF Len(stack[t]) = 1 THEN [next EXCEPT ![t] = @ + 1] ELSE next
      /\ UNCHANGED <<m_inprogress, m_cond, sig, oncpu, status, lastRead>>
  BY DEF on_ret_const_block, LastUser
<1>4. /\ stack' \in [Threads -> Seq(Entry)]
      /\ \A u \in Threads : u # t => stack'[u] = stack[u]
      /\ Len(stack[t]) \in Nat \ {0} /\ DOMAIN stack[t] = 1..Len(stack[t])
      /\ DOMAIN stack'[t] = 1..(Len(stack[t]) - 1)
      /\ \A i \in 1..(Len(stack[t]) - 1) : stack'[t][i] = stack[t][i + 1]
  BY <1>1, <1>3, Popped
<1>5. EntryOK(t, Top(t))
  BY <1>2 DEF EntryInv, Top
<1>6. top \notin m_inprogress /\ top \in full
  BY <1>1, <1>5 DEF EntryOK, Given
<1>7. /\ m_count[top] = Cardinality(Holders(top)) /\ m_count[top] \in Nat /\ m_count[top] > 0
      /\ top \in m_map
  <2>1. ~Lost(top)
    BY <1>6 DEF Lost
  <2>2. Cardinality(Holders(top)) > 0 /\ Cardinality(Holders(top)) \in Nat
    BY <1>2, HoldersFinite
  <2> QED
    BY <1>2, <2>1, <2>2 DEF CountInv
<1> HIDE DEF top, last
<1>8. ASSUME NEW i \in DOMAIN stack'[t]
      PROVE  /\ i + 1 \in DOMAIN stack[t] /\ i + 1 > 1 /\ i \in Nat
             /\ stack'[t][i] = stack[t][i + 1]
             /\ stack'[t][i].at = "fill" /\ stack'[t][i].blk # top
  <2>1. i + 1 \in DOMAIN stack[t] /\ i + 1 # 1 /\ i + 1 > 1 /\ i \in Nat
    BY <1>4
  <2>2. stack'[t][i] = stack[t][i + 1]
    BY <1>4
  <2> QED
    BY <1>1, <2>1, <2>2, TopOnly DEF top
<1>9. ASSUME NEW i \in DOMAIN stack[t], i # 1
      PROVE  i - 1 \in DOMAIN stack'[t] /\ stack'[t][i - 1] = stack[t][i]
  <2>1. i - 1 \in 1..(Len(stack[t]) - 1) /\ (i - 1) + 1 = i
    BY <1>4, <1>9
  <2> QED
    BY <1>4, <2>1
<1>10. TypeInv'
  <2>1. m_count' \in [Blocks -> Nat]
    BY <1>2, <1>3, <1>7 DEF TypeOK
  <2>2. m_map' \subseteq Blocks /\ full' \subseteq Blocks
    BY <1>3 DEF TypeOK
  <2>3. next' \in [Threads -> Nat]
    BY <1>3 DEF TypeOK
  <2> QED
    BY <1>3, <1>4, <2>1, <2>2, <2>3, SameCpus DEF TypeOK, Entry
<1>11. StackInv'
  <2> SUFFICES ASSUME NEW u \in Threads, NEW i \in DOMAIN stack'[u]
               PROVE  /\ i > 1 => stack'[u][i].at = "fill"
                      /\ \A j \in DOMAIN stack'[u] :
                            i < j => level[stack'[u][i].blk] < level[stack'[u][j].blk]
    BY DEF StackInv
  <2>1. CASE u # t
    BY <1>4, <2>1 DEF StackInv
  <2>2. CASE u = t
    <3>1. ASSUME NEW j \in DOMAIN stack'[u], i < j
          PROVE  level[stack'[u][i].blk] < level[stack'[u][j].blk]
      <4>1. i + 1 \in DOMAIN stack[t] /\ j + 1 \in DOMAIN stack[t] /\ i + 1 < j + 1
        BY <1>8, <2>2, <3>1
      <4>2. level[stack[t][i + 1].blk] < level[stack[t][j + 1].blk]
        BY <4>1 DEF StackInv
      <4> QED
        BY <1>8, <2>2, <4>2
    <3> QED
      BY <1>8, <2>2, <3>1
  <2> QED
    BY <2>1, <2>2
<1>12. ASSUME NEW u \in Threads, NEW b \in Blocks
       PROVE  /\ Holds(u, b)' <=> Holds(u, b) /\ ~(u = t /\ b = top)
              /\ Computes(u, b)' <=> Computes(u, b)
  <2>1. CASE u # t
    BY <1>4, <2>1 DEF Holds, Computes
  <2>2. CASE u = t /\ b = top
    BY <1>2, <1>8, <2>2 DEF Holds, Computes
  <2>3. CASE u = t /\ b # top
    <3>1. \A i \in DOMAIN stack[t] : stack[t][i].blk = b => i # 1
      BY <2>3 DEF top, Top
    <3>2. Holds(t, b) => Holds(t, b)'
      BY <1>9, <3>1 DEF Holds
    <3>3. Computes(t, b) => Computes(t, b)'
      BY <1>9, <3>1 DEF Computes
    <3>4. Holds(t, b)' => Holds(t, b)
      BY <1>8 DEF Holds
    <3>5. Computes(t, b)' => Computes(t, b)
      BY <1>8 DEF Computes
    <3> QED
      BY <2>3, <3>2, <3>3, <3>4, <3>5
  <2> QED
    BY <2>1, <2>2, <2>3
<1>13. OneComputes'
  BY <1>12 DEF OneComputes
<1>14. \A b \in Blocks : Lost(b)' <=> Lost(b)
  BY <1>3, <1>12 DEF Lost
<1>15. ASSUME NEW b \in Blocks, b # top PROVE Holders(b)' = Holders(b)
  <2>1. \A u \in Threads : Holds(u, b)' <=> Holds(u, b)
    BY <1>12, <1>15
  <2> QED
    BY <2>1 DEF Holders
<1>16. ASSUME NEW b \in Blocks, b = top
       PROVE  /\ Cardinality(Holders(b)') = m_count[top] - 1
              /\ \A u \in Threads : u # t /\ Holds(u, b) => ~last
  <2>1. \A u \in Threads : Holds(u, b)' <=> Holds(u, b) /\ u # t
    BY <1>12, <1>16
  <2>2. Holders(b)' = Holders(b) \ {t} /\ t \in Holders(b)
    BY <1>2, <1>16, <2>1 DEF Holders
  <2>3. IsFiniteSet(Holders(b))
    BY HoldersFinite
  <2>4. /\ Cardinality(Holders(b)') = Cardinality(Holders(b)) - 1
        /\ IsFiniteSet(Holders(b)')
    BY <2>2, <2>3, FS_RemoveElement
  <2>5. ASSUME NEW u \in Threads, u # t, Holds(u, b) PROVE Cardinality(Holders(b)') # 0
    <3>1. u \in Holders(b)'
      BY <2>2, <2>5 DEF Holders
    <3> QED
      BY <2>4, <3>1, FS_EmptySet
  <2> QED
    BY <1>7, <1>16, <2>4, <2>5 DEF last
<1>17. CountInv'
  <2> SUFFICES ASSUME NEW b \in Blocks
               PROVE  /\ m_count'[b] = Cardinality(Holders(b)') + (IF Lost(b)' THEN 1 ELSE 0)
                      /\ b \in m_map' <=> m_count'[b] > 0
                      /\ b \in m_map' => b \in m_inprogress' \cup full'
    BY DEF CountInv
  <2>1. CASE b # top
    <3>1. m_count'[b] = m_count[b] /\ (b \in m_map' <=> b \in m_map) /\ (b \in full' <=> b \in full)
      BY <1>3, <2>1 DEF TypeOK
    <3> QED
      BY <1>3, <1>14, <1>15, <2>1, <3>1 DEF CountInv
  <2>2. CASE b = top
    <3>1. m_count'[b] = m_count[top] - 1
      BY <1>2, <1>3, <2>2 DEF TypeOK
    <3>2. ~Lost(b)'
      BY <1>3, <1>6, <2>2 DEF Lost
    <3>3. Cardinality(Holders(b)') = m_count[top] - 1
      BY <1>16, <2>2
    <3>4. b \in m_map' <=> ~last
      BY <1>3, <1>7, <2>2
    <3>5. ~last <=> m_count[top] - 1 > 0
      BY <1>7 DEF last
    <3>6. ~last => b \in full'
      BY <1>3, <1>6, <2>2
    <3> QED
      BY <1>7, <3>1, <3>2, <3>3, <3>4, <3>5, <3>6
  <2> QED
    BY <2>1, <2>2
<1>18. EntryInv'
  <2> SUFFICES ASSUME NEW u \in Threads, NEW i \in DOMAIN stack'[u]
               PROVE  EntryOK(u, stack[u][i])'
    BY DEF EntryInv
  <2>1. CASE u # t
    <3>1. stack'[u][i] = stack[u][i] /\ i \in DOMAIN stack[u] /\ EntryOK(u, stack[u][i])
      BY <1>4, <2>1 DEF EntryInv
    <3>2. stack[u][i].blk = top /\ stack[u][i].at # "req" => top \in full'
      <4>1. stack[u][i].blk = top /\ stack[u][i].at # "req" => Holds(u, top)
        BY <3>1 DEF Holds
      <4>2. Holds(u, top) => ~last
        BY <1>2, <1>16, <2>1
      <4> QED
        BY <1>3, <1>6, <4>1, <4>2
    <3>3. stack[u][i].at # "req" /\ stack[u][i].blk \in full => stack[u][i].blk \in full'
      BY <1>3, <3>2
    <3> QED
      BY <1>3, <3>1, <3>3 DEF EntryOK, Given, Leaving, Waiting
  <2>2. CASE u = t
    <3>1. /\ i + 1 \in DOMAIN stack[t]
          /\ stack'[t][i] = stack[t][i + 1] /\ stack'[t][i].at = "fill"
      BY <1>8, <2>2
    <3>2. EntryOK(t, stack[t][i + 1])
      BY <3>1 DEF EntryInv
    <3> QED
      BY <1>3, <2>2, <3>1, <3>2 DEF EntryOK, Active, Given, Leaving, Waiting
  <2> QED
    BY <2>1, <2>2
<1>19. CondInv'
  <2>1. \A b \in Blocks : t \notin m_cond[b]
    BY <1>1 DEF CondInv, Waiting, Leaving
  <2> QED
    BY <1>3, <1>4, <2>1 DEF CondInv, Top
<1>20. ReadsComplete'
  BY <1>3 DEF ReadsComplete
<1> QED
  BY <1>10, <1>11, <1>13, <1>17, <1>18, <1>19, <1>20

(* Every step keeps the invariant.                                         *)
LEMMA NextInv == Inv /\ [Next]_vars => Inv'
<1> SUFFICES ASSUME Inv, [Next]_vars PROVE Inv'
  OBVIOUS
<1>1. ASSUME NEW t \in Threads, Step(t) PROVE Inv'
  <2>1. CASE RequestNext(t)
    <3>1. /\ stack[t] = <<>> /\ next[t] < Len(List[t]) /\ next[t] \in Nat
          /\ Push(t, List[t][next[t] + 1], "none")
          /\ UNCHANGED <<tensor, next, oncpu, status, lastRead>>
      BY <2>1 DEF RequestNext, Inv, TypeInv, TypeOK
    <3>2. List[t][next[t] + 1] \in Blocks
      <4>1. List[t] \in Seq(Blocks)
        BY ListAssumption
      <4>2. Len(List[t]) \in Nat
        BY <4>1, LenProperties
      <4>3. next[t] + 1 \in 1..Len(List[t])
        BY <3>1, <4>2
      <4> QED
        BY <4>1, <4>3, ElementOfSeq
    <3> QED
      BY <3>1, <3>2, PushKeeps DEF Places
  <2>2. CASE ComputeNested(t)
    <3>1. /\ stack[t] # <<>> /\ Top(t).at = "compute" /\ Dep[Top(t).blk] # NoBlock
          /\ Push(t, Dep[Top(t).blk], "fill")
          /\ UNCHANGED <<tensor, next, oncpu, status, lastRead>>
      BY <2>2 DEF ComputeNested, Running, At
    <3>2. Top(t).blk \in Blocks
      BY <3>1, TopOnly DEF Inv, TypeInv, Entry
    <3>3. Dep[Top(t).blk] \in Blocks
      BY <3>1, <3>2, LevelType
    <3> QED
      BY <3>1, <3>3, PushKeeps DEF Places
  <2> QED
    BY <1>1, <2>1, <2>2, TaskKeeps, RequestKeeps, FillKeeps, FailKeeps, ComputedKeeps,
       ReleaseKeeps, WakeUpKeeps, AcquireKeeps, EraseKeeps, UseKeeps, ReturnKeeps DEF Step
<1>2. CASE UNCHANGED vars
  <2>1. UNCHANGED <<tensor, stack, next, oncpu, status, lastRead>>
    BY <1>2 DEF vars
  <2>2. TypeInv' /\ StackInv' /\ EntryInv' /\ CondInv' /\ ReadsComplete'
    BY <2>1 DEF Inv, TypeInv, TypeOK, StackInv, EntryInv, EntryOK, CondInv, Top,
                ReadsComplete, tensor
  <2>3. \A u \in Threads, b \in Blocks : /\ Holds(u, b)' <=> Holds(u, b)
                                         /\ Computes(u, b)' <=> Computes(u, b)
    BY <2>1 DEF Holds, Computes
  <2>4. OneComputes' /\ CountInv'
    BY <2>1, <2>3, SameCounts DEF tensor, Inv
  <2> QED
    BY <2>2, <2>4 DEF Inv
<1> QED
  BY <1>1, <1>2 DEF Next, Ended

(* The invariant holds in every reachable state.                           *)
LEMMA Invariance == Spec => []Inv
<1> QED
  BY InitInv, NextInv, PTL DEF Spec

-----------------------------------------------------------------------------
(* Every read of every thread sees a block that is in the map and whose    *)
(* computation has ended, whoever computed it and whoever returned it      *)
(* meanwhile.                                                              *)
THEOREM ReadsAreComplete == Spec => []ReadsComplete
<1>1. Inv => ReadsComplete
  BY DEF Inv
<1> QED
  BY <1>1, Invariance, PTL

(* One thread at a time computes a block, the count of a block is the      *)
(* number of threads that hold it, and the block is in the map while and   *)
(* only while it is counted, unless its computation threw.                 *)
THEOREM CountsAreExact == Spec => []CountsRequests
<1>1. Inv => CountsRequests
  <2> SUFFICES ASSUME Inv, NEW b \in Blocks, ~Lost(b)
               PROVE  /\ Cardinality({t \in Threads : Computes(t, b)}) <= 1
                      /\ m_count[b] = Cardinality({t \in Threads : Holds(t, b)})
                      /\ b \in m_map <=> m_count[b] > 0
    BY DEF CountsRequests, Inv, TypeInv
  <2> DEFINE S == {t \in Threads : Computes(t, b)}
  <2>1. Cardinality(S) <= 1
    <3>1. CASE S = {}
      BY <3>1, FS_EmptySet
    <3>2. CASE S # {}
      <4>1. PICK t \in Threads : Computes(t, b)
        BY <3>2
      <4>2. S = {t}
        BY <4>1 DEF Inv, OneComputes
      <4> QED
        BY <4>2, FS_Singleton
    <3> QED
      BY <3>1, <3>2
  <2>2. m_count[b] = Cardinality(Holders(b)) + 0 /\ (b \in m_map <=> m_count[b] > 0)
    BY DEF Inv, CountInv
  <2>3. m_count[b] = Cardinality(Holders(b))
    BY <2>2, HoldersFinite
  <2> QED
    BY <2>1, <2>2, <2>3 DEF Holders
<1> QED
  BY <1>1, Invariance, PTL

(* A thread that waits for a block has been signalled, or the block is in  *)
(* progress and the thread's cond is under its key: no signal is missed    *)
(* between the critical section and the sleep.                             *)
THEOREM SleepersHaveWakers == Spec => []SleeperHasWaker
<1>1. Inv => SleeperHasWaker
  <2> SUFFICES ASSUME Inv, NEW t \in Threads, stack[t] # <<>>, Top(t).at \in {"release", "sleep"}
               PROVE  sig[t] \/ (Top(t).blk \in m_inprogress /\ t \in m_cond[Top(t).blk])
    BY DEF SleeperHasWaker
  <2>1. 1 \in DOMAIN stack[t]
    BY TopOnly DEF Inv, TypeInv
  <2>2. EntryOK(t, Top(t))
    BY <2>1 DEF Inv, EntryInv, Top
  <2> QED
    BY <2>2 DEF EntryOK, Waiting
<1> QED
  BY <1>1, Invariance, PTL
=============================================================================
