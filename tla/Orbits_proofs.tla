---------------------------- MODULE Orbits_proofs ----------------------------
(***************************************************************************)
(* The orbit algorithms compute orbits, for any finite set of indexes and  *)
(* any symmetries.                                                         *)
(***************************************************************************)
EXTENDS Orbits, Functions, Loops_proofs

-----------------------------------------------------------------------------
(* Orbits *)

(* An orbit is the least closed set that holds the index.                  *)
LEMMA OrbitLeast ==
    ASSUME NEW sym, sym \subseteq [Idx -> Idx], NEW i \in Idx
    PROVE  /\ OrbitOf(sym, i) \subseteq Idx
           /\ i \in OrbitOf(sym, i)
           /\ Closed(sym, OrbitOf(sym, i))
           /\ \A s \in SUBSET Idx : i \in s /\ Closed(sym, s) => OrbitOf(sym, i) \subseteq s
<1>1. \A g \in sym, j \in Idx : g[j] \in Idx
  OBVIOUS
<1> QED
  BY <1>1 DEF OrbitOf, Closed

(* More generators, larger orbits.                                         *)
LEMMA OrbitMore ==
    ASSUME NEW sym, NEW more, sym \subseteq more, more \subseteq [Idx -> Idx], NEW i \in Idx
    PROVE  OrbitOf(sym, i) \subseteq OrbitOf(more, i)
<1>1. /\ OrbitOf(more, i) \in SUBSET Idx /\ i \in OrbitOf(more, i)
      /\ Closed(more, OrbitOf(more, i))
  BY OrbitLeast
<1>2. Closed(sym, OrbitOf(more, i))
  BY <1>1 DEF Closed
<1> QED
  BY <1>1, <1>2, OrbitLeast

(* A permutation that maps a finite set into itself maps nothing else      *)
(* there.                                                                  *)
LEMMA ClosedOutside ==
    ASSUME NEW g \in Bijection(Idx, Idx), NEW S \in SUBSET Idx,
           \A j \in S : g[j] \in S, NEW x \in Idx, g[x] \in S
    PROVE  x \in S
<1> DEFINE h == [j \in S |-> g[j]]
<1>1. g \in [Idx -> Idx] /\ \A a, b \in Idx : g[a] = g[b] => a = b
  BY DEF Bijection, Injection, IsInjective
<1>2. IsFiniteSet(S)
  BY IdxAssumption, FS_Subset
<1>3. h \in Injection(S, S)
  BY <1>1 DEF Injection, IsInjective
<1>4. h \in Surjection(S, S)
  BY <1>2, <1>3, FS_Injection
<1>5. PICK y \in S : h[y] = g[x]
  BY <1>4 DEF Surjection
<1> QED
  BY <1>1, <1>5

(* The orbits of permutations partition the indexes.                       *)
LEMMA SameOrbit ==
    ASSUME NEW sym, sym \subseteq Bijection(Idx, Idx), NEW i \in Idx, NEW j \in OrbitOf(sym, i)
    PROVE  j \in Idx /\ OrbitOf(sym, j) = OrbitOf(sym, i)
<1>1. sym \subseteq [Idx -> Idx]
  BY DEF Bijection, Injection
<1>2. OrbitOf(sym, i) \in SUBSET Idx /\ Closed(sym, OrbitOf(sym, i)) /\ i \in OrbitOf(sym, i)
  BY <1>1, OrbitLeast
<1>3. j \in Idx
  BY <1>2
<1>4. OrbitOf(sym, j) \in SUBSET Idx /\ Closed(sym, OrbitOf(sym, j)) /\ j \in OrbitOf(sym, j)
  BY <1>1, <1>3, OrbitLeast
<1>5. OrbitOf(sym, j) \subseteq OrbitOf(sym, i)
  BY <1>1, <1>2, <1>3, OrbitLeast
<1>6. i \in OrbitOf(sym, j)
  <2>1. SUFFICES ASSUME i \notin OrbitOf(sym, j) PROVE FALSE
    OBVIOUS
  <2> DEFINE S == Idx \ OrbitOf(sym, j)
  <2>2. ASSUME NEW g \in sym, NEW x \in S PROVE g[x] \in S
    <3>1. g \in Bijection(Idx, Idx) /\ g[x] \in Idx
      BY <1>1
    <3>2. \A k \in OrbitOf(sym, j) : g[k] \in OrbitOf(sym, j)
      BY <1>4 DEF Closed
    <3> QED
      BY <1>4, <3>1, <3>2, ClosedOutside
  <2>3. S \in SUBSET Idx /\ i \in S /\ Closed(sym, S)
    BY <2>1, <2>2 DEF Closed
  <2>4. OrbitOf(sym, i) \subseteq S
    BY <1>1, <2>3, OrbitLeast
  <2> QED
    BY <1>4, <2>4
<1>7. OrbitOf(sym, i) \subseteq OrbitOf(sym, j)
  BY <1>1, <1>4, <1>6, OrbitLeast
<1> QED
  BY <1>3, <1>5, <1>7

(* An orbit has one canonical index.                                       *)
LEMMA OneCanonical ==
    ASSUME NEW sym, sym \subseteq Bijection(Idx, Idx), NEW i \in Idx, NEW j \in Idx,
           Canonical(sym, i), Canonical(sym, j),
           NEW c \in OrbitOf(sym, i) \cap OrbitOf(sym, j)
    PROVE  i = j
<1>1. OrbitOf(sym, i) = OrbitOf(sym, j)
  BY SameOrbit
<1>2. sym \subseteq [Idx -> Idx]
  BY DEF Bijection, Injection
<1>3. i \in OrbitOf(sym, i) /\ j \in OrbitOf(sym, j)
  BY <1>2, OrbitLeast
<1>4. i <= j /\ j <= i
  BY <1>1, <1>3 DEF Canonical
<1> QED
  BY <1>4, IdxAssumption

-----------------------------------------------------------------------------
(* build_orbit *)

Visits == [v : SUBSET Idx, q : SUBSET Idx]
VisitLoop(sym) ==
    CHOOSE visit : visit = [x \in [v : SUBSET Idx, q : SUBSET Idx] |->
        IF x.q = {} THEN x.v ELSE visit[Visit(sym, x)]]

Taken(x) == CHOOSE i \in x.q : TRUE
Unseen(sym, x) == {g[Taken(x)] : g \in sym} \ x.v

(* One turn of the loop of build_orbit: what an index of the queue is      *)
(* mapped to is visited and queued.                                        *)
LEMMA VisitStep ==
    ASSUME NEW sym, sym \subseteq [Idx -> Idx], NEW x \in Visits, x.q # {}
    PROVE  /\ Visit(sym, x) \in Visits
           /\ Taken(x) \in x.q /\ Unseen(sym, x) \in SUBSET Idx
           /\ Visit(sym, x).v = x.v \cup Unseen(sym, x)
           /\ Visit(sym, x).q = (x.q \ {Taken(x)}) \cup Unseen(sym, x)
<1>1. Taken(x) \in x.q
  BY DEF Taken
<1>2. x.q \in SUBSET Idx /\ x.v \in SUBSET Idx
  BY DEF Visits
<1>3. \A g \in sym : g[Taken(x)] \in Idx
  BY <1>1, <1>2
<1>4. Unseen(sym, x) \in SUBSET Idx
  BY <1>3 DEF Unseen
<1>5. Visit(sym, x) = [v |-> x.v \cup Unseen(sym, x), q |-> (x.q \ {Taken(x)}) \cup Unseen(sym, x)]
  BY DEF Visit, Taken, Unseen
<1>6. Visit(sym, x) \in Visits
  BY <1>2, <1>4, <1>5 DEF Visits
<1> QED
  BY <1>1, <1>4, <1>5, <1>6

VisitEnd == {x \in Visits : x.q = {}}
VisitNext(sym) == [x \in Visits |-> IF x.q = {} THEN x ELSE Visit(sym, x)]
VisitValue == [x \in Visits |-> x.v]

(* build_orbit is a loop in the sense of Loops_proofs.                     *)
LEMMA VisitIsLoop ==
    ASSUME NEW sym, sym \subseteq [Idx -> Idx]
    PROVE  IsLoop(VisitLoop(sym), Visits, VisitEnd, VisitNext(sym), VisitValue)
<1> DEFINE E == VisitEnd
           next == VisitNext(sym)
           value == VisitValue
<1>1. next \in [Visits -> Visits]
  BY VisitStep DEF VisitNext
<1> HIDE DEF next
<1>2. PICK f : IsLoop(f, Visits, E, next, value)
  BY <1>1, LoopFunction
<1>3. \A x \in Visits : (IF x \in E THEN value[x] ELSE f[next[x]])
                      = (IF x.q = {} THEN x.v ELSE f[Visit(sym, x)])
  BY DEF VisitEnd, VisitNext, VisitValue, next
<1>4. f = [x \in [v : SUBSET Idx, q : SUBSET Idx] |->
              IF x.q = {} THEN x.v ELSE f[Visit(sym, x)]]
  BY <1>2, <1>3, Zenon DEF Visits, IsLoop
<1>5. VisitLoop(sym) = [x \in [v : SUBSET Idx, q : SUBSET Idx] |->
              IF x.q = {} THEN x.v ELSE VisitLoop(sym)[Visit(sym, x)]]
  BY <1>4, Zenon DEF VisitLoop
<1>6. \A x \in Visits : (IF x \in E THEN value[x] ELSE VisitLoop(sym)[next[x]])
                      = (IF x.q = {} THEN x.v ELSE VisitLoop(sym)[Visit(sym, x)])
  BY DEF VisitEnd, VisitNext, VisitValue, next
<1>7. IsLoop(VisitLoop(sym), Visits, E, next, value)
  BY <1>5, <1>6, Zenon DEF Visits, IsLoop
<1> QED
  BY <1>7 DEF next

(* build_orbit returns the orbit, whichever index of the queue it takes:   *)
(* what it has visited lies in the orbit and, but for the queue, is closed.*)
LEMMA BuildOrbit ==
    ASSUME NEW sym, sym \subseteq [Idx -> Idx], NEW i \in Idx
    PROVE  build_orbit(sym, i) = OrbitOf(sym, i)
<1> DEFINE O == OrbitOf(sym, i)
           E == VisitEnd
           next == VisitNext(sym)
           value == VisitValue
           Good == {x \in Visits : /\ i \in x.v /\ x.v \subseteq O /\ x.q \subseteq x.v
                                   /\ \A g \in sym, j \in x.v \ x.q : g[j] \in x.v}
           left(x) == (Idx \ x.v) \cup x.q
           m == [x \in Good |-> Cardinality(left(x))]
           f == VisitLoop(sym)
           start == [v |-> {i}, q |-> {i}]
<1>1. O \subseteq Idx /\ i \in O /\ Closed(sym, O)
      /\ \A s \in SUBSET Idx : i \in s /\ Closed(sym, s) => O \subseteq s
  BY OrbitLeast
<1>2. start \in Good
  BY <1>1 DEF Visits
<1>3. ASSUME NEW x \in Visits
      PROVE  IsFiniteSet(left(x)) /\ left(x) \subseteq Idx
  <2>1. left(x) \subseteq Idx
    BY DEF Visits
  <2> QED
    BY <2>1, IdxAssumption, FS_Subset
<1>4. m \in [Good -> Nat]
  BY <1>3, FS_CardinalityType
<1>5. ASSUME NEW x \in Good, x \notin E
      PROVE  next[x] \in Good /\ m[next[x]] < m[x]
  <2>1. x \in Visits /\ x.q # {} /\ i \in x.v /\ x.v \subseteq O /\ x.q \subseteq x.v
        /\ \A g \in sym, j \in x.v \ x.q : g[j] \in x.v
    BY <1>5 DEF VisitEnd
  <2> DEFINE y == Visit(sym, x)
  <2> HIDE DEF O
  <2> DEFINE k == Taken(x)
             new == Unseen(sym, x)
  <2>2. /\ y \in Visits /\ k \in x.q /\ new \in SUBSET Idx /\ new = {g[k] : g \in sym} \ x.v
        /\ y.v = x.v \cup new /\ y.q = (x.q \ {k}) \cup new
    BY <2>1, VisitStep DEF Unseen
  <2> HIDE DEF y, k, new
  <2>3. new \subseteq O
    BY <1>1, <2>1, <2>2 DEF Closed
  <2>4. y.v \subseteq O /\ y.q \subseteq y.v /\ i \in y.v
    BY <2>1, <2>2, <2>3
  <2>5. ASSUME NEW g \in sym, NEW j \in y.v \ y.q PROVE g[j] \in y.v
    BY <2>1, <2>2
  <2>6. y \in Good
    BY <2>2, <2>4, <2>5
  <2>7. left(y) \subseteq left(x) /\ k \in left(x) /\ k \notin left(y)
    BY <2>1, <2>2
  <2>8. Cardinality(left(y)) < Cardinality(left(x))
    BY <1>3, <2>1, <2>7, Fewer
  <2> QED
    BY <2>1, <2>6, <2>8 DEF y, VisitNext
<1>6. ASSUME NEW x \in Good, x \in E PROVE value[x] \in {O}
  <2>1. Closed(sym, x.v) /\ x.v \in SUBSET Idx /\ i \in x.v /\ x.v \subseteq O
    BY <1>6 DEF Closed, Visits, VisitEnd
  <2> QED
    BY <1>1, <1>6, <2>1 DEF VisitValue
<1>7. Falls(Good, m, E, next)
  BY <1>4, <1>5, Zenon DEF Falls
<1>8. Returns(Good, E, value, {O})
  BY <1>6, Zenon DEF Returns
<1>9. Good \in SUBSET Visits
  OBVIOUS
<1>10. \A x \in Good : f[x] \in {O}
  <2> HIDE DEF Good, m, O
  <2> QED
    BY <1>7, <1>8, <1>9, VisitIsLoop, LoopResult
<1>11. build_orbit(sym, i) = f[start]
  BY DEF build_orbit, VisitLoop
<1> QED
  BY <1>2, <1>10, <1>11

-----------------------------------------------------------------------------
(* subgroup_orbits *)

Picks == [rest : SUBSET Idx, orb : Seq(Idx)]
PickLoop(sym) ==
    CHOOSE pick : pick = [x \in [rest : SUBSET Idx, orb : Seq(Idx)] |->
        IF x.rest = {} THEN x.orb ELSE pick[PickOne(sym, x)]]
PickEnd == {x \in Picks : x.rest = {}}
PickNext(sym) == [x \in Picks |-> IF x.rest = {} THEN x ELSE PickOne(sym, x)]
PickValue == [x \in Picks |-> x.orb]

(* One turn of the loop of subgroup_orbits: the smallest index is listed   *)
(* and its orbit dropped.                                                  *)
LEMMA PickStep ==
    ASSUME NEW sym, sym \subseteq [Idx -> Idx], NEW x \in Picks, x.rest # {}
    PROVE  /\ PickOne(sym, x) \in Picks
           /\ Min(x.rest) \in x.rest /\ \A j \in x.rest : Min(x.rest) <= j
           /\ PickOne(sym, x).rest = x.rest \ OrbitOf(sym, Min(x.rest))
           /\ PickOne(sym, x).orb = Append(x.orb, Min(x.rest))
<1>1. x.rest \in SUBSET Idx /\ x.orb \in Seq(Idx)
  BY DEF Picks
<1>2. Min(x.rest) \in x.rest /\ \A j \in x.rest : Min(x.rest) <= j
  BY <1>1, IdxAssumption, MinOfNaturals
<1>3. build_orbit(sym, Min(x.rest)) = OrbitOf(sym, Min(x.rest))
  BY <1>1, <1>2, BuildOrbit
<1>4. PickOne(sym, x) = [rest |-> x.rest \ OrbitOf(sym, Min(x.rest)), orb |-> Append(x.orb, Min(x.rest))]
  BY <1>3 DEF PickOne
<1>5. Append(x.orb, Min(x.rest)) \in Seq(Idx)
  BY <1>1, <1>2
<1>6. PickOne(sym, x) \in Picks
  BY <1>1, <1>4, <1>5 DEF Picks
<1> QED
  BY <1>2, <1>4, <1>6

(* That is a loop, too.                                                    *)
LEMMA PickIsLoop ==
    ASSUME NEW sym, sym \subseteq [Idx -> Idx]
    PROVE  IsLoop(PickLoop(sym), Picks, PickEnd, PickNext(sym), PickValue)
<1> DEFINE next == PickNext(sym)
<1>1. next \in [Picks -> Picks]
  BY PickStep DEF PickNext
<1> HIDE DEF next
<1>2. PICK f : IsLoop(f, Picks, PickEnd, next, PickValue)
  BY <1>1, LoopFunction
<1>3. \A x \in Picks : (IF x \in PickEnd THEN PickValue[x] ELSE f[next[x]])
                     = (IF x.rest = {} THEN x.orb ELSE f[PickOne(sym, x)])
  BY DEF PickEnd, PickNext, PickValue, next
<1>4. f = [x \in [rest : SUBSET Idx, orb : Seq(Idx)] |->
              IF x.rest = {} THEN x.orb ELSE f[PickOne(sym, x)]]
  BY <1>2, <1>3, Zenon DEF Picks, IsLoop
<1>5. PickLoop(sym) = [x \in [rest : SUBSET Idx, orb : Seq(Idx)] |->
              IF x.rest = {} THEN x.orb ELSE PickLoop(sym)[PickOne(sym, x)]]
  BY <1>4, Zenon DEF PickLoop
<1>6. \A x \in Picks : (IF x \in PickEnd THEN PickValue[x] ELSE PickLoop(sym)[next[x]])
                     = (IF x.rest = {} THEN x.orb ELSE PickLoop(sym)[PickOne(sym, x)])
  BY DEF PickEnd, PickNext, PickValue, next
<1>7. IsLoop(PickLoop(sym), Picks, PickEnd, next, PickValue)
  BY <1>5, <1>6, Zenon DEF Picks, IsLoop
<1> QED
  BY <1>7 DEF next

(* A list stays in order when a larger index is appended.                  *)
LEMMA AscendingAppend ==
    ASSUME NEW s \in Seq(Idx), NEW n \in Idx, Ascending(s), \A k \in Range(s) : k < n
    PROVE  /\ Append(s, n) \in Seq(Idx)
           /\ Range(Append(s, n)) = Range(s) \cup {n}
           /\ Ascending(Append(s, n))
<1> DEFINE t == Append(s, n)
<1>1. /\ t \in Seq(Idx) /\ Len(t) = Len(s) + 1 /\ Len(s) \in Nat
      /\ DOMAIN t = 1..(Len(s) + 1) /\ DOMAIN s = 1..Len(s)
      /\ \A k \in 1..Len(s) : t[k] = s[k]
      /\ t[Len(s) + 1] = n
  OBVIOUS
<1> HIDE DEF t
<1>2. Range(t) = Range(s) \cup {n}
  BY <1>1 DEF Range
<1>3. Ascending(t)
  <2> SUFFICES ASSUME NEW i \in DOMAIN t, NEW j \in DOMAIN t, i < j PROVE t[i] < t[j]
    BY DEF Ascending
  <2>1. i \in 1..Len(s) /\ t[i] = s[i]
    BY <1>1
  <2>2. CASE j \in 1..Len(s)
    BY <1>1, <2>1, <2>2 DEF Ascending
  <2>3. CASE j = Len(s) + 1
    BY <1>1, <2>1, <2>3 DEF Range
  <2> QED
    BY <1>1, <2>2, <2>3
<1> QED
  BY <1>1, <1>2, <1>3 DEF t

(* The list of the smallest indexes of the orbits within a set that is     *)
(* made of whole orbits: its canonical indexes, in ascending order.        *)
CanonicalList(sym, o) ==
    {s \in Seq(Idx) : Ascending(s) /\ Range(s) = {j \in o : Canonical(sym, j)}}

(* The loop of subgroup_orbits makes this list.                            *)
LEMMA ListOfOrbits ==
    ASSUME NEW sym, sym \subseteq Bijection(Idx, Idx), NEW o \in SUBSET Idx,
           \A j \in o : OrbitOf(sym, j) \subseteq o
    PROVE  Representatives(sym, o) \in CanonicalList(sym, o)
<1> DEFINE Good == {x \in Picks :
                       /\ x.rest \subseteq o
                       /\ \A j \in x.rest : OrbitOf(sym, j) \subseteq x.rest
                       /\ Range(x.orb) = {j \in o \ x.rest : Canonical(sym, j)}
                       /\ Ascending(x.orb)
                       /\ \A k \in Range(x.orb), j \in x.rest : k < j}
           m == [x \in Good |-> Cardinality(x.rest)]
           start == [rest |-> o, orb |-> <<>>]
<1>1. sym \subseteq [Idx -> Idx]
  BY DEF Bijection, Injection
<1>2. start \in Good
  <2>1. <<>> \in Seq(Idx) /\ Range(<<>>) = {} /\ Ascending(<<>>)
    BY DEF Range, Ascending
  <2> QED
    BY <2>1 DEF Picks
<1>3. ASSUME NEW x \in Picks
      PROVE  IsFiniteSet(x.rest) /\ x.rest \subseteq Idx
  <2>1. x.rest \subseteq Idx
    BY DEF Picks
  <2> QED
    BY <2>1, IdxAssumption, FS_Subset
<1>4. m \in [Good -> Nat]
  BY <1>3, FS_CardinalityType
<1>5. ASSUME NEW x \in Good, x \notin PickEnd
      PROVE  PickNext(sym)[x] \in Good /\ m[PickNext(sym)[x]] < m[x]
  <2> DEFINE y == PickOne(sym, x)
             n == Min(x.rest)
             O == OrbitOf(sym, n)
  <2>1. /\ x \in Picks /\ x.rest # {} /\ x.rest \subseteq o
        /\ \A j \in x.rest : OrbitOf(sym, j) \subseteq x.rest
        /\ Range(x.orb) = {j \in o \ x.rest : Canonical(sym, j)}
        /\ Ascending(x.orb)
        /\ \A k \in Range(x.orb), j \in x.rest : k < j
    BY <1>5 DEF PickEnd
  <2>2. /\ y \in Picks /\ n \in x.rest /\ \A j \in x.rest : n <= j
        /\ y.rest = x.rest \ O /\ y.orb = Append(x.orb, n)
    BY <1>1, <2>1, PickStep
  <2> HIDE DEF y, n
  <2>3. n \in Idx /\ x.orb \in Seq(Idx) /\ n \in o
    BY <2>1, <2>2 DEF Picks
  <2>4. n \in O /\ O \subseteq x.rest
    BY <1>1, <2>1, <2>2, <2>3, OrbitLeast
  <2>5. Canonical(sym, n)
    BY <2>2, <2>4 DEF Canonical
  <2>6. ASSUME NEW j \in y.rest PROVE OrbitOf(sym, j) \subseteq y.rest
    <3>1. j \in x.rest /\ j \notin O /\ j \in Idx
      BY <2>1, <2>2
    <3>2. SUFFICES ASSUME NEW c \in OrbitOf(sym, j), c \in O PROVE FALSE
      BY <2>1, <2>2, <3>1
    <3>3. OrbitOf(sym, c) = OrbitOf(sym, j)
      BY <3>1, SameOrbit
    <3>4. OrbitOf(sym, c) = O
      BY <2>3, <3>2, SameOrbit
    <3>5. j \in OrbitOf(sym, j)
      BY <1>1, <3>1, OrbitLeast
    <3> QED
      BY <3>1, <3>3, <3>4, <3>5
  <2>7. ASSUME NEW j \in O, Canonical(sym, j) PROVE j = n
    <3>1. j \in Idx /\ OrbitOf(sym, j) = O
      BY <2>3, SameOrbit
    <3>2. j \in OrbitOf(sym, n) \cap OrbitOf(sym, j)
      BY <1>1, <3>1, OrbitLeast
    <3> QED
      BY <2>3, <2>5, <2>7, <3>1, <3>2, OneCanonical
  <2>8. /\ Range(y.orb) = Range(x.orb) \cup {n} /\ Ascending(y.orb)
    BY <2>1, <2>2, <2>3, AscendingAppend
  <2>9. Range(y.orb) = {j \in o \ y.rest : Canonical(sym, j)}
    <3> HIDE DEF O
    <3> QED
      BY <2>1, <2>2, <2>3, <2>4, <2>5, <2>7, <2>8
  <2>10. ASSUME NEW k \in Range(y.orb), NEW j \in y.rest PROVE k < j
    <3>1. CASE k \in Range(x.orb)
      BY <2>1, <2>2, <3>1
    <3>2. CASE k = n
      <4>1. n <= j /\ n # j
        BY <2>2, <2>4
      <4>2. n \in Nat /\ j \in Nat
        BY <2>1, <2>2, <2>3, IdxAssumption
      <4> QED
        BY <3>2, <4>1, <4>2
    <3> QED
      BY <2>8, <3>1, <3>2
  <2>11. y.rest \subseteq o
    BY <2>1, <2>2
  <2>12. y \in Good
    BY <2>2, <2>6, <2>8, <2>9, <2>10, <2>11
  <2>13. Cardinality(y.rest) < Cardinality(x.rest)
    BY <1>3, <2>1, <2>2, <2>4, Fewer
  <2>14. PickNext(sym)[x] = y
    BY <2>1 DEF PickNext, y
  <2> QED
    BY <2>12, <2>13, <2>14
<1>6. ASSUME NEW x \in Good, x \in PickEnd PROVE PickValue[x] \in CanonicalList(sym, o)
  <2>1. /\ x \in Picks /\ x.rest = {} /\ x.orb \in Seq(Idx) /\ Ascending(x.orb)
        /\ Range(x.orb) = {j \in o \ x.rest : Canonical(sym, j)}
    BY <1>6 DEF PickEnd, Picks
  <2>2. Range(x.orb) = {j \in o : Canonical(sym, j)}
    BY <2>1
  <2> QED
    BY <2>1, <2>2 DEF PickValue, CanonicalList
<1>7. Falls(Good, m, PickEnd, PickNext(sym))
  BY <1>4, <1>5, Zenon DEF Falls
<1>8. Returns(Good, PickEnd, PickValue, CanonicalList(sym, o))
  BY <1>6, Zenon DEF Returns
<1>9. Good \in SUBSET Picks
  OBVIOUS
<1>10. \A x \in Good : PickLoop(sym)[x] \in CanonicalList(sym, o)
  <2> HIDE DEF Good, m
  <2> QED
    BY <1>1, <1>7, <1>8, <1>9, PickIsLoop, LoopResult
<1>11. Representatives(sym, o) = PickLoop(sym)[start]
  BY DEF Representatives, PickLoop
<1> QED
  BY <1>2, <1>10, <1>11

-----------------------------------------------------------------------------
(* combined_orbits *)

(* The queues of combined_orbits and what went through them: whoever left  *)
(* the queue of one group has its whole orbit queued for the other.        *)
Linked(s1, s2, J, q1, w1, q2, w2) ==
    /\ q1 \subseteq w1 /\ q2 \subseteq w2 /\ w1 \subseteq J /\ w2 \subseteq J
    /\ \A j \in w1 \ q1 : OrbitOf(s1, j) \subseteq w2
    /\ \A j \in w2 \ q2 : OrbitOf(s2, j) \subseteq w1
LeftOver(q, w) == Cardinality((Idx \ w) \cup q)

KeepsLinked(s1, s2, J, q1, w1, q2, w2, h) ==
    /\ Linked(s1, s2, J, h.q, w1, h.q2, h.w2)
    /\ w2 \subseteq h.w2
    /\ q1 = {} => h.q2 = q2 /\ h.q = q1
    /\ LeftOver(h.q, w1) + LeftOver(h.q2, h.w2) <= LeftOver(q1, w1) + LeftOver(q2, w2)
    /\ q1 # {} => LeftOver(h.q, w1) + LeftOver(h.q2, h.w2)
                  < LeftOver(q1, w1) + LeftOver(q2, w2)

(* One half of a turn of combined_orbits keeps the queues linked, and less *)
(* is left to do.                                                          *)
LEMMA HalfKeeps ==
    ASSUME NEW s1, s1 \subseteq [Idx -> Idx], NEW s2, NEW J \in SUBSET Idx, Closed(s1, J),
           NEW q1, NEW w1, NEW q2, NEW w2, Linked(s1, s2, J, q1, w1, q2, w2)
    PROVE  KeepsLinked(s1, s2, J, q1, w1, q2, w2, Half(s1, q1, q2, w2))
<1> DEFINE h == Half(s1, q1, q2, w2)
<1>1. /\ q1 \subseteq w1 /\ q2 \subseteq w2 /\ w1 \subseteq J /\ w2 \subseteq J
      /\ \A j \in w1 \ q1 : OrbitOf(s1, j) \subseteq w2
      /\ \A j \in w2 \ q2 : OrbitOf(s2, j) \subseteq w1
  BY DEF Linked
<1>2. \A q, w : q \subseteq Idx => LeftOver(q, w) \in Nat
  <2> SUFFICES ASSUME NEW q, NEW w, q \subseteq Idx PROVE LeftOver(q, w) \in Nat
    OBVIOUS
  <2>1. (Idx \ w) \cup q \subseteq Idx
    OBVIOUS
  <2> QED
    BY <2>1, IdxAssumption, FS_Subset, FS_CardinalityType DEF LeftOver
<1>3. CASE q1 = {}
  <2>1. h = [q |-> q1, q2 |-> q2, w2 |-> w2]
    BY <1>3 DEF Half
  <2> HIDE DEF h
  <2>2. h.q = q1 /\ h.q2 = q2 /\ h.w2 = w2 /\ Linked(s1, s2, J, q1, w1, q2, w2)
    BY <2>1
  <2>3. LeftOver(q1, w1) + LeftOver(q2, w2) <= LeftOver(q1, w1) + LeftOver(q2, w2)
    BY <1>1, <1>2
  <2>4. KeepsLinked(s1, s2, J, q1, w1, q2, w2, h)
    BY <1>3, <2>2, <2>3 DEF KeepsLinked
  <2> QED
    BY <2>4 DEF h
<1>4. CASE q1 # {}
  <2> DEFINE n == Max(q1)
             O == OrbitOf(s1, n)
  <2>1. n \in q1
    <3>1. q1 \in SUBSET Nat /\ IsFiniteSet(q1)
      BY <1>1, IdxAssumption, FS_Subset
    <3> QED
      BY <1>4, <3>1, MaxOfFinite
  <2>2. n \in Idx /\ n \in J
    BY <1>1, <2>1
  <2>3. build_orbit(s1, n) = O
    BY <2>2, BuildOrbit
  <2>4. n \in O /\ O \subseteq J /\ Closed(s1, O) /\ O \in SUBSET Idx
    BY <2>2, OrbitLeast
  <2>5. h = [q |-> (q1 \ {n}) \ O, q2 |-> q2 \cup (O \ w2), w2 |-> w2 \cup O]
    BY <1>4, <2>3 DEF Half
  <2> HIDE DEF n, O, h
  <2>6. h.q = q1 \ O /\ h.q2 = q2 \cup (O \ w2) /\ h.w2 = w2 \cup O
    BY <2>4, <2>5
  <2>7. ASSUME NEW j \in w1 \ h.q PROVE OrbitOf(s1, j) \subseteq h.w2
    <3>1. CASE j \in O
      <4>1. OrbitOf(s1, j) \subseteq O
        BY <2>4, <3>1, OrbitLeast
      <4> QED
        BY <2>6, <4>1
    <3>2. CASE j \notin O
      BY <1>1, <2>6, <3>2
    <3> QED
      BY <3>1, <3>2
  <2>8. ASSUME NEW j \in h.w2 \ h.q2 PROVE OrbitOf(s2, j) \subseteq w1
    BY <1>1, <2>6
  <2>9. Linked(s1, s2, J, h.q, w1, h.q2, h.w2)
    <3>1. h.q \subseteq w1 /\ h.q2 \subseteq h.w2 /\ h.w2 \subseteq J
      BY <1>1, <2>4, <2>6
    <3> QED
      BY <1>1, <2>7, <2>8, <3>1 DEF Linked
  <2>10. LeftOver(h.q, w1) < LeftOver(q1, w1)
    <3> DEFINE S == (Idx \ w1) \cup q1
               T == (Idx \ w1) \cup h.q
    <3>1. S \subseteq Idx /\ T \in SUBSET S /\ n \in S /\ n \notin T
      BY <1>1, <2>1, <2>4, <2>6
    <3>2. IsFiniteSet(S)
      BY <3>1, IdxAssumption, FS_Subset
    <3> HIDE DEF S, T
    <3>3. Cardinality(T) < Cardinality(S)
      BY <3>1, <3>2, Fewer
    <3> QED
      BY <3>3 DEF S, T, LeftOver
  <2>11. LeftOver(h.q2, h.w2) <= LeftOver(q2, w2)
    <3> DEFINE S == (Idx \ w2) \cup q2
               T == (Idx \ h.w2) \cup h.q2
    <3>1. S \subseteq Idx /\ T \in SUBSET S
      BY <1>1, <2>4, <2>6
    <3>2. IsFiniteSet(S)
      BY <3>1, IdxAssumption, FS_Subset
    <3> HIDE DEF S, T
    <3>3. Cardinality(T) <= Cardinality(S)
      BY <3>1, <3>2, FS_Subset
    <3> QED
      BY <3>3 DEF S, T, LeftOver
  <2>12. /\ LeftOver(h.q, w1) \in Nat /\ LeftOver(q1, w1) \in Nat
         /\ LeftOver(h.q2, h.w2) \in Nat /\ LeftOver(q2, w2) \in Nat
    <3>1. q1 \subseteq Idx /\ q2 \subseteq Idx /\ h.q \subseteq Idx /\ h.q2 \subseteq Idx
      BY <1>1, <2>4, <2>6
    <3> QED
      BY <1>2, <3>1
  <2>13. w2 \subseteq h.w2
    BY <2>6
  <2>14. KeepsLinked(s1, s2, J, q1, w1, q2, w2, h)
    BY <1>4, <2>9, <2>10, <2>11, <2>12, <2>13 DEF KeepsLinked
  <2> QED
    BY <2>14 DEF h
<1> QED
  BY <1>3, <1>4

Queues == [q1 : SUBSET Idx, w1 : SUBSET Idx, q2 : SUBSET Idx, w2 : SUBSET Idx]
CloseLoop(s1, s2) ==
    CHOOSE close : close =
        [x \in [q1 : SUBSET Idx, w1 : SUBSET Idx, q2 : SUBSET Idx, w2 : SUBSET Idx] |->
            IF x.q1 = {} /\ x.q2 = {} THEN x.w1 ELSE close[Exchange(s1, s2, x)]]
CloseEnd == {x \in Queues : x.q1 = {} /\ x.q2 = {}}
CloseNext(s1, s2) ==
    [x \in Queues |-> IF x.q1 = {} /\ x.q2 = {} THEN x ELSE Exchange(s1, s2, x)]
CloseValue == [x \in Queues |-> x.w1]

(* It keeps to the set of indexes.                                         *)
LEMMA HalfType ==
    ASSUME NEW s1, s1 \subseteq [Idx -> Idx], NEW q1 \in SUBSET Idx, NEW q2 \in SUBSET Idx,
           NEW w2 \in SUBSET Idx, NEW h, h = Half(s1, q1, q2, w2)
    PROVE  h.q \in SUBSET Idx /\ h.q2 \in SUBSET Idx /\ h.w2 \in SUBSET Idx
<1>1. CASE q1 = {}
  <2>1. h = [q |-> q1, q2 |-> q2, w2 |-> w2]
    BY <1>1 DEF Half
  <2> QED
    BY <2>1
<1>2. CASE q1 # {}
  <2> DEFINE n == Max(q1)
             O == OrbitOf(s1, n)
  <2>1. n \in Idx
    <3>1. q1 \in SUBSET Nat /\ IsFiniteSet(q1)
      BY IdxAssumption, FS_Subset
    <3> QED
      BY <1>2, <3>1, MaxOfFinite
  <2>2. build_orbit(s1, n) = O /\ O \in SUBSET Idx
    BY <2>1, BuildOrbit, OrbitLeast
  <2>3. h = [q |-> (q1 \ {n}) \ O, q2 |-> q2 \cup (O \ w2), w2 |-> w2 \cup O]
    BY <1>2, <2>2 DEF Half
  <2> HIDE DEF n, O
  <2> QED
    BY <2>2, <2>3
<1> QED
  BY <1>1, <1>2

(* So do both halves.                                                      *)
LEMMA ExchangeType ==
    ASSUME NEW s1, s1 \subseteq [Idx -> Idx], NEW s2, s2 \subseteq [Idx -> Idx], NEW x \in Queues
    PROVE  Exchange(s1, s2, x) \in Queues
<1> DEFINE a == Half(s1, x.q1, x.q2, x.w2)
           b == Half(s2, a.q2, a.q, x.w1)
<1>1. /\ x.q1 \in SUBSET Idx /\ x.w1 \in SUBSET Idx
      /\ x.q2 \in SUBSET Idx /\ x.w2 \in SUBSET Idx
  BY DEF Queues
<1>2. Exchange(s1, s2, x) = [q1 |-> b.q2, w1 |-> b.w2, q2 |-> b.q, w2 |-> a.w2]
  BY DEF Exchange
<1>3. a.q \in SUBSET Idx /\ a.q2 \in SUBSET Idx /\ a.w2 \in SUBSET Idx
  BY <1>1, HalfType
<1> HIDE DEF a
<1>4. b.q \in SUBSET Idx /\ b.q2 \in SUBSET Idx /\ b.w2 \in SUBSET Idx
  BY <1>1, <1>3, HalfType
<1> HIDE DEF b
<1> QED
  BY <1>2, <1>3, <1>4 DEF Queues

(* combined_orbits is a loop, too.                                         *)
LEMMA CloseIsLoop ==
    ASSUME NEW s1, s1 \subseteq [Idx -> Idx], NEW s2, s2 \subseteq [Idx -> Idx]
    PROVE  IsLoop(CloseLoop(s1, s2), Queues, CloseEnd, CloseNext(s1, s2), CloseValue)
<1> DEFINE next == CloseNext(s1, s2)
<1>1. next \in [Queues -> Queues]
  BY ExchangeType DEF CloseNext
<1> HIDE DEF next
<1>2. PICK f : IsLoop(f, Queues, CloseEnd, next, CloseValue)
  BY <1>1, LoopFunction
<1>3. \A x \in Queues :
          (IF x \in CloseEnd THEN CloseValue[x] ELSE f[next[x]])
        = (IF x.q1 = {} /\ x.q2 = {} THEN x.w1 ELSE f[Exchange(s1, s2, x)])
  BY DEF CloseEnd, CloseNext, CloseValue, next
<1>4. f = [x \in [q1 : SUBSET Idx, w1 : SUBSET Idx, q2 : SUBSET Idx, w2 : SUBSET Idx] |->
              IF x.q1 = {} /\ x.q2 = {} THEN x.w1 ELSE f[Exchange(s1, s2, x)]]
  BY <1>2, <1>3, Zenon DEF Queues, IsLoop
<1>5. CloseLoop(s1, s2) =
          [x \in [q1 : SUBSET Idx, w1 : SUBSET Idx, q2 : SUBSET Idx, w2 : SUBSET Idx] |->
              IF x.q1 = {} /\ x.q2 = {} THEN x.w1 ELSE CloseLoop(s1, s2)[Exchange(s1, s2, x)]]
  BY <1>4, Zenon DEF CloseLoop
<1>6. \A x \in Queues :
          (IF x \in CloseEnd THEN CloseValue[x] ELSE CloseLoop(s1, s2)[next[x]])
        = (IF x.q1 = {} /\ x.q2 = {} THEN x.w1 ELSE CloseLoop(s1, s2)[Exchange(s1, s2, x)])
  BY DEF CloseEnd, CloseNext, CloseValue, next
<1>7. IsLoop(CloseLoop(s1, s2), Queues, CloseEnd, next, CloseValue)
  BY <1>5, <1>6, Zenon DEF Queues, IsLoop
<1> QED
  BY <1>7 DEF next

(* The exchange of indexes between two groups ends with what both together *)
(* reach.                                                                  *)
LEMMA ExchangeCloses ==
    ASSUME NEW s1, s1 \subseteq [Idx -> Idx], NEW s2, s2 \subseteq [Idx -> Idx], NEW i \in Idx
    PROVE  CloseLoop(s1, s2)[[q1 |-> {i}, w1 |-> {i}, q2 |-> {}, w2 |-> {}]]
               = OrbitOf(s1 \cup s2, i)
<1> DEFINE J == OrbitOf(s1 \cup s2, i)
           Good == {x \in Queues : i \in x.w1 /\ Linked(s1, s2, J, x.q1, x.w1, x.q2, x.w2)}
           m == [x \in Good |-> LeftOver(x.q1, x.w1) + LeftOver(x.q2, x.w2)]
           start == [q1 |-> {i}, w1 |-> {i}, q2 |-> {}, w2 |-> {}]
<1>1. /\ J \in SUBSET Idx /\ i \in J /\ Closed(s1 \cup s2, J)
      /\ \A s \in SUBSET Idx : i \in s /\ Closed(s1 \cup s2, s) => J \subseteq s
  <2>1. s1 \cup s2 \subseteq [Idx -> Idx]
    OBVIOUS
  <2> QED
    BY <2>1, OrbitLeast
<1> HIDE DEF J
<1>2. Closed(s1, J) /\ Closed(s2, J)
  BY <1>1 DEF Closed
<1>3. start \in Good
  BY <1>1 DEF Queues, Linked
<1>4. m \in [Good -> Nat]
  <2> SUFFICES ASSUME NEW x \in Queues
               PROVE  LeftOver(x.q1, x.w1) + LeftOver(x.q2, x.w2) \in Nat
    OBVIOUS
  <2> DEFINE S == (Idx \ x.w1) \cup x.q1
             T == (Idx \ x.w2) \cup x.q2
  <2>1. S \subseteq Idx /\ T \subseteq Idx
    BY DEF Queues
  <2>2. Cardinality(S) \in Nat /\ Cardinality(T) \in Nat
    BY <2>1, IdxAssumption, FS_Subset, FS_CardinalityType
  <2> QED
    BY <2>2 DEF LeftOver
<1>5. ASSUME NEW x \in Good, x \notin CloseEnd
      PROVE  CloseNext(s1, s2)[x] \in Good /\ m[CloseNext(s1, s2)[x]] < m[x]
  <2> DEFINE a == Half(s1, x.q1, x.q2, x.w2)
             b == Half(s2, a.q2, a.q, x.w1)
             y == Exchange(s1, s2, x)
  <2>1. x \in Queues /\ ~(x.q1 = {} /\ x.q2 = {}) /\ i \in x.w1
        /\ Linked(s1, s2, J, x.q1, x.w1, x.q2, x.w2)
    BY <1>5 DEF CloseEnd
  <2>2. y = [q1 |-> b.q2, w1 |-> b.w2, q2 |-> b.q, w2 |-> a.w2] /\ y \in Queues
    BY <2>1, ExchangeType DEF Exchange
  <2>3. /\ Linked(s1, s2, J, a.q, x.w1, a.q2, a.w2)
        /\ x.q1 = {} => a.q2 = x.q2 /\ a.q = x.q1
        /\ LeftOver(a.q, x.w1) + LeftOver(a.q2, a.w2) <= LeftOver(x.q1, x.w1) + LeftOver(x.q2, x.w2)
        /\ x.q1 # {} => LeftOver(a.q, x.w1) + LeftOver(a.q2, a.w2)
                        < LeftOver(x.q1, x.w1) + LeftOver(x.q2, x.w2)
    <3>1. KeepsLinked(s1, s2, J, x.q1, x.w1, x.q2, x.w2, a)
      BY <1>1, <1>2, <2>1, HalfKeeps
    <3> QED
      BY <3>1 DEF KeepsLinked
  <2> HIDE DEF a
  <2>4. Linked(s2, s1, J, a.q2, a.w2, a.q, x.w1)
    BY <2>3 DEF Linked
  <2>5. /\ Linked(s2, s1, J, b.q, a.w2, b.q2, b.w2)
        /\ x.w1 \subseteq b.w2
        /\ LeftOver(b.q, a.w2) + LeftOver(b.q2, b.w2) <= LeftOver(a.q2, a.w2) + LeftOver(a.q, x.w1)
        /\ a.q2 # {} => LeftOver(b.q, a.w2) + LeftOver(b.q2, b.w2)
                        < LeftOver(a.q2, a.w2) + LeftOver(a.q, x.w1)
    <3>1. KeepsLinked(s2, s1, J, a.q2, a.w2, a.q, x.w1, b)
      BY <1>1, <1>2, <2>4, HalfKeeps
    <3> QED
      BY <3>1 DEF KeepsLinked
  <2> HIDE DEF b
  <2>6. y.q1 = b.q2 /\ y.w1 = b.w2 /\ y.q2 = b.q /\ y.w2 = a.w2
    BY <2>2
  <2>7. Linked(s1, s2, J, y.q1, y.w1, y.q2, y.w2)
    BY <2>5, <2>6 DEF Linked
  <2>8. y \in Good
    BY <2>1, <2>2, <2>5, <2>6, <2>7
  <2>9. /\ m[x] = LeftOver(x.q1, x.w1) + LeftOver(x.q2, x.w2)
        /\ m[y] = LeftOver(b.q2, b.w2) + LeftOver(b.q, a.w2)
    BY <1>5, <2>6, <2>8
  <2>10. \A q, w : q \subseteq Idx => LeftOver(q, w) \in Nat
    <3> SUFFICES ASSUME NEW q, NEW w, q \subseteq Idx PROVE LeftOver(q, w) \in Nat
      OBVIOUS
    <3>1. (Idx \ w) \cup q \subseteq Idx
      OBVIOUS
    <3> QED
      BY <3>1, IdxAssumption, FS_Subset, FS_CardinalityType DEF LeftOver
  <2>11. /\ x.q1 \subseteq Idx /\ x.q2 \subseteq Idx /\ a.q \subseteq Idx /\ a.q2 \subseteq Idx
         /\ b.q \subseteq Idx /\ b.q2 \subseteq Idx
    BY <1>1, <2>1, <2>3, <2>5 DEF Linked
  <2>12. /\ LeftOver(x.q1, x.w1) \in Nat /\ LeftOver(x.q2, x.w2) \in Nat
         /\ LeftOver(a.q, x.w1) \in Nat /\ LeftOver(a.q2, a.w2) \in Nat
         /\ LeftOver(b.q, a.w2) \in Nat /\ LeftOver(b.q2, b.w2) \in Nat
    BY <2>10, <2>11
  <2>13. x.q1 # {} \/ a.q2 # {}
    BY <2>1, <2>3
  <2> HIDE DEF m, y, Good
  <2>14. m[y] < m[x]
    BY <2>3, <2>5, <2>9, <2>12, <2>13
  <2>15. CloseNext(s1, s2)[x] = y
    BY <2>1 DEF CloseNext, y
  <2> QED
    BY <2>8, <2>14, <2>15
<1>6. ASSUME NEW x \in Good, x \in CloseEnd PROVE CloseValue[x] \in {J}
  <2>1. /\ x \in Queues /\ x.q1 = {} /\ x.q2 = {} /\ i \in x.w1 /\ x.w1 \subseteq J
        /\ x.w1 \in SUBSET Idx /\ x.w2 \in SUBSET Idx
        /\ \A j \in x.w1 : OrbitOf(s1, j) \subseteq x.w2
        /\ \A j \in x.w2 : OrbitOf(s2, j) \subseteq x.w1
    BY <1>6 DEF CloseEnd, Linked, Queues
  <2>2. /\ \A j \in x.w1 : j \in OrbitOf(s1, j) /\ Closed(s1, OrbitOf(s1, j))
        /\ \A j \in x.w2 : j \in OrbitOf(s2, j) /\ Closed(s2, OrbitOf(s2, j))
    BY <2>1, OrbitLeast
  <2>3. x.w1 = x.w2
    BY <2>1, <2>2
  <2>4. Closed(s1 \cup s2, x.w1)
    BY <2>1, <2>2, <2>3 DEF Closed
  <2>5. x.w1 = J
    BY <1>1, <2>1, <2>4
  <2> QED
    BY <2>1, <2>5 DEF CloseValue
<1>7. Falls(Good, m, CloseEnd, CloseNext(s1, s2))
  BY <1>4, <1>5, Zenon DEF Falls
<1>8. Returns(Good, CloseEnd, CloseValue, {J})
  BY <1>6, Zenon DEF Returns
<1>9. Good \in SUBSET Queues
  OBVIOUS
<1>10. \A x \in Good : CloseLoop(s1, s2)[x] \in {J}
  <2> HIDE DEF Good, m
  <2> QED
    BY <1>7, <1>8, <1>9, CloseIsLoop, LoopResult
<1> QED
  BY <1>3, <1>10 DEF J

-----------------------------------------------------------------------------
(* The two functions *)

(* subgroup_orbits lists the canonical indexes, under the subgroup sym2,   *)
(* of the orbit of i under sym1, in ascending order.                       *)
THEOREM SubgroupOrbits ==
    ASSUME NEW sym1, sym1 \subseteq Bijection(Idx, Idx),
           NEW sym2, sym2 \subseteq Bijection(Idx, Idx), NEW i \in Idx,
           \A j \in Idx : OrbitOf(sym2, j) \subseteq OrbitOf(sym1, j)
    PROVE  subgroup_orbits(sym1, sym2, i) \in CanonicalList(sym2, OrbitOf(sym1, i))
<1>1. sym1 \subseteq [Idx -> Idx]
  BY DEF Bijection, Injection
<1>2. build_orbit(sym1, i) = OrbitOf(sym1, i) /\ OrbitOf(sym1, i) \in SUBSET Idx
  BY <1>1, BuildOrbit, OrbitLeast
<1>3. \A j \in OrbitOf(sym1, i) : j \in Idx /\ OrbitOf(sym1, j) = OrbitOf(sym1, i)
  BY SameOrbit
<1>4. \A j \in OrbitOf(sym1, i) : OrbitOf(sym2, j) \subseteq OrbitOf(sym1, i)
  BY <1>3
<1> QED
  BY <1>2, <1>4, ListOfOrbits DEF subgroup_orbits

(* combined_orbits lists those of what both groups together reach from i:  *)
(* no index is missed, whichever index it starts from.                     *)
THEOREM CombinedOrbits ==
    ASSUME NEW sym1, sym1 \subseteq Bijection(Idx, Idx),
           NEW sym2, sym2 \subseteq Bijection(Idx, Idx),
           NEW sym3, sym3 \subseteq Bijection(Idx, Idx), NEW i \in Idx,
           \A j \in Idx : OrbitOf(sym3, j) \subseteq OrbitOf(sym1, j)
    PROVE  combined_orbits(sym1, sym2, sym3, i)
               \in CanonicalList(sym3, OrbitOf(sym1 \cup sym2, i))
<1> DEFINE J == OrbitOf(sym1 \cup sym2, i)
<1>1. /\ sym1 \subseteq [Idx -> Idx] /\ sym2 \subseteq [Idx -> Idx]
      /\ sym1 \cup sym2 \subseteq Bijection(Idx, Idx)
      /\ sym1 \subseteq sym1 \cup sym2 /\ sym1 \cup sym2 \subseteq [Idx -> Idx]
  BY DEF Bijection, Injection
<1>2. J \in SUBSET Idx
  BY <1>1, OrbitLeast
<1>3. combined_orbits(sym1, sym2, sym3, i) = Representatives(sym3, J)
  <2>1. combined_orbits(sym1, sym2, sym3, i) = Representatives(sym3,
            CloseLoop(sym1, sym2)[[q1 |-> {i}, w1 |-> {i}, q2 |-> {}, w2 |-> {}]])
    BY DEF combined_orbits, CloseLoop
  <2> QED
    BY <1>1, <2>1, ExchangeCloses
<1>4. ASSUME NEW j \in J PROVE OrbitOf(sym3, j) \subseteq J
  <2>1. j \in Idx /\ OrbitOf(sym1 \cup sym2, j) = J
    BY <1>1, SameOrbit
  <2>2. OrbitOf(sym1, j) \subseteq OrbitOf(sym1 \cup sym2, j)
    BY <1>1, <2>1, OrbitMore
  <2> QED
    BY <2>1, <2>2
<1> HIDE DEF J
<1>5. Representatives(sym3, J) \in CanonicalList(sym3, J)
  BY <1>2, <1>4, ListOfOrbits
<1> QED
  BY <1>3, <1>5 DEF J
=============================================================================
