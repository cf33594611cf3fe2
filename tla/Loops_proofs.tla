----------------------------- MODULE Loops_proofs -----------------------------
(***************************************************************************)
(* What a loop and a fold compute.  A loop of the code is a recursive      *)
(* function of what it changes here, a pass over a list or a set a fold of *)
(* the community modules; both are functions chosen by their equation, so  *)
(* what they compute is known once some function satisfies it.             *)
(***************************************************************************)
EXTENDS Naturals, FiniteSetsExt, FiniteSetTheorems, WellFoundedInduction, TLAPS

-----------------------------------------------------------------------------
(* Numbers and finite sets *)

(* A set of numbers has a least one.                                       *)
LEMMA MinOfNaturals ==
    ASSUME NEW S \in SUBSET Nat, S # {}
    PROVE  Min(S) \in S /\ \A y \in S : Min(S) <= y
<1>1. PICK x \in S : \A y \in S : ~(<<y, x>> \in OpToRel(<, Nat))
  BY NatLessThanWellFounded, WFMin
<1>2. ASSUME NEW y \in S PROVE x <= y
  <2>1. x \in Nat /\ y \in Nat
    OBVIOUS
  <2>2. ~(y < x)
    BY <1>1, <2>1 DEF OpToRel
  <2> QED
    BY <2>1, <2>2
<1> QED
  BY <1>2 DEF Min

(* A set that lost something has fewer members.                            *)
LEMMA Fewer ==
    ASSUME NEW S, IsFiniteSet(S), NEW T \in SUBSET S, NEW x \in S, x \notin T
    PROVE  Cardinality(T) \in Nat /\ Cardinality(S) \in Nat /\ Cardinality(T) < Cardinality(S)
<1>1. IsFiniteSet(T) /\ Cardinality(T) <= Cardinality(S) /\ (Cardinality(S) = Cardinality(T) => S = T)
  BY FS_Subset
<1>2. Cardinality(T) \in Nat /\ Cardinality(S) \in Nat
  BY <1>1, FS_CardinalityType
<1> QED
  BY <1>1, <1>2

(* A finite set of numbers has a largest one.                              *)
LEMMA MaxOfFinite ==
    ASSUME NEW S \in SUBSET Nat, IsFiniteSet(S), S # {}
    PROVE  Max(S) \in S /\ \A y \in S : y <= Max(S)
<1> DEFINE Top(T) == \E x \in T : \A y \in T : y <= x
           B == {Cardinality(T) : T \in {T \in SUBSET S : T # {} /\ ~Top(T)}}
<1>1. ASSUME NEW T \in SUBSET S PROVE IsFiniteSet(T) /\ Cardinality(T) \in Nat
  BY FS_Subset, FS_CardinalityType
<1>2. B \in SUBSET Nat
  BY <1>1
<1>3. Top(S)
  <2>1. SUFFICES ASSUME ~Top(S) PROVE FALSE
    OBVIOUS
  <2>2. B # {}
    BY <2>1
  <2>3. Min(B) \in B /\ \A k \in B : Min(B) <= k
    BY <1>2, <2>2, MinOfNaturals
  <2>4. PICK T \in SUBSET S : T # {} /\ ~Top(T) /\ Cardinality(T) = Min(B)
    BY <2>3
  <2>5. PICK x \in T : TRUE
    BY <2>4
  <2> DEFINE U == T \ {x}
  <2>6. Cardinality(U) < Cardinality(T) /\ Cardinality(U) \in Nat /\ Cardinality(T) \in Nat
    BY <1>1, <2>5, Fewer
  <2>7. Cardinality(U) \notin B
    <3> HIDE DEF B, U
    <3> QED
      BY <2>3, <2>4, <2>6
  <2>8. U = {} \/ Top(U)
    BY <2>7
  <2>9. CASE U = {}
    <3>1. T = {x} /\ x \in Nat
      BY <2>5, <2>9
    <3> QED
      BY <2>4, <3>1
  <2>10. CASE Top(U)
    <3>1. PICK z \in U : \A y \in U : y <= z
      BY <2>10
    <3>2. x \in Nat /\ z \in Nat /\ z \in T /\ \A y \in T : y \in Nat /\ (y = x \/ y \in U)
      BY <2>5, <3>1
    <3>3. CASE x <= z
      BY <2>4, <3>1, <3>2, <3>3
    <3>4. CASE ~(x <= z)
      <4>1. \A y \in T : y <= x
        BY <3>1, <3>2, <3>4
      <4> QED
        BY <2>4, <2>5, <4>1
    <3> QED
      BY <3>3, <3>4
  <2> QED
    BY <2>8, <2>9, <2>10
<1> QED
  BY <1>3 DEF Max

-----------------------------------------------------------------------------
(* Loops *)

(* The loop "while x is not in E, x := next[x]" from x: the values of its  *)
(* runs of n steps that end, and where they end.                           *)
LoopRuns(D, E, next, x, n) ==
    {r \in [0..n -> D] : /\ r[0] = x /\ r[n] \in E
                         /\ \A k \in 0..(n - 1) : r[k] \notin E /\ r[k + 1] = next[r[k]]}
LoopEnds(D, E, next, x) ==
    {e \in D : \E n \in Nat : \E r \in LoopRuns(D, E, next, x, n) : r[n] = e}
Some(W) == CHOOSE e : e \in W

(* It stops at once in E.                                                  *)
LEMMA LoopStops ==
    ASSUME NEW D, NEW E, NEW next \in [D -> D], NEW x \in D, x \in E
    PROVE  LoopEnds(D, E, next, x) = {x}
<1>1. [k \in 0..0 |-> x] \in LoopRuns(D, E, next, x, 0)
  BY DEF LoopRuns
<1>2. ASSUME NEW n \in Nat, NEW r \in LoopRuns(D, E, next, x, n)
      PROVE  r[n] = x
  <2>1. n # 0 => 0 \in 0..(n - 1)
    OBVIOUS
  <2> QED
    BY <2>1 DEF LoopRuns
<1>3. [k \in 0..0 |-> x][0] = x
  OBVIOUS
<1> QED
  BY <1>1, <1>2, <1>3 DEF LoopEnds

(* It goes on elsewhere.                                                   *)
LEMMA LoopGoesOn ==
    ASSUME NEW D, NEW E, NEW next \in [D -> D], NEW x \in D, x \notin E
    PROVE  LoopEnds(D, E, next, x) = LoopEnds(D, E, next, next[x])
<1>1. ASSUME NEW n \in Nat, NEW r \in LoopRuns(D, E, next, x, n)
      PROVE  \E m \in Nat : \E p \in LoopRuns(D, E, next, next[x], m) : p[m] = r[n]
  <2>1. n # 0
    BY DEF LoopRuns
  <2> DEFINE m == n - 1
  <2> DEFINE p == [k \in 0..m |-> r[k + 1]]
  <2>2. m \in Nat /\ m + 1 = n /\ 0 \in 0..(n - 1)
    BY <2>1
  <2>3. r \in [0..n -> D] /\ r[0] = x /\ r[n] \in E
    BY DEF LoopRuns
  <2>4. p \in [0..m -> D]
    <3>1. \A k \in 0..m : k + 1 \in 0..n
      BY <2>2
    <3> QED
      BY <2>3, <3>1
  <2>5. p[0] = next[x] /\ p[m] = r[n]
    BY <2>2, <2>3 DEF LoopRuns
  <2>6. ASSUME NEW k \in 0..(m - 1) PROVE p[k] \notin E /\ p[k + 1] = next[p[k]]
    <3>1. k + 1 \in 0..(n - 1) /\ k \in 0..m /\ k + 1 \in 0..m
      BY <2>2
    <3>2. r[k + 1] \notin E /\ r[(k + 1) + 1] = next[r[k + 1]]
      BY <3>1 DEF LoopRuns
    <3> QED
      BY <3>1, <3>2
  <2>7. p \in LoopRuns(D, E, next, next[x], m)
    BY <2>3, <2>4, <2>5, <2>6 DEF LoopRuns
  <2> QED
    BY <2>2, <2>5, <2>7
<1>2. ASSUME NEW m \in Nat, NEW p \in LoopRuns(D, E, next, next[x], m)
      PROVE  \E n \in Nat : \E r \in LoopRuns(D, E, next, x, n) : r[n] = p[m]
  <2> DEFINE n == m + 1
  <2> DEFINE r == [k \in 0..n |-> IF k = 0 THEN x ELSE p[k - 1]]
  <2>1. p \in [0..m -> D] /\ p[0] = next[x] /\ p[m] \in E
    BY DEF LoopRuns
  <2>2. n \in Nat /\ n - 1 = m /\ 0 \in 0..n /\ n \in 0..n /\ n # 0
    OBVIOUS
  <2>3. r \in [0..n -> D]
    <3>1. \A k \in 0..n : k # 0 => k - 1 \in 0..m
      BY <2>2
    <3> QED
      BY <2>1, <3>1
  <2>4. r[0] = x /\ r[n] = p[m]
    BY <2>2
  <2>5. ASSUME NEW k \in 0..(n - 1) PROVE r[k] \notin E /\ r[k + 1] = next[r[k]]
    <3>1. k \in 0..n /\ k + 1 \in 0..n /\ k + 1 # 0 /\ (k + 1) - 1 = k
      BY <2>2
    <3>2. r[k + 1] = p[k]
      BY <3>1
    <3>3. CASE k = 0
      BY <2>1, <2>4, <3>2, <3>3
    <3>4. CASE k # 0
      <4>1. k - 1 \in 0..(m - 1) /\ (k - 1) + 1 = k
        BY <2>2, <3>4
      <4>2. p[k - 1] \notin E /\ p[(k - 1) + 1] = next[p[k - 1]]
        BY <4>1 DEF LoopRuns
      <4>3. r[k] = p[k - 1]
        BY <3>1, <3>4
      <4> QED
        BY <3>2, <4>1, <4>2, <4>3
    <3> QED
      BY <3>3, <3>4
  <2>6. r \in LoopRuns(D, E, next, x, n)
    BY <2>1, <2>3, <2>4, <2>5 DEF LoopRuns
  <2> QED
    BY <2>2, <2>4, <2>6
<1>3. ASSUME NEW e \in LoopEnds(D, E, next, x) PROVE e \in LoopEnds(D, E, next, next[x])
  BY <1>1 DEF LoopEnds
<1>4. ASSUME NEW e \in LoopEnds(D, E, next, next[x]) PROVE e \in LoopEnds(D, E, next, x)
  BY <1>2 DEF LoopEnds
<1> QED
  BY <1>3, <1>4

(* So there is a function of where it starts that says what it returns,    *)
(* whether or not it ends from everywhere.                                 *)
IsLoop(f, D, E, next, value) ==
    f = [x \in D |-> IF x \in E THEN value[x] ELSE f[next[x]]]

(* It takes the end of the run from x, if there is one.                    *)
LEMMA LoopFunction ==
    ASSUME NEW D, NEW E, NEW next \in [D -> D], NEW value
    PROVE  \E f : IsLoop(f, D, E, next, value)
<1> DEFINE f == [x \in D |-> value[Some(LoopEnds(D, E, next, x))]]
<1>1. ASSUME NEW x \in D PROVE f[x] = IF x \in E THEN value[x] ELSE f[next[x]]
  <2>1. CASE x \in E
    <3>1. Some({x}) = x
      BY DEF Some
    <3> QED
      BY <2>1, <3>1, LoopStops
  <2>2. CASE x \notin E
    BY <2>2, LoopGoesOn
  <2> QED
    BY <2>1, <2>2
<1>2. f = [x \in D |-> f[x]]
  OBVIOUS
<1>3. f = [x \in D |-> IF x \in E THEN value[x] ELSE f[next[x]]]
  BY <1>1, <1>2, Zenon
<1> QED
  BY <1>3 DEF IsLoop

(* What holds when the loop ends, if some measure m falls in every step    *)
(* from a good value and the next value is good.                           *)
Falls(Good, m, E, next) ==
    /\ m \in [Good -> Nat]
    /\ \A x \in Good : x \notin E => next[x] \in Good /\ m[next[x]] < m[x]
Returns(Good, E, value, Right) == \A x \in Good : x \in E => value[x] \in Right

(* Then every good value leads to a right one.                             *)
LEMMA LoopResult ==
    ASSUME NEW D, NEW E, NEW next, NEW value, NEW f, IsLoop(f, D, E, next, value),
           NEW Good \in SUBSET D, NEW m, Falls(Good, m, E, next),
           NEW Right, Returns(Good, E, value, Right)
    PROVE  \A x \in Good : f[x] \in Right
<1>0. \A x \in D : f[x] = IF x \in E THEN value[x] ELSE f[next[x]]
  BY Zenon DEF IsLoop
<1>f. /\ m \in [Good -> Nat]
      /\ \A x \in Good : x \notin E => next[x] \in Good /\ m[next[x]] < m[x]
      /\ \A x \in Good : x \in E => value[x] \in Right
  BY DEF Falls, Returns
<1> SUFFICES ASSUME NEW x0 \in Good, f[x0] \notin Right PROVE FALSE
  OBVIOUS
<1> DEFINE S == {n \in Nat : \E x \in Good : m[x] = n /\ f[x] \notin Right}
<1>1. S \in SUBSET Nat /\ m[x0] \in S
  BY <1>f
<1>2. Min(S) \in S /\ \A n \in S : Min(S) <= n
  BY <1>1, MinOfNaturals
<1>3. PICK x \in Good : m[x] = Min(S) /\ f[x] \notin Right
  BY <1>2
<1>4. x \notin E
  BY <1>0, <1>f, <1>3
<1>5. next[x] \in Good /\ m[next[x]] < m[x] /\ f[next[x]] \notin Right
  BY <1>0, <1>f, <1>3, <1>4
<1>6. m[next[x]] \in S
  BY <1>f, <1>5
<1>7. m[next[x]] \in Nat /\ m[x] \in Nat /\ m[x] <= m[next[x]]
  BY <1>f, <1>2, <1>3, <1>5, <1>6
<1> QED
  BY <1>5, <1>7

(* What holds of 0 and with each number of the next holds up to n.         *)
LEMMA CountUp ==
    ASSUME NEW n \in Nat, NEW P, 0 \in P, \A k \in 0..(n - 1) : k \in P => k + 1 \in P
    PROVE  \A k \in 0..n : k \in P
<1> SUFFICES ASSUME NEW k0 \in 0..n, k0 \notin P PROVE FALSE
  OBVIOUS
<1> DEFINE B == {k \in 0..n : k \notin P}
<1>1. B \in SUBSET Nat /\ B # {}
  OBVIOUS
<1>2. Min(B) \in B /\ \A k \in B : Min(B) <= k
  BY <1>1, MinOfNaturals
<1> DEFINE m == Min(B)
<1>3. m \in 0..n /\ m \notin P /\ m # 0
  BY <1>2
<1>4. \A k \in B : m <= k
  BY <1>2
<1> HIDE DEF m
<1>5. m - 1 \in 0..(n - 1) /\ (m - 1) + 1 = m /\ ~(m <= m - 1)
  BY <1>3
<1>6. m - 1 \in 0..n /\ m - 1 \notin B
  BY <1>4, <1>5
<1> QED
  BY <1>3, <1>5, <1>6

-----------------------------------------------------------------------------
(* Folds *)

(* A family of subsets of a finite set that grows by any one member        *)
(* reaches the set.                                                        *)
LEMMA GrowingSubsets ==
    ASSUME NEW S, IsFiniteSet(S), NEW P, {} \in P,
           \A s \in SUBSET S : s # {} => \E x \in s : s \ {x} \in P => s \in P
    PROVE  \A s \in SUBSET S : s \in P
<1>0. ASSUME NEW s \in SUBSET S PROVE IsFiniteSet(s) /\ Cardinality(s) \in Nat
  BY FS_Subset, FS_CardinalityType
<1> DEFINE B == {n \in Nat : \E s \in SUBSET S : s \notin P /\ Cardinality(s) = n}
<1> SUFFICES ASSUME NEW s0 \in SUBSET S, s0 \notin P PROVE FALSE
  OBVIOUS
<1>1. B \in SUBSET Nat /\ B # {}
  BY <1>0
<1>2. Min(B) \in B /\ \A n \in B : Min(B) <= n
  BY <1>1, MinOfNaturals
<1>3. PICK s \in SUBSET S : s \notin P /\ Cardinality(s) = Min(B)
  BY <1>2
<1>e. s # {}
  BY <1>3
<1>4. PICK x \in s : s \ {x} \in P => s \in P
  BY <1>e, Zenon
<1> DEFINE r == s \ {x}
<1>5. r \in SUBSET S /\ r \notin P
  BY <1>3, <1>4
<1>6. Cardinality(r) \in Nat /\ Cardinality(s) \in Nat /\ Cardinality(r) < Cardinality(s)
  BY <1>0, <1>4, Fewer
<1> HIDE DEF r
<1>7. Cardinality(r) \in B
  BY <1>5, <1>6
<1> HIDE DEF B
<1> QED
  BY <1>2, <1>3, <1>6, <1>7

(* The fold over S that starts from base and takes the members in the      *)
(* order of ch: it is a function of the part of S that is taken.           *)
IsFold(it, S, base, ch, g) ==
    it = [s \in SUBSET S |-> IF s = {} THEN base ELSE g[<<ch[s], it[s \ {ch[s]}]>>]]
Chooser(ch, S) == \A s \in SUBSET S : s # {} => ch[s] \in s

FoldsAt(it, base, ch, g, s) == it[s] = IF s = {} THEN base ELSE g[<<ch[s], it[s \ {ch[s]}]>>]

(* There are such functions for the parts of S with at most n members, by  *)
(* induction on n.                                                         *)
LEMMA SmallFolds ==
    ASSUME NEW S, IsFiniteSet(S), NEW base, NEW ch, Chooser(ch, S), NEW g, NEW n \in Nat
    PROVE  \E it : \A s \in SUBSET S : Cardinality(s) <= n => FoldsAt(it, base, ch, g, s)
<1>0. ASSUME NEW s \in SUBSET S PROVE IsFiniteSet(s) /\ Cardinality(s) \in Nat
  BY FS_Subset, FS_CardinalityType
<1> DEFINE P == {k \in 0..n : \E it : \A s \in SUBSET S :
                                  Cardinality(s) <= k => FoldsAt(it, base, ch, g, s)}
<1>1. 0 \in P
  <2> DEFINE it == [s \in SUBSET S |-> base]
  <2>1. ASSUME NEW s \in SUBSET S, Cardinality(s) <= 0 PROVE s = {}
    BY <1>0, <2>1, FS_EmptySet
  <2>2. \A s \in SUBSET S : Cardinality(s) <= 0 => FoldsAt(it, base, ch, g, s)
    BY <2>1 DEF FoldsAt
  <2> QED
    BY <2>2
<1>2. ASSUME NEW k \in 0..(n - 1), k \in P PROVE k + 1 \in P
  <2>1. PICK f : \A s \in SUBSET S : Cardinality(s) <= k => FoldsAt(f, base, ch, g, s)
    BY <1>2
  <2> DEFINE it == [s \in SUBSET S |-> IF s = {} THEN base ELSE g[<<ch[s], f[s \ {ch[s]}]>>]]
  <2>2. ASSUME NEW s \in SUBSET S, Cardinality(s) <= k + 1 PROVE FoldsAt(it, base, ch, g, s)
    <3>1. CASE s = {}
      BY <3>1 DEF FoldsAt
    <3>2. CASE s # {}
      <4> DEFINE r == s \ {ch[s]}
      <4>1. ch[s] \in s /\ r \in SUBSET S
        BY <3>2 DEF Chooser
      <4>2. Cardinality(r) \in Nat /\ Cardinality(s) \in Nat /\ Cardinality(r) < Cardinality(s)
        BY <1>0, <4>1, Fewer
      <4>3. it[s] = g[<<ch[s], f[r]>>]
        BY <3>2
      <4> HIDE DEF r
      <4>4. Cardinality(r) <= k
        BY <2>2, <4>2
      <4>5. it[r] = f[r]
        BY <2>1, <4>1, <4>4 DEF FoldsAt
      <4> HIDE DEF it
      <4> QED
        BY <3>2, <4>3, <4>5 DEF r, FoldsAt
    <3> QED
      BY <3>1, <3>2
  <2>3. \A s \in SUBSET S : Cardinality(s) <= k + 1 => FoldsAt(it, base, ch, g, s)
    BY <2>2
  <2> HIDE DEF it
  <2> QED
    BY <2>3
<1>3. \A k \in 0..n : k \in P
  <2> HIDE DEF P
  <2> QED
    BY <1>1, <1>2, CountUp
<1>4. n \in P
  BY <1>3
<1> QED
  BY <1>4

(* There is one, and its values are of the type that g preserves.          *)
LEMMA TypedFold ==
    ASSUME NEW S, IsFiniteSet(S), NEW D, NEW base \in D, NEW ch, Chooser(ch, S),
           NEW g \in [S \X D -> D]
    PROVE  \E it \in [SUBSET S -> D] : IsFold(it, S, base, ch, g)
<1>1. Cardinality(S) \in Nat /\ \A s \in SUBSET S : Cardinality(s) <= Cardinality(S)
  BY FS_Subset, FS_CardinalityType
<1>2. PICK f : \A s \in SUBSET S : FoldsAt(f, base, ch, g, s)
  BY <1>1, SmallFolds
<1> DEFINE P == {s \in SUBSET S : f[s] \in D}
<1>3. {} \in P
  BY <1>2 DEF FoldsAt
<1>4. ASSUME NEW s \in SUBSET S, s # {} PROVE \E x \in s : s \ {x} \in P => s \in P
  <2>1. ch[s] \in s
    BY <1>4 DEF Chooser
  <2>2. ASSUME s \ {ch[s]} \in P PROVE s \in P
    <3>1. f[s] = g[<<ch[s], f[s \ {ch[s]}]>>]
      BY <1>2, <1>4 DEF FoldsAt
    <3>2. <<ch[s], f[s \ {ch[s]}]>> \in S \X D
      BY <2>1, <2>2
    <3> QED
      BY <3>1, <3>2
  <2> QED
    BY <2>1, <2>2
<1>5. \A s \in SUBSET S : s \in P
  <2> HIDE DEF P
  <2> QED
    BY <1>3, <1>4, GrowingSubsets
<1> DEFINE it == [s \in SUBSET S |-> f[s]]
<1>6. it \in [SUBSET S -> D]
  BY <1>5
<1>7. ASSUME NEW s \in SUBSET S
      PROVE  it[s] = IF s = {} THEN base ELSE g[<<ch[s], it[s \ {ch[s]}]>>]
  <2>1. it[s] = f[s] /\ it[s \ {ch[s]}] = f[s \ {ch[s]}]
    OBVIOUS
  <2> HIDE DEF it
  <2> QED
    BY <1>2, <2>1 DEF FoldsAt
<1>8. it = [s \in SUBSET S |-> it[s]]
  OBVIOUS
<1> HIDE DEF it
<1>9. IsFold(it, S, base, ch, g)
  BY <1>7, <1>8, Zenon DEF IsFold
<1> QED
  BY <1>6, <1>9

(* The values stay in D though g is only known to preserve it: a fold with *)
(* what agrees with g on D is one with g.                                  *)
LEMMA FoldAgrees ==
    ASSUME NEW S, IsFiniteSet(S), NEW D, NEW base \in D, NEW ch, Chooser(ch, S),
           NEW g \in [S \X D -> D], NEW wide,
           \A x \in S, d \in D : wide[<<x, d>>] = g[<<x, d>>],
           NEW it, IsFold(it, S, base, ch, wide)
    PROVE  it \in [SUBSET S -> D] /\ IsFold(it, S, base, ch, g)
<1>1. \A s \in SUBSET S : it[s] = IF s = {} THEN base ELSE wide[<<ch[s], it[s \ {ch[s]}]>>]
  BY Zenon DEF IsFold
<1>2. it = [s \in SUBSET S |-> it[s]]
  <2> DEFINE f == [s \in SUBSET S |-> IF s = {} THEN base ELSE wide[<<ch[s], it[s \ {ch[s]}]>>]]
  <2>1. it = f /\ f = [s \in SUBSET S |-> f[s]]
    BY Zenon DEF IsFold
  <2> HIDE DEF f
  <2> QED
    BY <2>1
<1> DEFINE P == {s \in SUBSET S : it[s] \in D}
<1>3. {} \in P
  BY <1>1
<1>4. ASSUME NEW s \in SUBSET S, s # {} PROVE \E x \in s : s \ {x} \in P => s \in P
  <2>1. ch[s] \in s
    BY <1>4 DEF Chooser
  <2>2. ASSUME s \ {ch[s]} \in P PROVE s \in P
    <3>1. it[s] = wide[<<ch[s], it[s \ {ch[s]}]>>]
      BY <1>1, <1>4
    <3>2. ch[s] \in S /\ it[s \ {ch[s]}] \in D
      BY <2>1, <2>2
    <3>3. it[s] = g[<<ch[s], it[s \ {ch[s]}]>>]
      BY <3>1, <3>2
    <3>4. <<ch[s], it[s \ {ch[s]}]>> \in S \X D
      BY <3>2
    <3> QED
      BY <3>3, <3>4
  <2> QED
    BY <2>1, <2>2
<1>5. \A s \in SUBSET S : it[s] \in D
  <2>1. \A s \in SUBSET S : s \in P
    <3> HIDE DEF P
    <3> QED
      BY <1>3, <1>4, GrowingSubsets
  <2> QED
    BY <2>1
<1>6. ASSUME NEW s \in SUBSET S
      PROVE  it[s] = IF s = {} THEN base ELSE g[<<ch[s], it[s \ {ch[s]}]>>]
  <2>1. CASE s = {}
    BY <1>1, <2>1
  <2>2. CASE s # {}
    <3>1. ch[s] \in S /\ it[s \ {ch[s]}] \in D
      <4>1. ch[s] \in s
        BY <2>2 DEF Chooser
      <4> QED
        BY <1>5, <4>1
    <3>2. wide[<<ch[s], it[s \ {ch[s]}]>>] = g[<<ch[s], it[s \ {ch[s]}]>>]
      BY <3>1
    <3> QED
      BY <1>1, <2>2, <3>2
  <2> QED
    BY <2>1, <2>2
<1> DEFINE f == [s \in SUBSET S |-> IF s = {} THEN base ELSE g[<<ch[s], it[s \ {ch[s]}]>>]]
<1>7. f = [s \in SUBSET S |-> it[s]]
  BY <1>6
<1>8. IsFold(it, S, base, ch, g)
  BY <1>2, <1>7, Zenon DEF IsFold
<1> QED
  BY <1>2, <1>5, <1>8

(* Every such function has values of the type.                             *)
LEMMA FoldTyped ==
    ASSUME NEW S, IsFiniteSet(S), NEW D, NEW base \in D, NEW ch, Chooser(ch, S),
           NEW g \in [S \X D -> D], NEW it, IsFold(it, S, base, ch, g)
    PROVE  it \in [SUBSET S -> D]
BY FoldAgrees

(* A fold over a list takes the last entry of what is left: from the first *)
(* one to the last, each entry changes the outcome of those before it.     *)
LastOf(n) == [s \in SUBSET (1..n) |-> Max(s)]
ListRun(h, n, base, g) == h[0] = base /\ \A k \in 0..(n - 1) : h[k + 1] = g[<<k + 1, h[k]>>]

(* LastOf chooses a member of each part, and of 1..k it is k.              *)
LEMMA LastChooses ==
    ASSUME NEW n \in Nat
    PROVE  IsFiniteSet(1..n) /\ Chooser(LastOf(n), 1..n) /\ \A k \in 1..n : LastOf(n)[1..k] = k
<1>1. IsFiniteSet(1..n)
  BY FS_Interval
<1>2. ASSUME NEW s \in SUBSET (1..n), s # {} PROVE Max(s) \in s /\ \A y \in s : y <= Max(s)
  <2>1. IsFiniteSet(s)
    BY <1>1, FS_Subset
  <2>2. s \in SUBSET Nat
    OBVIOUS
  <2> QED
    BY <1>2, <2>1, <2>2, MaxOfFinite
<1>3. \A s \in SUBSET (1..n) : LastOf(n)[s] = Max(s)
  BY DEF LastOf
<1>4. ASSUME NEW k \in 1..n PROVE LastOf(n)[1..k] = k
  <2>1. 1..k \in SUBSET (1..n) /\ k \in 1..k
    OBVIOUS
  <2>2. Max(1..k) \in 1..k /\ k <= Max(1..k)
    BY <1>2, <2>1
  <2> QED
    BY <1>3, <2>1, <2>2
<1> QED
  BY <1>1, <1>2, <1>3, <1>4 DEF Chooser

(* The fold over a list is such a run.                                     *)
LEMMA ListFold ==
    ASSUME NEW n \in Nat, NEW D, NEW base \in D, NEW g \in [(1..n) \X D -> D],
           NEW it, IsFold(it, 1..n, base, LastOf(n), g)
    PROVE  \E h \in [0..n -> D] : ListRun(h, n, base, g) /\ it[1..n] = h[n]
<1> DEFINE h == [k \in 0..n |-> it[1..k]]
<1>1. \A s \in SUBSET (1..n) :
          it[s] = IF s = {} THEN base ELSE g[<<LastOf(n)[s], it[s \ {LastOf(n)[s]}]>>]
  BY Zenon DEF IsFold
<1>2. it \in [SUBSET (1..n) -> D]
  BY LastChooses, FoldTyped
<1>3. h \in [0..n -> D]
  BY <1>2
<1>4. h[0] = base
  <2>1. 1..0 = {} /\ 0 \in 0..n /\ {} \in SUBSET (1..n)
    OBVIOUS
  <2>2. h[0] = it[{}]
    BY <2>1
  <2> QED
    BY <1>1, <2>1, <2>2
<1>5. ASSUME NEW k \in 0..(n - 1) PROVE h[k + 1] = g[<<k + 1, h[k]>>]
  <2>1. k \in 0..n /\ k + 1 \in 0..n /\ k + 1 \in 1..n /\ k + 1 \in 1..(k + 1)
    OBVIOUS
  <2>2. (1..(k + 1)) \ {k + 1} = 1..k /\ 1..(k + 1) # {} /\ 1..(k + 1) \in SUBSET (1..n)
    <3>1. k \in Nat /\ k + 1 <= n
      OBVIOUS
    <3>2. \A j : j \in 1..(k + 1) => j \in 1..n
      BY <3>1
    <3>3. \A j : j \in (1..(k + 1)) \ {k + 1} <=> j \in 1..k
      BY <3>1
    <3>4. (1..(k + 1)) \ {k + 1} = 1..k
      BY <3>3, Zenon
    <3> QED
      BY <2>1, <3>2, <3>4
  <2>3. LastOf(n)[1..(k + 1)] = k + 1
    BY <2>1, LastChooses
  <2>4. it[1..(k + 1)] = g[<<k + 1, it[1..k]>>]
    BY <1>1, <2>2, <2>3
  <2> QED
    BY <2>1, <2>4
<1>6. h[n] = it[1..n]
  OBVIOUS
<1> HIDE DEF h
<1> QED
  BY <1>3, <1>4, <1>5, <1>6 DEF ListRun

(* For a fold with what agrees with g on D.                                *)
FoldsList(it, wide, n, D, base, g) ==
    /\ base \in D /\ g \in [(1..n) \X D -> D]
    /\ \A x \in 1..n, d \in D : wide[<<x, d>>] = g[<<x, d>>]
    /\ IsFold(it, 1..n, base, LastOf(n), wide)

RunTo(r, n, D, base, g) == \E h \in [0..n -> D] : ListRun(h, n, base, g) /\ r = h[n]

(* The outcome is that of a run of g within D.                             *)
LEMMA ListOutcome ==
    ASSUME NEW n \in Nat, NEW D, NEW base, NEW g, NEW wide, NEW it,
           FoldsList(it, wide, n, D, base, g)
    PROVE  RunTo(it[1..n], n, D, base, g)
<1>1. base \in D
  BY DEF FoldsList
<1>2. g \in [(1..n) \X D -> D]
  BY DEF FoldsList
<1>3. IsFold(it, 1..n, base, LastOf(n), g)
  <2>1. \A x \in 1..n, d \in D : wide[<<x, d>>] = g[<<x, d>>]
    BY DEF FoldsList
  <2>2. IsFiniteSet(1..n) /\ Chooser(LastOf(n), 1..n)
    BY LastChooses
  <2>3. IsFold(it, 1..n, base, LastOf(n), wide)
    BY DEF FoldsList
  <2> QED
    BY <1>1, <1>2, <2>1, <2>2, <2>3, FoldAgrees, Zenon
<1>4. \E h \in [0..n -> D] : ListRun(h, n, base, g) /\ it[1..n] = h[n]
  BY <1>1, <1>2, <1>3, ListFold
<1> QED
  BY <1>4 DEF RunTo

(* A fold over a set takes its members in an order that CHOOSE fixes.      *)
ChosenOf(S) == [s \in SUBSET S |-> CHOOSE x \in s : TRUE]

(* There is such a fold, with values of the type.                          *)
LEMMA SetFold ==
    ASSUME NEW S, IsFiniteSet(S), NEW D, NEW base \in D, NEW g \in [S \X D -> D]
    PROVE  /\ Chooser(ChosenOf(S), S)
           /\ \E it : IsFold(it, S, base, ChosenOf(S), g)
           /\ \A it : IsFold(it, S, base, ChosenOf(S), g) => it \in [SUBSET S -> D]
<1>1. Chooser(ChosenOf(S), S)
  BY DEF Chooser, ChosenOf
<1> QED
  BY <1>1, TypedFold, FoldTyped
=============================================================================
