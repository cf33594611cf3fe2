-------------------------- MODULE LabelCalls_proofs --------------------------
(***************************************************************************)
(* The operations on block labels keep the labels of every index and leave *)
(* no empty product, for any product tables, any number of indexes and     *)
(* blocks, and any number of calls. The parts follow the modules: lists    *)
(* and labelings (block_labeling), the transfer of labels, the evaluation  *)
(* rules (er_optimize, er_merge, er_reduce), combine_label, each operation *)
(* on se_label, and the calls.                                             *)
(***************************************************************************)
EXTENDS LabelCalls, Loops_proofs

-----------------------------------------------------------------------------
(* Finite sets *)

(* What a function makes of a finite set is finite.                        *)
LEMMA ImageFinite ==
    ASSUME NEW S, IsFiniteSet(S), NEW f
    PROVE  IsFiniteSet({f[x] : x \in S})
<1> DEFINE T == {f[x] : x \in S}
           g == [x \in S |-> f[x]]
<1>1. g \in Surjection(S, T)
  BY DEF Surjection
<1> QED
  BY <1>1, FS_Surjection

(* There are finitely many functions between finite sets.                  *)
LEMMA FunctionsFinite ==
    ASSUME NEW S, IsFiniteSet(S), NEW T, IsFiniteSet(T)
    PROVE  IsFiniteSet([S -> T])
<1> DEFINE graph == [f \in [S -> T] |-> {<<x, f[x]>> : x \in S}]
<1>1. IsFiniteSet(SUBSET (S \X T))
  BY FS_Product, FS_SUBSET
<1>2. graph \in [[S -> T] -> SUBSET (S \X T)]
  OBVIOUS
<1>3. ASSUME NEW f \in [S -> T], NEW h \in [S -> T], graph[f] = graph[h]
      PROVE  f = h
  <2>1. ASSUME NEW x \in S PROVE f[x] = h[x]
    <3>1. <<x, f[x]>> \in {<<y, h[y]>> : y \in S}
      BY <1>3
    <3> QED
      BY <3>1
  <2> QED
    BY <2>1
<1>4. graph \in Injection([S -> T], SUBSET (S \X T))
  BY <1>2, <1>3 DEF Injection, IsInjective
<1> QED
  BY <1>1, <1>4, FS_Injection

-----------------------------------------------------------------------------
(* Sorting a finite set of numbers *)

(* The place of a number tells it, and every place is taken.               *)
LEMMA Places ==
    ASSUME NEW S \in SUBSET Nat, IsFiniteSet(S)
    PROVE  /\ Cardinality(S) \in Nat
           /\ \A x \in S : PlaceOf(S, x) \in 0..(Cardinality(S) - 1)
           /\ \A x, y \in S : PlaceOf(S, x) = PlaceOf(S, y) => x = y
           /\ \A j \in 0..(Cardinality(S) - 1) : \E x \in S : PlaceOf(S, x) = j
<1> DEFINE n == Cardinality(S)
           below(x) == {y \in S : y < x}
           rank == [x \in S |-> PlaceOf(S, x)]
<1>1. n \in Nat
  BY FS_CardinalityType
<1>2. ASSUME NEW x \in S PROVE rank[x] = Cardinality(below(x)) /\ rank[x] \in 0..(n - 1)
  <2>1. below(x) \in SUBSET S /\ x \notin below(x)
    OBVIOUS
  <2>2. Cardinality(below(x)) \in Nat /\ Cardinality(below(x)) < n
    BY <2>1, Fewer
  <2>3. rank[x] = Cardinality(below(x))
    BY DEF PlaceOf
  <2> QED
    BY <1>1, <2>2, <2>3
<1>3. ASSUME NEW x \in S, NEW y \in S, x < y PROVE rank[x] < rank[y]
  <2>1. IsFiniteSet(below(y)) /\ below(x) \in SUBSET below(y) /\ x \in below(y) /\ x \notin below(x)
    <3>0. \A z \in S : z \in Nat
      OBVIOUS
    <3>1. \A z \in S : z < x => z < y
      BY <1>3, <3>0
    <3>2. below(y) \in SUBSET S
      OBVIOUS
    <3>3. IsFiniteSet(below(y))
      BY <3>2, FS_Subset
    <3>4. ~(x < x)
      BY <3>0
    <3> QED
      BY <1>3, <3>1, <3>3, <3>4
  <2> HIDE DEF below
  <2>2. Cardinality(below(x)) < Cardinality(below(y))
    BY <2>1, Fewer
  <2> QED
    BY <1>2, <2>2
<1>4. ASSUME NEW x \in S, NEW y \in S, rank[x] = rank[y] PROVE x = y
  <2>0. rank[x] \in 0..(n - 1) /\ rank[y] \in 0..(n - 1)
    BY <1>2
  <2> HIDE DEF rank
  <2>1. x \in Nat /\ y \in Nat /\ ~(x < y) /\ ~(y < x)
    BY <1>1, <1>3, <1>4, <2>0
  <2> QED
    BY <2>1
<1> HIDE DEF rank
<1>5. rank \in [S -> 0..(n - 1)]
  <2>1. rank = [x \in S |-> rank[x]]
    BY DEF rank
  <2> QED
    BY <1>2, <2>1
<1>6. rank \in Injection(S, 0..(n - 1))
  BY <1>4, <1>5 DEF Injection, IsInjective
<1>7. IsFiniteSet(0..(n - 1)) /\ Cardinality(0..(n - 1)) = n
  <2> HIDE DEF n
  <2>1. n - 1 \in Int /\ 0 \in Int /\ (IF 0 > n - 1 THEN 0 ELSE (n - 1) - 0 + 1) = n
    BY <1>1
  <2> QED
    BY <2>1, FS_Interval
<1>8. rank \in Surjection(S, 0..(n - 1))
  BY <1>6, <1>7, FS_Injection
<1>9. \A x \in S : rank[x] = PlaceOf(S, x)
  BY DEF rank
<1> HIDE DEF n
<1>10. \A j \in 0..(n - 1) : \E x \in S : rank[x] = j
  BY <1>8 DEF Surjection
<1> QED
  BY <1>1, <1>2, <1>4, <1>9, <1>10 DEF n

(* Sorted(S) lists the members of S by their places.                       *)
LEMMA SortedSet ==
    ASSUME NEW S \in SUBSET Nat, IsFiniteSet(S)
    PROVE  /\ Cardinality(S) \in Nat
           /\ Sorted(S) \in [0..(Cardinality(S) - 1) -> S]
           /\ \A j \in 0..(Cardinality(S) - 1) : PlaceOf(S, Sorted(S)[j]) = j
           /\ \A x \in S : PlaceOf(S, x) \in 0..(Cardinality(S) - 1) /\ Sorted(S)[PlaceOf(S, x)] = x
<1> DEFINE N == 0..(Cardinality(S) - 1)
<1>1. Sorted(S) = [j \in N |-> CHOOSE x \in S : PlaceOf(S, x) = j]
  BY DEF Sorted, Ranked, PlaceOf
<1>2. \A j \in N : Sorted(S)[j] \in S /\ PlaceOf(S, Sorted(S)[j]) = j
  BY <1>1, Places
<1>3. Sorted(S) \in [N -> S]
  BY <1>1, <1>2
<1>4. /\ Cardinality(S) \in Nat
      /\ \A x \in S : PlaceOf(S, x) \in N
      /\ \A x, y \in S : PlaceOf(S, x) = PlaceOf(S, y) => x = y
  BY Places
<1> HIDE DEF N
<1>5. ASSUME NEW x \in S PROVE Sorted(S)[PlaceOf(S, x)] = x
  BY <1>2, <1>4
<1> QED
  BY <1>2, <1>3, <1>4, <1>5 DEF N
-----------------------------------------------------------------------------
(* Labelings *)

Vector(d) == [0..(d - 1) -> Int]
Vectors1 == UNION {Vector(d) : d \in Nat}
Of(bl, i) == bl.labels[bl.type[i]]
(* Those of a tensor whose indexes have as many blocks as dims says. *)
Labelings(dims) ==
    {bl \in [type : [DOMAIN dims -> Nat], labels : UNION {[0..(m - 1) -> Vectors1] : m \in Nat}] :
        \A i \in DOMAIN dims : bl.type[i] \in DOMAIN bl.labels /\ Of(bl, i) \in Vector(dims[i])}
OneType(bl, msk) == \A i, j \in msk : bl.type[i] = bl.type[j]

(* A record of types and labels is a labeling if the types name rows that  *)
(* fit.                                                                    *)
LEMMA MakeLabeling ==
    ASSUME NEW n \in Nat, NEW dims \in [0..(n - 1) -> Nat],
           NEW type \in [0..(n - 1) -> Nat], NEW m \in Nat, NEW rows \in [0..(m - 1) -> Vectors1],
           \A i \in 0..(n - 1) : type[i] \in 0..(m - 1) /\ rows[type[i]] \in Vector(dims[i])
    PROVE  [type |-> type, labels |-> rows] \in Labelings(dims)
<1>1. DOMAIN dims = 0..(n - 1) /\ DOMAIN rows = 0..(m - 1)
  OBVIOUS
<1>2. rows \in UNION {[0..(k - 1) -> Vectors1] : k \in Nat}
  OBVIOUS
<1> DEFINE bl == [type |-> type, labels |-> rows]
<1>3. bl.type = type /\ bl.labels = rows
  OBVIOUS
<1>4. \A i \in DOMAIN dims : bl.type[i] \in DOMAIN bl.labels /\ Of(bl, i) \in Vector(dims[i])
  BY <1>1, <1>3 DEF Of
<1>5. bl \in [type : [DOMAIN dims -> Nat], labels : UNION {[0..(k - 1) -> Vectors1] : k \in Nat}]
  BY <1>1, <1>2
<1> HIDE DEF bl
<1> QED
  BY <1>4, <1>5 DEF Labelings, bl

Put(f, k, l) == [f EXCEPT ![k] = l]

(* assign may write labels of indexes that have one type and one number of *)
(* blocks: the labels of these indexes change, of no other.                *)
MayAssign(n, dims, bl, msk, l) ==
    /\ n \in Nat /\ dims \in [0..(n - 1) -> Nat] /\ bl \in Labelings(dims)
    /\ msk \in SUBSET (0..(n - 1)) /\ msk # {} /\ OneType(bl, msk) /\ l \in Int
Assigned(n, dims, bl, msk, blk, l, r) ==
    /\ r \in Labelings(dims)
    /\ \A i \in msk : Of(r, i) = Put(Of(bl, i), blk, l)
    /\ OneType(r, msk)
    /\ \A i \in (0..(n - 1)) \ msk : r.type[i] = bl.type[i] /\ Of(r, i) = Of(bl, i)

(* What assign writes to: the labels of the indexes of msk, of no other.   *)
LEMMA AssignRight ==
    ASSUME NEW n, NEW dims, NEW bl, NEW msk, NEW blk, NEW l, MayAssign(n, dims, bl, msk, l)
    PROVE  Assigned(n, dims, bl, msk, blk, l, assign(bl, msk, blk, l))
<1>0. /\ n \in Nat /\ dims \in [0..(n - 1) -> Nat] /\ bl \in Labelings(dims)
      /\ msk \in SUBSET (0..(n - 1)) /\ msk # {} /\ OneType(bl, msk) /\ l \in Int
  BY DEF MayAssign
<1> USE <1>0
<1> DEFINE N == 0..(n - 1)
           r == assign(bl, msk, blk, l)
           type == bl.type[Min(msk)]
           fresh == Cardinality(DOMAIN bl.labels)
           shared == \E i \in N \ msk : bl.type[i] = type
           changed == Put(bl.labels[type], blk, l)
<1>1. PICK m \in Nat : bl.labels \in [0..(m - 1) -> Vectors1]
  BY DEF Labelings
<1>2. /\ bl = [type |-> bl.type, labels |-> bl.labels] /\ bl.type \in [N -> Nat]
      /\ DOMAIN bl.labels = 0..(m - 1)
      /\ \A i \in N : bl.type[i] \in 0..(m - 1) /\ bl.labels[bl.type[i]] \in Vector(dims[i])
  BY <1>1 DEF Labelings, Of
<1>3. Min(msk) \in msk /\ \A i \in msk : bl.type[i] = type
  <2>1. msk \in SUBSET Nat
    OBVIOUS
  <2> QED
    BY <2>1, MinOfNaturals DEF OneType
<1>4. fresh = m
  <2>1. 0 \in Int /\ m - 1 \in Int /\ (IF 0 > m - 1 THEN 0 ELSE (m - 1) - 0 + 1) = m
    BY <1>1
  <2> QED
    BY <1>2, <2>1, FS_Interval
<1>5. r = IF ~shared THEN [bl EXCEPT !.labels[type][blk] = l]
          ELSE [type   |-> [i \in N |-> IF i \in msk THEN m ELSE bl.type[i]],
                labels |-> [t1 \in (0..(m - 1)) \cup {m} |->
                              IF t1 # m THEN bl.labels[t1] ELSE changed]]
  BY <1>2, <1>4 DEF assign, Put
<1>6. type \in 0..(m - 1) /\ \A d \in Nat : bl.labels[type] \in Vector(d) => changed \in Vector(d)
  BY <1>2, <1>3 DEF Vector, Put
<1>7. \A i \in msk : changed \in Vector(dims[i])
  BY <1>2, <1>3, <1>6
<1>8. changed \in Vectors1
  BY <1>3, <1>7 DEF Vectors1
<1> HIDE DEF type, changed, fresh, shared, r
<1>9. ASSUME ~shared PROVE Assigned(n, dims, bl, msk, blk, l, r)
  <2>1. r = [type |-> bl.type, labels |-> [bl.labels EXCEPT ![type] = changed]]
    <3>1. r = [bl EXCEPT !.labels[type][blk] = l]
      BY <1>5, <1>9
    <3> QED
      BY <1>2, <3>1 DEF changed, Put
  <2>2. [bl.labels EXCEPT ![type] = changed] \in [0..(m - 1) -> Vectors1]
    BY <1>1, <1>6, <1>8
  <2>3. \A i \in N : i \in msk <=> bl.type[i] = type
    BY <1>3, <1>9 DEF shared
  <2>4. \A i \in msk : r.type[i] = type /\ Of(r, i) = changed
    BY <1>1, <1>3, <1>6, <2>1 DEF Of
  <2>5. \A i \in N \ msk : r.type[i] = bl.type[i] /\ Of(r, i) = Of(bl, i)
    BY <1>1, <1>2, <2>1, <2>3 DEF Of
  <2>6. \A i \in N : r.type[i] \in DOMAIN r.labels /\ Of(r, i) \in Vector(dims[i])
    <3>1. DOMAIN r.labels = 0..(m - 1)
      BY <2>1, <2>2
    <3>2. \A i \in N : r.type[i] \in DOMAIN r.labels
      BY <1>2, <2>1, <3>1
    <3>3. \A i \in N : Of(r, i) \in Vector(dims[i])
      BY <1>2, <1>7, <2>4, <2>5 DEF Of
    <3> QED
      BY <3>2, <3>3
  <2> DEFINE la == [bl.labels EXCEPT ![type] = changed]
  <2> HIDE DEF la
  <2>7. r \in Labelings(dims)
    <3>1. r = [type |-> bl.type, labels |-> la] /\ la \in [0..(m - 1) -> Vectors1] /\ DOMAIN r.labels = 0..(m - 1)
      BY <2>1, <2>2 DEF la
    <3>2. \A i \in N : bl.type[i] \in 0..(m - 1) /\ la[bl.type[i]] \in Vector(dims[i])
      BY <2>6, <3>1 DEF Of
    <3> QED
      BY <1>1, <1>2, <3>1, <3>2, MakeLabeling
  <2> QED
    BY <1>3, <2>4, <2>5, <2>7 DEF Assigned, OneType, Of, changed
<1>10. ASSUME shared PROVE Assigned(n, dims, bl, msk, blk, l, r)
  <2> DEFINE ty == [i \in N |-> IF i \in msk THEN m ELSE bl.type[i]]
             la == [t1 \in 0..m |-> IF t1 # m THEN bl.labels[t1] ELSE changed]
  <2>1. r = [type |-> ty, labels |-> la]
    <3>1. (0..(m - 1)) \cup {m} = 0..m
      BY <1>1
    <3> QED
      BY <1>5, <1>10, <3>1
  <2>2. la \in [0..m -> Vectors1] /\ m = (m + 1) - 1 /\ m + 1 \in Nat
    <3>1. \A t1 \in 0..m : t1 # m => t1 \in 0..(m - 1)
      BY <1>1
    <3> QED
      BY <1>1, <1>8, <3>1
  <2>3. ty \in [N -> Nat]
    BY <1>1, <1>2
  <2>4. \A i \in msk : ty[i] = m /\ la[m] = changed
    BY <1>1
  <2>5. \A i \in N \ msk : ty[i] = bl.type[i] /\ bl.type[i] \in 0..m /\ la[bl.type[i]] = bl.labels[bl.type[i]]
    <3>1. \A i \in N : bl.type[i] \in 0..m /\ bl.type[i] # m
      BY <1>1, <1>2
    <3> QED
      BY <3>1
  <2> HIDE DEF ty, la
  <2>6. la \in UNION {[0..(k - 1) -> Vectors1] : k \in Nat}
    BY <2>2
  <2>7. ASSUME NEW i \in N PROVE ty[i] \in 0..m /\ la[ty[i]] \in Vector(dims[i])
    <3>1. CASE i \in msk
      BY <1>1, <1>7, <2>4, <3>1
    <3>2. CASE i \notin msk
      BY <1>2, <2>5, <3>2
    <3> QED
      BY <3>1, <3>2
  <2>8. r \in Labelings(dims)
    <3>1. m + 1 \in Nat /\ (m + 1) - 1 = m
      BY <1>1
    <3> QED
      BY <2>1, <2>2, <2>3, <2>7, <3>1, MakeLabeling
  <2> QED
    BY <1>3, <2>1, <2>4, <2>5, <2>8 DEF Assigned, OneType, Of, changed
<1> QED
  BY <1>9, <1>10 DEF r
-----------------------------------------------------------------------------
(* A new labeling *)

Blank(d) == [k \in 0..(d - 1) |-> invalid]

FirstOfSize(dims, d) == Min({i \in DOMAIN dims : dims[i] = d})
NewType(dims) ==
    [i \in DOMAIN dims |-> Cardinality({d \in {dims[j] : j \in DOMAIN dims} :
                                           FirstOfSize(dims, d) < FirstOfSize(dims, dims[i])})]
Unlabeled(dims, type) ==
    [type |-> type,
     labels |-> [k \in Range(type) |-> Blank(dims[CHOOSE i \in DOMAIN type : type[i] = k])]]

(* The constructor of block_labeling, in parts.                            *)
LEMMA NewParts ==
    ASSUME NEW dims
    PROVE  NewLabeling(dims) = Unlabeled(dims, NewType(dims))
BY Zenon DEF NewLabeling, NewType, FirstOfSize, Blank, Unlabeled

(* A new labeling has no labels, and one type for each number of blocks.   *)
LEMMA NewRight ==
    ASSUME NEW n \in Nat, NEW dims \in [0..(n - 1) -> Nat]
    PROVE  LET r == NewLabeling(dims)
           IN  /\ r \in Labelings(dims)
               /\ \A i \in 0..(n - 1) : Of(r, i) = Blank(dims[i])
               /\ \A i, j \in 0..(n - 1) : dims[i] = dims[j] => r.type[i] = r.type[j]
<1> DEFINE N == 0..(n - 1)
           r == NewLabeling(dims)
           sizes == {dims[i] : i \in N}
           first == [d \in sizes |-> Min({i \in N : dims[i] = d})]
           F == {first[d] : d \in sizes}
           type == [i \in N |-> PlaceOf(F, first[dims[i]])]
           m == Cardinality(F)
<1>0. \A d \in sizes : first[d] = FirstOfSize(dims, d)
  BY DEF FirstOfSize
<1>1. DOMAIN dims = N /\ IsFiniteSet(N) /\ IsFiniteSet(sizes)
  <2>1. IsFiniteSet(N)
    BY FS_Interval
  <2> QED
    BY <2>1, ImageFinite
<1>2. ASSUME NEW d \in sizes PROVE first[d] \in N /\ dims[first[d]] = d
  <2>1. {i \in N : dims[i] = d} # {} /\ {i \in N : dims[i] = d} \in SUBSET Nat
    OBVIOUS
  <2>2. Min({i \in N : dims[i] = d}) \in {i \in N : dims[i] = d}
    BY <2>1, MinOfNaturals
  <2> QED
    BY <2>2
<1>7. \A i \in N : dims[i] \in sizes /\ first[dims[i]] \in F
  OBVIOUS
<1>s. /\ r = Unlabeled(dims, NewType(dims))
      /\ NewType(dims) = [i \in N |-> Cardinality({d \in sizes : FirstOfSize(dims, d) < FirstOfSize(dims, dims[i])})]
  <2>1. NewType(dims) = [i \in N |-> Cardinality({d \in sizes : FirstOfSize(dims, d) < FirstOfSize(dims, dims[i])})]
    BY <1>1 DEF NewType
  <2> QED
    BY <2>1, NewParts
<1> HIDE DEF r, first, sizes
<1>3. F \in SUBSET Nat /\ IsFiniteSet(F)
  <2>1. F \in SUBSET Nat
    BY <1>2
  <2>2. IsFiniteSet(F)
    BY <1>1, ImageFinite
  <2> QED
    BY <2>1, <2>2
<1>4. ASSUME NEW x \in Nat
      PROVE  Cardinality({d \in sizes : first[d] < x}) = PlaceOf(F, x)
  <2> DEFINE A == {d \in sizes : first[d] < x}
             B == {y \in F : y < x}
             f == [d \in A |-> first[d]]
  <2>1. IsFiniteSet(A)
    BY <1>1, FS_Subset
  <2>2. f \in [A -> B]
    BY <1>2
  <2>3. \A d, e \in A : f[d] = f[e] => d = e
    BY <1>2
  <2>4. \A y \in B : \E d \in A : f[d] = y
    OBVIOUS
  <2> HIDE DEF A, B, f
  <2>5. f \in Bijection(A, B)
    BY <2>2, <2>3, <2>4 DEF Bijection, Injection, Surjection, IsInjective
  <2>6. Cardinality(B) = Cardinality(A)
    BY <2>1, <2>5, FS_Bijection DEF ExistsBijection
  <2> QED
    BY <2>6 DEF A, B, PlaceOf
<1>5. r = Unlabeled(dims, type)
  <2>1. ASSUME NEW i \in N
        PROVE  Cardinality({d \in sizes : FirstOfSize(dims, d) < FirstOfSize(dims, dims[i])})
                 = PlaceOf(F, first[dims[i]])
    <3>1. first[dims[i]] \in Nat
      BY <1>2, <1>7
    <3>2. {d \in sizes : FirstOfSize(dims, d) < FirstOfSize(dims, dims[i])} = {d \in sizes : first[d] < first[dims[i]]}
      BY <1>0, <1>7
    <3> HIDE DEF F
    <3> QED
      BY <1>4, <3>1, <3>2
  <2>2. NewType(dims) = type
    <3> HIDE DEF F
    <3> QED
      BY <1>s, <2>1
  <2> HIDE DEF type
  <2> QED
    BY <1>s, <2>2
<1>6. /\ m \in Nat
      /\ \A x \in F : PlaceOf(F, x) \in 0..(m - 1)
      /\ \A x, y \in F : PlaceOf(F, x) = PlaceOf(F, y) => x = y
      /\ \A j \in 0..(m - 1) : \E x \in F : PlaceOf(F, x) = j
  BY <1>3, Places
<1> HIDE DEF F, m
<1>8. type \in [N -> Nat] /\ \A i \in N : type[i] \in 0..(m - 1)
  BY <1>6, <1>7
<1>9. Range(type) = 0..(m - 1)
  <2>1. ASSUME NEW j \in 0..(m - 1) PROVE j \in Range(type)
    <3>1. PICK x \in F : PlaceOf(F, x) = j
      BY <1>6
    <3>2. PICK d \in sizes : x = first[d]
      BY DEF F
    <3>3. PICK i \in N : dims[i] = d
      BY DEF sizes
    <3>4. type[i] = j
      BY <3>1, <3>2, <3>3
    <3> QED
      BY <3>4 DEF Range
  <2> QED
    BY <1>8, <2>1 DEF Range
<1>10. ASSUME NEW i \in N, NEW j \in N PROVE type[i] = type[j] <=> dims[i] = dims[j]
  <2>1. type[i] = type[j] => first[dims[i]] = first[dims[j]]
    BY <1>6, <1>7
  <2> QED
    BY <1>2, <1>7, <2>1
<1>11. \A i \in N : type[i] = PlaceOf(F, first[dims[i]])
  OBVIOUS
<1> HIDE DEF type
<1> DEFINE rows == [k \in 0..(m - 1) |-> Blank(dims[CHOOSE i \in N : type[i] = k])]
<1>12. r = [type |-> type, labels |-> rows]
  BY <1>5, <1>8, <1>9 DEF Unlabeled
<1>13. \A i \in N : rows[type[i]] = Blank(dims[i])
  <2> SUFFICES ASSUME NEW i \in N PROVE rows[type[i]] = Blank(dims[i])
    OBVIOUS
  <2> DEFINE c == CHOOSE j \in N : type[j] = type[i]
  <2>1. c \in N /\ type[c] = type[i]
    OBVIOUS
  <2>2. dims[c] = dims[i]
    BY <1>10, <2>1
  <2>3. rows[type[i]] = Blank(dims[c])
    BY <1>8
  <2> QED
    BY <2>2, <2>3
<1>14. \A d \in Nat : Blank(d) \in Vector(d) /\ Blank(d) \in Vectors1
  <2>1. invalid \in Int
    BY DEF invalid
  <2>2. \A d \in Nat : Blank(d) \in Vector(d)
    BY <2>1 DEF Blank, Vector
  <2> QED
    BY <2>2 DEF Vectors1
<1>15. rows \in [0..(m - 1) -> Vectors1]
  <2>1. ASSUME NEW k \in 0..(m - 1) PROVE \E i \in N : type[i] = k
    BY <1>9 , <1>8 DEF Range
  <2>2. \A k \in 0..(m - 1) : dims[CHOOSE i \in N : type[i] = k] \in Nat
    BY <2>1
  <2> QED
    BY <1>14, <2>2
<1> HIDE DEF rows
<1>16. \A i \in N : rows[type[i]] \in Vector(dims[i])
  BY <1>13, <1>14
<1>17. r \in Labelings(dims)
  BY <1>6, <1>8, <1>12, <1>15, <1>16, MakeLabeling
<1> QED
  BY <1>10, <1>12, <1>13, <1>17 DEF Of, r
FirstLike(bl, i) == Min({j \in DOMAIN bl.type : Of(bl, j) = Of(bl, i)})
Firsts(bl) == {FirstLike(bl, i) : i \in DOMAIN bl.type}
MatchedBy(bl, firsts) ==
    [type   |-> [i \in DOMAIN bl.type |-> CHOOSE k \in DOMAIN firsts : firsts[k] = FirstLike(bl, i)],
     labels |-> [k \in DOMAIN firsts |-> Of(bl, firsts[k])]]

(* match, in parts.                                                        *)
LEMMA MatchParts ==
    ASSUME NEW bl
    PROVE  match(bl) = MatchedBy(bl, Sorted(Firsts(bl)))
BY Zenon DEF match, MatchedBy, Firsts, FirstLike, Of

(* match renumbers the types, and every index keeps its labels.            *)
LEMMA MatchRight ==
    ASSUME NEW n \in Nat, NEW dims \in [0..(n - 1) -> Nat], NEW bl \in Labelings(dims)
    PROVE  /\ match(bl) \in Labelings(dims)
           /\ \A i \in 0..(n - 1) : Of(match(bl), i) = Of(bl, i)
<1> DEFINE N == 0..(n - 1)
           S == Firsts(bl)
           firsts == Sorted(S)
           m == Cardinality(S)
           type == [i \in N |-> CHOOSE k \in 0..(m - 1) : firsts[k] = FirstLike(bl, i)]
           rows == [k \in 0..(m - 1) |-> Of(bl, firsts[k])]
<1>1. DOMAIN bl.type = N /\ \A i \in N : Of(bl, i) \in Vector(dims[i])
  BY DEF Labelings
<1>2. ASSUME NEW i \in N
      PROVE  FirstLike(bl, i) \in N /\ Of(bl, FirstLike(bl, i)) = Of(bl, i)
  <2> DEFINE A == {j \in N : Of(bl, j) = Of(bl, i)}
  <2>1. A # {} /\ A \in SUBSET Nat
    OBVIOUS
  <2>2. Min(A) \in A
    BY <2>1, MinOfNaturals
  <2>3. FirstLike(bl, i) = Min(A)
    BY <1>1 DEF FirstLike
  <2> QED
    BY <2>2, <2>3
<1>3. S \in SUBSET N /\ S \in SUBSET Nat /\ IsFiniteSet(S)
  <2>1. S \in SUBSET N
    BY <1>1, <1>2 DEF Firsts
  <2>2. IsFiniteSet(N)
    BY FS_Interval
  <2> QED
    BY <2>1, <2>2, FS_Subset
<1>4. /\ m \in Nat /\ firsts \in [0..(m - 1) -> S]
      /\ \A x \in S : \E k \in 0..(m - 1) : firsts[k] = x
  BY <1>3, SortedSet
<1>5. match(bl) = [type |-> type, labels |-> rows]
  <2> HIDE DEF firsts, m, S
  <2>1. DOMAIN firsts = 0..(m - 1)
    BY <1>4
  <2>2. MatchedBy(bl, firsts) = [type |-> type, labels |-> rows]
    BY <1>1, <2>1 DEF MatchedBy
  <2>3. match(bl) = MatchedBy(bl, firsts)
    BY MatchParts DEF firsts, S
  <2> QED
    BY <2>2, <2>3
<1>6. \A i \in N : FirstLike(bl, i) \in S
  BY <1>1 DEF Firsts
<1> HIDE DEF S, firsts, m
<1>7. ASSUME NEW i \in N PROVE type[i] \in 0..(m - 1) /\ rows[type[i]] = Of(bl, i)
  <2>1. type[i] \in 0..(m - 1) /\ firsts[type[i]] = FirstLike(bl, i)
    BY <1>4, <1>6
  <2> HIDE DEF type
  <2> QED
    BY <1>2, <2>1
<1>8. rows \in [0..(m - 1) -> Vectors1]
  <2>1. \A k \in 0..(m - 1) : Of(bl, firsts[k]) \in Vectors1
    <3>1. \A k \in 0..(m - 1) : firsts[k] \in N
      BY <1>3, <1>4
    <3> QED
      BY <1>1, <3>1 DEF Vectors1
  <2> QED
    BY <2>1
<1>9. type \in [N -> Nat]
  <2>2. type = [i \in N |-> type[i]]
    OBVIOUS
  <2> HIDE DEF type
  <2>3. m \in Nat /\ \A i \in N : type[i] \in 0..(m - 1)
    BY <1>7, <1>4
  <2>1. \A i \in N : type[i] \in Nat
    BY <2>3
  <2> QED
    BY <2>1, <2>2
<1> HIDE DEF type, rows
<1>10. \A i \in N : type[i] \in 0..(m - 1) /\ rows[type[i]] \in Vector(dims[i])
  BY <1>1, <1>7
<1>11. match(bl) \in Labelings(dims)
  <2>1. m \in Nat
    BY <1>4
  <2> QED
    BY <1>5, <1>8, <1>9, <1>10, <2>1, MakeLabeling
<1> QED
  BY <1>5, <1>7, <1>11 DEF Of
-----------------------------------------------------------------------------
(* Copying labels to other indexes *)

Written(list, to, msk, bl, i) ==
    FoldLeft(LAMBDA to1, k : assign(to1, msk, k - 1, get_label(bl, i, k - 1)), to, list)
WrittenIter(list, to, msk, bl, i) ==
    CHOOSE it : it = [s \in SUBSET (DOMAIN list) |->
        IF s = {} THEN to
        ELSE assign(it[s \ {Max(s)}], msk, list[Max(s)] - 1, get_label(bl, i, list[Max(s)] - 1))]

(* The inner loop of transfer_labeling is a fold over the blocks.          *)
LEMMA WrittenParts ==
    ASSUME NEW list, NEW to, NEW msk, NEW bl, NEW i
    PROVE  Written(list, to, msk, bl, i) = WrittenIter(list, to, msk, bl, i)[DOMAIN list]
BY Zenon DEF Written, WrittenIter, FoldLeft, MapThenFoldSet

(* The inner loop of transfer_labeling: the indexes of msk get the labels  *)
(* of an index of bl, the others keep theirs.                              *)
Copied(to, msk, bl, i) == Written([k \in 1..get_dim(bl, i) |-> k], to, msk, bl, i)

(* The inner loop copies the labels of one index to the indexes of its     *)
(* type.                                                                   *)
LEMMA CopyRight ==
    ASSUME NEW n \in Nat, NEW dims \in [0..(n - 1) -> Nat], NEW to \in Labelings(dims),
           NEW msk \in SUBSET (0..(n - 1)), msk # {}, OneType(to, msk),
           NEW bl, NEW i, NEW d \in Nat, Of(bl, i) \in Vector(d), \A j \in msk : dims[j] = d
    PROVE  LET r == Copied(to, msk, bl, i)
           IN  /\ r \in Labelings(dims)
               /\ \A j \in msk : Of(r, j) = Of(bl, i)
               /\ OneType(r, msk)
               /\ \A j \in (0..(n - 1)) \ msk : r.type[j] = to.type[j] /\ Of(r, j) = Of(to, j)
<1>0. ASSUME NEW x, x \in Labelings(dims), OneType(x, msk), NEW b, NEW l \in Int, NEW z, z = assign(x, msk, b, l)
      PROVE  /\ z \in Labelings(dims)
             /\ \A j \in msk : Of(z, j) = Put(Of(x, j), b, l)
             /\ OneType(z, msk)
             /\ \A j \in (0..(n - 1)) \ msk : z.type[j] = x.type[j] /\ Of(z, j) = Of(x, j)
  <2>1. MayAssign(n, dims, x, msk, l)
    BY <1>0 DEF MayAssign
  <2>2. Assigned(n, dims, x, msk, b, l, z)
    BY <1>0, <2>1, AssignRight
  <2> QED
    BY <2>2 DEF Assigned
<1> DEFINE D == {x \in Labelings(dims) : OneType(x, msk)}
           list == [k \in 1..d |-> k]
           v == Of(bl, i)
           g == [q \in (1..d) \X D |-> assign(q[2], msk, q[1] - 1, v[q[1] - 1])]
           c == WrittenIter(list, to, msk, bl, i)
           E == D \cup {c[s] : s \in SUBSET (1..d)}
           wide == [q \in (1..d) \X E |-> assign(q[2], msk, q[1] - 1, v[q[1] - 1])]
<1>1. get_dim(bl, i) = d
  <2>1. DOMAIN v = 0..(d - 1)
    BY DEF Vector
  <2>2. 0 \in Int /\ d - 1 \in Int /\ (IF 0 > d - 1 THEN 0 ELSE (d - 1) - 0 + 1) = d
    OBVIOUS
  <2> QED
    BY <2>1, <2>2, FS_Interval DEF get_dim, Of
<1>2. \A k \in 1..d : v[k - 1] \in Int /\ get_label(bl, i, k - 1) = v[k - 1] /\ k - 1 \in 0..(d - 1)
  <2>1. \A k \in 1..d : k - 1 \in 0..(d - 1)
    OBVIOUS
  <2> QED
    BY <2>1 DEF Vector, get_label, Of
<1>3. ASSUME NEW x \in D, NEW k \in 1..d
      PROVE  LET r == assign(x, msk, k - 1, v[k - 1])
             IN  /\ r \in D
                 /\ \A j \in msk : Of(r, j) = Put(Of(x, j), k - 1, v[k - 1])
                 /\ \A j \in (0..(n - 1)) \ msk : r.type[j] = x.type[j] /\ Of(r, j) = Of(x, j)
  <2>1. x \in Labelings(dims) /\ OneType(x, msk) /\ v[k - 1] \in Int
    BY <1>2
  <2> DEFINE y == assign(x, msk, k - 1, v[k - 1])
  <2>2. /\ y \in Labelings(dims)
        /\ \A j \in msk : Of(y, j) = Put(Of(x, j), k - 1, v[k - 1])
        /\ OneType(y, msk)
        /\ \A j \in (0..(n - 1)) \ msk : y.type[j] = x.type[j] /\ Of(y, j) = Of(x, j)
    <3> HIDE DEF v, D, list, g, c, E, wide
    <3>1. y = assign(x, msk, k - 1, v[k - 1])
      OBVIOUS
    <3> HIDE DEF y
    <3> QED
      BY <1>0, <2>1, <3>1
  <2> HIDE DEF y, v
  <2> QED
    BY <2>2 DEF y
<1>4. to \in D
  OBVIOUS
<1> HIDE DEF D, v
<1>5. g \in [(1..d) \X D -> D]
  BY <1>3
<1>6. \A k \in 1..d, x \in D : wide[<<k, x>>] = g[<<k, x>>] /\ g[<<k, x>>] = assign(x, msk, k - 1, v[k - 1])
  OBVIOUS
<1>7. Copied(to, msk, bl, i) = c[1..d]
  BY <1>1, WrittenParts DEF Copied
<1>a. /\ DOMAIN list = 1..d /\ \A k \in 1..d : list[k] = k
      /\ IsFiniteSet(1..d) /\ Chooser(LastOf(d), 1..d)
      /\ \A s \in SUBSET (1..d) : LastOf(d)[s] = Max(s)
      /\ \A s \in SUBSET (1..d) : s # {} => Max(s) \in s
  <2>1. IsFiniteSet(1..d) /\ Chooser(LastOf(d), 1..d)
    BY LastChooses
  <2>2. \A s \in SUBSET (1..d) : LastOf(d)[s] = Max(s)
    BY DEF LastOf
  <2> QED
    BY <2>1, <2>2 DEF Chooser
<1> HIDE DEF list, wide, g, c
<1>8. PICK it0 \in [SUBSET (1..d) -> D] : IsFold(it0, 1..d, to, LastOf(d), g)
  BY <1>4, <1>5, <1>a, TypedFold
<1>9. it0 = [s \in SUBSET (DOMAIN list) |->
                IF s = {} THEN to
                ELSE assign(it0[s \ {Max(s)}], msk, list[Max(s)] - 1, get_label(bl, i, list[Max(s)] - 1))]
  <2>1. ASSUME NEW s \in SUBSET (1..d)
        PROVE  it0[s] = IF s = {} THEN to
                        ELSE assign(it0[s \ {Max(s)}], msk, list[Max(s)] - 1, get_label(bl, i, list[Max(s)] - 1))
    <3>1. it0[s] = IF s = {} THEN to ELSE g[<<LastOf(d)[s], it0[s \ {LastOf(d)[s]}]>>]
      BY <1>8, Zenon DEF IsFold
    <3>2. ASSUME s # {} PROVE Max(s) \in 1..d /\ it0[s \ {Max(s)}] \in D
      BY <1>8, <1>a, <3>2
    <3>3. ASSUME s # {}
          PROVE  g[<<Max(s), it0[s \ {Max(s)}]>>]
                   = assign(it0[s \ {Max(s)}], msk, list[Max(s)] - 1, get_label(bl, i, list[Max(s)] - 1))
      <4>1. Max(s) \in 1..d /\ it0[s \ {Max(s)}] \in D
        BY <3>2, <3>3
      <4>2. list[Max(s)] = Max(s) /\ get_label(bl, i, Max(s) - 1) = v[Max(s) - 1]
        BY <1>2, <1>a, <4>1
      <4>3. g[<<Max(s), it0[s \ {Max(s)}]>>] = assign(it0[s \ {Max(s)}], msk, Max(s) - 1, v[Max(s) - 1])
        BY <1>6, <4>1
      <4> QED
        BY <4>2, <4>3
    <3>4. LastOf(d)[s] = Max(s)
      BY <1>a
    <3> QED
      BY <3>1, <3>3, <3>4
  <2> DEFINE f == [s \in SUBSET (1..d) |->
                IF s = {} THEN to
                ELSE assign(it0[s \ {Max(s)}], msk, list[Max(s)] - 1, get_label(bl, i, list[Max(s)] - 1))]
  <2>2. f = [s \in SUBSET (1..d) |-> it0[s]]
    BY <2>1
  <2>3. it0 = f
    <3> HIDE DEF f
    <3> QED
      BY <1>8, <2>2
  <2> QED
    BY <1>a, <2>3, Zenon
<1>10. c = [s \in SUBSET (DOMAIN list) |->
                IF s = {} THEN to
                ELSE assign(c[s \ {Max(s)}], msk, list[Max(s)] - 1, get_label(bl, i, list[Max(s)] - 1))]
  BY <1>9, Zenon DEF WrittenIter, c
<1>11. IsFold(c, 1..d, to, LastOf(d), wide)
  <2> DEFINE f == [s \in SUBSET (1..d) |->
                IF s = {} THEN to
                ELSE assign(c[s \ {Max(s)}], msk, list[Max(s)] - 1, get_label(bl, i, list[Max(s)] - 1))]
             w == [s \in SUBSET (1..d) |->
                IF s = {} THEN to ELSE wide[<<LastOf(d)[s], c[s \ {LastOf(d)[s]}]>>]]
  <2>1. c = f
    BY <1>10, <1>a, Zenon
  <2>2. ASSUME NEW s \in SUBSET (1..d), s # {}
        PROVE  wide[<<LastOf(d)[s], c[s \ {LastOf(d)[s]}]>>]
                 = assign(c[s \ {Max(s)}], msk, list[Max(s)] - 1, get_label(bl, i, list[Max(s)] - 1))
    <3>1. LastOf(d)[s] = Max(s) /\ Max(s) \in 1..d
      BY <1>a, <2>2
    <3>2. c[s \ {Max(s)}] \in E
      OBVIOUS
    <3>3. wide[<<Max(s), c[s \ {Max(s)}]>>] = assign(c[s \ {Max(s)}], msk, Max(s) - 1, v[Max(s) - 1])
      <4> HIDE DEF E
      <4> QED
        BY <3>1, <3>2 DEF wide
    <3>4. list[Max(s)] = Max(s) /\ get_label(bl, i, Max(s) - 1) = v[Max(s) - 1]
      BY <1>2, <1>a, <3>1
    <3> QED
      BY <3>1, <3>3, <3>4
  <2>3. f = w
    <3>1. \A s \in SUBSET (1..d) : f[s] = w[s]
      BY <2>2
    <3> QED
      BY <3>1
  <2> HIDE DEF f
  <2>4. c = w
    BY <2>1, <2>3
  <2> QED
    BY <2>4, Zenon DEF IsFold
<1>12. FoldsList(c, wide, d, D, to, g)
  BY <1>4, <1>5, <1>6, <1>11 DEF FoldsList
<1> HIDE DEF E
<1>13. PICK h \in [0..d -> D] : ListRun(h, d, to, g) /\ c[1..d] = h[d]
  <2>1. RunTo(c[1..d], d, D, to, g)
    BY <1>12, ListOutcome
  <2> QED
    BY <2>1 DEF RunTo
<1> DEFINE P == {k \in 0..d :
                    /\ \A j \in msk : \A x \in 0..(k - 1) : Of(h[k], j)[x] = v[x]
                    /\ \A j \in (0..(n - 1)) \ msk : h[k].type[j] = to.type[j] /\ Of(h[k], j) = Of(to, j)}
<1>14. 0 \in P
  BY <1>13 DEF ListRun
<1>15. ASSUME NEW k \in 0..(d - 1), k \in P PROVE k + 1 \in P
  <2>1. k \in 0..d /\ k + 1 \in 0..d /\ k + 1 \in 1..d /\ (k + 1) - 1 = k /\ h[k] \in D /\ h[k + 1] \in D
    BY <1>13
  <2>2. h[k + 1] = assign(h[k], msk, k, v[k])
    <3>1. h[k + 1] = g[<<k + 1, h[k]>>]
      BY <1>13 DEF ListRun
    <3> QED
      BY <1>6, <2>1, <3>1
  <2>3. /\ \A j \in msk : Of(h[k + 1], j) = Put(Of(h[k], j), k, v[k])
        /\ \A j \in (0..(n - 1)) \ msk : h[k + 1].type[j] = h[k].type[j] /\ Of(h[k + 1], j) = Of(h[k], j)
    <3> DEFINE y == assign(h[k], msk, (k + 1) - 1, v[(k + 1) - 1])
    <3>1. /\ \A j \in msk : Of(y, j) = Put(Of(h[k], j), (k + 1) - 1, v[(k + 1) - 1])
          /\ \A j \in (0..(n - 1)) \ msk : y.type[j] = h[k].type[j] /\ Of(y, j) = Of(h[k], j)
      <4> HIDE DEF P
      <4> QED
        BY <1>3, <2>1, Zenon
    <3>2. y = h[k + 1]
      BY <2>1, <2>2
    <3> HIDE DEF y
    <3> QED
      BY <2>1, <3>1, <3>2
  <2>4. \A j \in msk : DOMAIN Of(h[k], j) = 0..(d - 1)
    <3>1. h[k] \in Labelings(dims) /\ DOMAIN dims = 0..(n - 1)
      BY <2>1 DEF D
    <3>2. \A j \in 0..(n - 1) : Of(h[k], j) \in Vector(dims[j])
      BY <3>1 DEF Labelings
    <3> QED
      BY <3>2 DEF Vector
  <2>5. ASSUME NEW j \in msk, NEW x \in 0..((k + 1) - 1) PROVE Of(h[k + 1], j)[x] = v[x]
    <3>1. x \in 0..(d - 1) /\ (x = k \/ x \in 0..(k - 1))
      OBVIOUS
    <3>2. Of(h[k + 1], j) = Put(Of(h[k], j), k, v[k])
      BY <2>3
    <3>3. DOMAIN Of(h[k], j) = 0..(d - 1)
      BY <2>4
    <3>4. x # k => Of(h[k], j)[x] = v[x]
      BY <1>15, <3>1
    <3> HIDE DEF P
    <3> QED
      BY <3>1, <3>2, <3>3, <3>4 DEF Put
  <2> QED
    BY <1>15, <2>1, <2>3, <2>5
<1>16. d \in P
  <2>1. \A k \in 0..d : k \in P
    <3> HIDE DEF P
    <3> QED
      BY <1>14, <1>15, CountUp
  <2> QED
    BY <2>1
<1> DEFINE r == Copied(to, msk, bl, i)
<1>17. r = h[d] /\ r \in Labelings(dims) /\ OneType(r, msk)
  BY <1>7, <1>13 DEF D
<1>18. ASSUME NEW j \in msk PROVE Of(r, j) = v
  <2>1. Of(r, j) \in Vector(d)
    <3>1. DOMAIN dims = 0..(n - 1) /\ dims[j] = d
      OBVIOUS
    <3> QED
      BY <1>17, <3>1 DEF Labelings
  <2>2. \A x \in 0..(d - 1) : Of(r, j)[x] = v[x]
    BY <1>16, <1>17
  <2> QED
    BY <2>1, <2>2 DEF Vector, v
<1> QED
  BY <1>16, <1>17, <1>18 DEF v

MatesOf(bl, map, i) == {map[j] : j \in {j \in DOMAIN map : bl.type[j] = bl.type[i]}}
LeadersOf(bl, map) == {i \in DOMAIN map : \A j \in DOMAIN map : bl.type[j] = bl.type[i] => i <= j}
TypeCopied(to, map, bl, i) == Copied(to, MatesOf(bl, map, i), bl, i)
TransferIter(list, bl, map, bl2) ==
    CHOOSE it : it = [s \in SUBSET (DOMAIN list) |->
        IF s = {} THEN bl2 ELSE TypeCopied(it[s \ {Max(s)}], map, bl, list[Max(s)])]
Transferred(list, bl, map, bl2) == TransferIter(list, bl, map, bl2)[DOMAIN list]

(* The outer loop of transfer_labeling is a fold over the leading indexes. *)
LEMMA TransferParts ==
    ASSUME NEW bl, NEW map, NEW bl2
    PROVE  transfer_labeling(bl, map, bl2) = Transferred(From1(Sorted(LeadersOf(bl, map))), bl, map, bl2)
BY Zenon DEF transfer_labeling, Transferred, TransferIter, LeadersOf, MatesOf, TypeCopied, Copied, Written,
             FoldLeft, MapThenFoldSet

(* Indexes of one type have as many blocks.                                *)
LEMMA TypeDims ==
    ASSUME NEW dims, NEW bl \in Labelings(dims), NEW i \in DOMAIN dims, NEW j \in DOMAIN dims,
           dims[i] \in Nat, dims[j] \in Nat, bl.type[i] = bl.type[j]
    PROVE  dims[i] = dims[j] /\ Of(bl, i) = Of(bl, j)
<1>1. Of(bl, i) = Of(bl, j) /\ Of(bl, i) \in Vector(dims[i]) /\ Of(bl, j) \in Vector(dims[j])
  BY DEF Labelings, Of
<1>2. 0..(dims[i] - 1) = 0..(dims[j] - 1)
  BY <1>1 DEF Vector
<1> QED
  BY <1>1, <1>2

(* Index i of a tensor goes to index map[i] of one with n indexes.         *)
Fits(n, dims, m, bdims, map) ==
    /\ n \in Nat /\ dims \in [0..(n - 1) -> Nat]
    /\ m \in Nat /\ bdims \in [0..(m - 1) -> Nat]
    /\ DOMAIN map \in SUBSET (0..(m - 1)) /\ map \in [DOMAIN map -> 0..(n - 1)]
    /\ \A i, j \in DOMAIN map : map[i] = map[j] => i = j
    /\ \A i \in DOMAIN map : dims[map[i]] = bdims[i]

(* One step of the outer loop: the indexes of one type get its labels, the *)
(* others keep theirs.                                                     *)
LEMMA TypeCopyRight ==
    ASSUME NEW n, NEW dims, NEW m, NEW bdims, NEW map, Fits(n, dims, m, bdims, map),
           NEW bl \in Labelings(bdims), NEW to \in Labelings(dims),
           NEW l \in DOMAIN map, OneType(to, MatesOf(bl, map, l))
    PROVE  LET y == TypeCopied(to, map, bl, l)
           IN  /\ y \in Labelings(dims) /\ OneType(y, MatesOf(bl, map, l))
               /\ \A i \in DOMAIN map : bl.type[i] = bl.type[l] => Of(y, map[i]) = Of(bl, i)
               /\ \A j \in (0..(n - 1)) \ MatesOf(bl, map, l) : y.type[j] = to.type[j] /\ Of(y, j) = Of(to, j)
<1> DEFINE msk == MatesOf(bl, map, l)
           y == TypeCopied(to, map, bl, l)
           d == bdims[l]
<1>1. n \in Nat /\ dims \in [0..(n - 1) -> Nat] /\ d \in Nat
  BY DEF Fits
<1>2. \A i \in DOMAIN map : bl.type[i] = bl.type[l] => bdims[i] = d /\ Of(bl, i) = Of(bl, l)
  <2>1. \A i \in DOMAIN map : i \in DOMAIN bdims /\ bdims[i] \in Nat
    BY DEF Fits
  <2> QED
    BY <2>1, TypeDims
<1>3. msk \in SUBSET (0..(n - 1)) /\ msk # {} /\ \A j \in msk : dims[j] = d
  BY <1>2 DEF MatesOf, Fits
<1>4. Of(bl, l) \in Vector(d)
  <2>1. l \in DOMAIN bdims
    BY DEF Fits
  <2> QED
    BY <2>1 DEF Labelings
<1>5. y = Copied(to, msk, bl, l)
  BY DEF TypeCopied
<1>6. \A i \in DOMAIN map : bl.type[i] = bl.type[l] => map[i] \in msk
  BY DEF MatesOf
<1> HIDE DEF msk, y, d
<1>7. /\ y \in Labelings(dims)
      /\ \A j \in msk : Of(y, j) = Of(bl, l)
      /\ OneType(y, msk)
      /\ \A j \in (0..(n - 1)) \ msk : y.type[j] = to.type[j] /\ Of(y, j) = Of(to, j)
  <2>1. OneType(to, msk)
    BY DEF msk
  <2> QED
    BY <1>1, <1>3, <1>4, <1>5, <2>1, CopyRight
<1> QED
  BY <1>2, <1>6, <1>7 DEF msk, y

(* The recursion that defines the labelings between the transfers.         *)
Transfers(it, list, bl, map, bl2) ==
    it = [s \in SUBSET (DOMAIN list) |-> IF s = {} THEN bl2
                                          ELSE TypeCopied(it[s \ {Max(s)}], map, bl, list[Max(s)])]

(* Where the recursion has a solution, the labelings chosen are one.       *)
LEMMA TransferEquation ==
    ASSUME NEW list, NEW bl, NEW map, NEW bl2, NEW it0, Transfers(it0, list, bl, map, bl2)
    PROVE  Transfers(TransferIter(list, bl, map, bl2), list, bl, map, bl2)
BY Zenon DEF TransferIter, Transfers

(* transfer_labeling: index map[i] has the labels that i has in bl, and    *)
(* the indexes that map does not name keep theirs.                         *)
LEMMA TransferRight ==
    ASSUME NEW n, NEW dims, NEW m, NEW bdims, NEW map, Fits(n, dims, m, bdims, map),
           NEW bl \in Labelings(bdims), NEW to \in Labelings(dims),
           \A i, j \in DOMAIN map : dims[map[i]] = dims[map[j]] => to.type[map[i]] = to.type[map[j]]
    PROVE  LET r == transfer_labeling(bl, map, to)
           IN  /\ r \in Labelings(dims)
               /\ \A i \in DOMAIN map : Of(r, map[i]) = Of(bl, i)
               /\ \A j \in 0..(n - 1) : (\A i \in DOMAIN map : map[i] # j) =>
                      r.type[j] = to.type[j] /\ Of(r, j) = Of(to, j)
<1> DEFINE M == DOMAIN map
           L == LeadersOf(bl, map)
           leaders == Sorted(L)
           w == Cardinality(L)
           list == From1(leaders)
           D == {x \in Labelings(dims) : \A i \in M : OneType(x, MatesOf(bl, map, i))}
           g == [q \in (1..w) \X D |-> TypeCopied(q[2], map, bl, list[q[1]])]
           c == TransferIter(list, bl, map, to)
           E == D \cup {c[s] : s \in SUBSET (1..w)}
           wide == [q \in (1..w) \X E |-> TypeCopied(q[2], map, bl, list[q[1]])]
<1>1. /\ n \in Nat /\ M \in SUBSET (0..(m - 1)) /\ M \in SUBSET Nat /\ IsFiniteSet(M)
      /\ \A i \in M : i \in DOMAIN bdims /\ bdims[i] \in Nat /\ dims[map[i]] = bdims[i] /\ map[i] \in 0..(n - 1)
      /\ \A i, j \in M : map[i] = map[j] => i = j
  <2>1. n \in Nat /\ M \in SUBSET (0..(m - 1))
    BY DEF Fits
  <2>2. IsFiniteSet(M)
    <3>0. m - 1 \in Int
      BY DEF Fits
    <3>1. IsFiniteSet(0..(m - 1))
      BY <3>0, FS_Interval
    <3> QED
      BY <2>1, <3>1, FS_Subset
  <2> QED
    BY <2>1, <2>2 DEF Fits
<1>2. L \in SUBSET M /\ L \in SUBSET Nat /\ IsFiniteSet(L)
  <2>1. L \in SUBSET M
    BY DEF LeadersOf
  <2> QED
    BY <1>1, <2>1, FS_Subset
<1>3. w \in Nat /\ leaders \in [0..(w - 1) -> L]
        /\ \A x \in L : PlaceOf(L, x) \in 0..(w - 1) /\ leaders[PlaceOf(L, x)] = x
  BY <1>2, SortedSet
<1>4. DOMAIN list = 1..w /\ list \in [1..w -> L] /\ \A x \in L : \E k \in 1..w : list[k] = x
  <2> HIDE DEF L, leaders, w
  <2>1. Cardinality(DOMAIN leaders) = w
    <3>1. DOMAIN leaders = 0..(w - 1)
      BY <1>3
    <3>2. 0 \in Int /\ w - 1 \in Int /\ (IF 0 > w - 1 THEN 0 ELSE (w - 1) - 0 + 1) = w
      BY <1>3
    <3> QED
      BY <3>1, <3>2, FS_Interval
  <2>2. list = [k \in 1..w |-> leaders[k - 1]]
    BY <2>1 DEF From1
  <2>3. \A k \in 1..w : k - 1 \in 0..(w - 1)
    BY <1>3
  <2>4. list \in [1..w -> L]
    BY <1>3, <2>2, <2>3
  <2>5. ASSUME NEW x \in L PROVE \E k \in 1..w : list[k] = x
    <3>1. PlaceOf(L, x) \in 0..(w - 1) /\ leaders[PlaceOf(L, x)] = x
      BY <1>3
    <3>2. PlaceOf(L, x) + 1 \in 1..w /\ (PlaceOf(L, x) + 1) - 1 = PlaceOf(L, x)
      BY <1>3, <3>1
    <3>3. list[PlaceOf(L, x) + 1] = x
      BY <2>2, <3>1, <3>2
    <3> QED
      BY <3>2, <3>3
  <2> QED
    BY <2>2, <2>4, <2>5
<1>5. ASSUME NEW i \in M PROVE \E l \in L : bl.type[l] = bl.type[i]
  <2> DEFINE T == {j \in M : bl.type[j] = bl.type[i]}
  <2>1. T \in SUBSET Nat /\ T # {}
    BY <1>1
  <2>2. Min(T) \in T /\ \A y \in T : Min(T) <= y
    BY <2>1, MinOfNaturals
  <2>3. Min(T) \in L
    BY <2>2 DEF LeadersOf
  <2> QED
    BY <2>2, <2>3
<1>6. transfer_labeling(bl, map, to) = c[1..w]
  BY <1>4, TransferParts DEF Transferred
<1> HIDE DEF L, leaders, w, list
<1>7. to \in D
  <2> SUFFICES ASSUME NEW i \in M PROVE OneType(to, MatesOf(bl, map, i))
    OBVIOUS
  <2>1. \A j \in M : bl.type[j] = bl.type[i] => bdims[j] = bdims[i]
    BY <1>1, TypeDims
  <2>2. \A j, k \in M : bl.type[j] = bl.type[i] /\ bl.type[k] = bl.type[i] => to.type[map[j]] = to.type[map[k]]
    BY <1>1, <2>1
  <2> QED
    BY <2>2 DEF OneType, MatesOf
<1>8. ASSUME NEW x \in D, NEW l \in L
      PROVE  LET y == TypeCopied(x, map, bl, l)
             IN  /\ y \in D
                 /\ \A i \in M : bl.type[i] = bl.type[l] => Of(y, map[i]) = Of(bl, i)
                 /\ \A i \in M : bl.type[i] # bl.type[l] => Of(y, map[i]) = Of(x, map[i])
                 /\ \A j \in 0..(n - 1) : (\A i \in M : map[i] # j) => y.type[j] = x.type[j] /\ Of(y, j) = Of(x, j)
  <2> DEFINE y == TypeCopied(x, map, bl, l)
             msk == MatesOf(bl, map, l)
  <2>1. x \in Labelings(dims) /\ l \in M /\ OneType(x, msk)
    BY <1>2
  <2>2. /\ y \in Labelings(dims) /\ OneType(y, msk)
        /\ \A i \in M : bl.type[i] = bl.type[l] => Of(y, map[i]) = Of(bl, i)
        /\ \A j \in (0..(n - 1)) \ msk : y.type[j] = x.type[j] /\ Of(y, j) = Of(x, j)
    <3> HIDE DEF D
    <3> QED
      BY <2>1, TypeCopyRight
  <2>3. \A i \in M : bl.type[i] # bl.type[l] => map[i] \in (0..(n - 1)) \ msk
    BY <1>1, <2>1 DEF MatesOf
  <2>4. \A j \in 0..(n - 1) : (\A i \in M : map[i] # j) => j \in (0..(n - 1)) \ msk
    BY DEF MatesOf
  <2> HIDE DEF y
  <2>5. ASSUME NEW i \in M PROVE OneType(y, MatesOf(bl, map, i))
    <3>1. CASE bl.type[i] = bl.type[l]
      <4>1. MatesOf(bl, map, i) = msk
        BY <3>1 DEF MatesOf
      <4> QED
        BY <2>2, <4>1
    <3>2. CASE bl.type[i] # bl.type[l]
      <4>1. \A j \in MatesOf(bl, map, i) : y.type[j] = x.type[j]
        BY <2>2, <2>3, <3>2 DEF MatesOf
      <4>2. OneType(x, MatesOf(bl, map, i))
        OBVIOUS
      <4> QED
        BY <4>1, <4>2 DEF OneType
    <3> QED
      BY <3>1, <3>2
  <2> HIDE DEF msk
  <2>6. y \in D
    BY <2>2, <2>5
  <2> HIDE DEF D
  <2> QED
    BY <2>2, <2>3, <2>4, <2>6 DEF y
<1> HIDE DEF D
<1>9. g \in [(1..w) \X D -> D]
  BY <1>4, <1>8
<1>10. \A k \in 1..w, x \in D : wide[<<k, x>>] = g[<<k, x>>] /\ g[<<k, x>>] = TypeCopied(x, map, bl, list[k])
  OBVIOUS
<1>11. /\ IsFiniteSet(1..w) /\ Chooser(LastOf(w), 1..w)
       /\ \A s \in SUBSET (1..w) : LastOf(w)[s] = Max(s)
       /\ \A s \in SUBSET (1..w) : s # {} => Max(s) \in 1..w
  <2>1. IsFiniteSet(1..w) /\ Chooser(LastOf(w), 1..w)
    BY <1>3, LastChooses
  <2>2. \A s \in SUBSET (1..w) : LastOf(w)[s] = Max(s)
    BY DEF LastOf
  <2> QED
    BY <2>1, <2>2 DEF Chooser
<1> HIDE DEF wide, g, c
<1>12. PICK it0 \in [SUBSET (1..w) -> D] : IsFold(it0, 1..w, to, LastOf(w), g)
  BY <1>7, <1>9, <1>11, TypedFold
<1>13. it0 = [s \in SUBSET (1..w) |-> IF s = {} THEN to
        ELSE TypeCopied(it0[s \ {Max(s)}], map, bl, list[Max(s)])]
  <2> DEFINE f == [s \in SUBSET (1..w) |-> IF s = {} THEN to
          ELSE TypeCopied(it0[s \ {Max(s)}], map, bl, list[Max(s)])]
  <2>1. ASSUME NEW s \in SUBSET (1..w) PROVE it0[s] = f[s]
    <3>1. it0[s] = IF s = {} THEN to ELSE g[<<LastOf(w)[s], it0[s \ {LastOf(w)[s]}]>>]
      BY <1>12, Zenon DEF IsFold
    <3>2. ASSUME s # {} PROVE Max(s) \in 1..w /\ it0[s \ {Max(s)}] \in D
      BY <1>11, <1>12, <3>2
    <3>3. ASSUME s # {}
          PROVE  g[<<Max(s), it0[s \ {Max(s)}]>>] = TypeCopied(it0[s \ {Max(s)}], map, bl, list[Max(s)])
      BY <1>10, <3>2, <3>3
    <3>4. LastOf(w)[s] = Max(s)
      BY <1>11
    <3> QED
      BY <3>1, <3>3, <3>4
  <2>2. f = [s \in SUBSET (1..w) |-> f[s]]
    OBVIOUS
  <2> HIDE DEF f
  <2>3. it0 = f
    BY <1>12, <2>1, <2>2
  <2> QED
    BY <2>3 DEF f
<1>14. c = [s \in SUBSET (1..w) |-> IF s = {} THEN to ELSE TypeCopied(c[s \ {Max(s)}], map, bl, list[Max(s)])]
  <2>1. DOMAIN list = 1..w
    BY <1>4
  <2>2. Transfers(it0, list, bl, map, to)
    BY <1>13, <2>1, Zenon DEF Transfers
  <2>3. c = TransferIter(list, bl, map, to)
    BY Zenon DEF c
  <2> HIDE DEF list, c
  <2>4. Transfers(c, list, bl, map, to)
    BY <2>2, <2>3, TransferEquation, Zenon
  <2> QED
    BY <2>1, <2>4, Zenon DEF Transfers
<1>15. IsFold(c, 1..w, to, LastOf(w), wide)
  <2> DEFINE f == [s \in SUBSET (1..w) |-> IF s = {} THEN to
          ELSE TypeCopied(c[s \ {Max(s)}], map, bl, list[Max(s)])]
             u == [s \in SUBSET (1..w) |-> IF s = {} THEN to ELSE wide[<<LastOf(w)[s], c[s \ {LastOf(w)[s]}]>>]]
  <2>1. c = f
    BY <1>14, Zenon
  <2>2. ASSUME NEW s \in SUBSET (1..w), s # {}
        PROVE  wide[<<LastOf(w)[s], c[s \ {LastOf(w)[s]}]>>] = TypeCopied(c[s \ {Max(s)}], map, bl, list[Max(s)])
    <3>1. LastOf(w)[s] = Max(s) /\ Max(s) \in 1..w
      BY <1>11, <2>2
    <3>2. c[s \ {Max(s)}] \in E
      OBVIOUS
    <3>3. wide[<<Max(s), c[s \ {Max(s)}]>>] = TypeCopied(c[s \ {Max(s)}], map, bl, list[Max(s)])
      <4> HIDE DEF E
      <4> QED
        BY <3>1, <3>2 DEF wide
    <3> QED
      BY <3>1, <3>3
  <2>3. f = u
    <3>1. \A s \in SUBSET (1..w) : f[s] = u[s]
      BY <2>2
    <3> QED
      BY <3>1
  <2> HIDE DEF f
  <2>4. c = u
    BY <2>1, <2>3
  <2> QED
    BY <2>4, Zenon DEF IsFold
<1>16. FoldsList(c, wide, w, D, to, g)
  BY <1>7, <1>9, <1>10, <1>15 DEF FoldsList
<1> HIDE DEF E
<1>17. PICK h \in [0..w -> D] : ListRun(h, w, to, g) /\ c[1..w] = h[w]
  <2>1. RunTo(c[1..w], w, D, to, g)
    BY <1>3, <1>16, ListOutcome
  <2> QED
    BY <2>1 DEF RunTo
<1> DEFINE P == {k \in 0..w :
                    /\ \A e \in 1..k : \A i \in M : bl.type[i] = bl.type[list[e]] => Of(h[k], map[i]) = Of(bl, i)
                    /\ \A j \in 0..(n - 1) : (\A i \in M : map[i] # j) =>
                           h[k].type[j] = to.type[j] /\ Of(h[k], j) = Of(to, j)}
<1>18. 0 \in P
  BY <1>3, <1>17 DEF ListRun
<1>19. ASSUME NEW k \in 0..(w - 1), k \in P PROVE k + 1 \in P
  <2>1. k \in 0..w /\ k + 1 \in 0..w /\ k + 1 \in 1..w /\ h[k] \in D /\ h[k + 1] \in D
    BY <1>3, <1>17
  <2> DEFINE l == list[k + 1]
  <2>2. l \in L /\ h[k + 1] = TypeCopied(h[k], map, bl, l)
    <3>1. h[k + 1] = g[<<k + 1, h[k]>>]
      BY <1>17 DEF ListRun
    <3> QED
      BY <1>4, <1>10, <2>1, <3>1
  <2> HIDE DEF l
  <2>3. /\ \A i \in M : bl.type[i] = bl.type[l] => Of(h[k + 1], map[i]) = Of(bl, i)
        /\ \A i \in M : bl.type[i] # bl.type[l] => Of(h[k + 1], map[i]) = Of(h[k], map[i])
        /\ \A j \in 0..(n - 1) : (\A i \in M : map[i] # j) =>
               h[k + 1].type[j] = h[k].type[j] /\ Of(h[k + 1], j) = Of(h[k], j)
    <3> HIDE DEF P
    <3> QED
      BY <1>8, <2>1, <2>2
  <2>4. ASSUME NEW e \in 1..(k + 1), NEW i \in M, bl.type[i] = bl.type[list[e]]
        PROVE  Of(h[k + 1], map[i]) = Of(bl, i)
    <3>1. e = k + 1 \/ e \in 1..k
      BY <1>3
    <3>2. CASE e = k + 1
      BY <2>3, <2>4, <3>2 DEF l
    <3>3. CASE e \in 1..k
      <4>1. Of(h[k], map[i]) = Of(bl, i)
        BY <1>19, <2>4, <3>3
      <4> QED
        BY <2>3, <4>1
    <3> QED
      BY <3>1, <3>2, <3>3
  <2>5. \A j \in 0..(n - 1) : (\A i \in M : map[i] # j) =>
               h[k + 1].type[j] = to.type[j] /\ Of(h[k + 1], j) = Of(to, j)
    BY <1>19, <2>3
  <2> QED
    BY <2>1, <2>4, <2>5
<1>20. w \in P
  <2>1. \A k \in 0..w : k \in P
    <3> HIDE DEF P
    <3> QED
      BY <1>3, <1>18, <1>19, CountUp
  <2> QED
    BY <1>3, <2>1
<1>21. \A i \in M : Of(h[w], map[i]) = Of(bl, i)
  <2> SUFFICES ASSUME NEW i \in M PROVE Of(h[w], map[i]) = Of(bl, i)
    OBVIOUS
  <2>1. PICK l \in L : bl.type[l] = bl.type[i]
    BY <1>5
  <2>2. PICK e \in 1..w : list[e] = l
    BY <1>4
  <2> QED
    BY <1>20, <2>1, <2>2
<1>22. h[w] \in Labelings(dims)
  BY <1>3, <1>17 DEF D
<1> QED
  BY <1>6, <1>17, <1>20, <1>21, <1>22
-----------------------------------------------------------------------------
(* The labels of a tensor as a program sets it up *)

(* SetToSeq lists every member of a finite set.                            *)
LEMMA ListOfSet ==
    ASSUME NEW S, IsFiniteSet(S)
    PROVE  /\ Cardinality(S) \in Nat /\ SetToSeq(S) \in [1..Cardinality(S) -> S]
           /\ \A x \in S : \E k \in 1..Cardinality(S) : SetToSeq(S)[k] = x
<1> DEFINE w == Cardinality(S)
<1>1. w \in Nat /\ \E f \in Bijection(1..w, S) : TRUE
  BY FS_CardinalityType DEF ExistsBijection
<1>2. \E f \in [1..w -> S] : IsInjective(f)
  BY <1>1 DEF Bijection, Injection
<1>3. SetToSeq(S) \in [1..w -> S] /\ IsInjective(SetToSeq(S))
  BY <1>2, Zenon DEF SetToSeq
<1>4. SetToSeq(S) \in Injection(1..w, S)
  BY <1>3 DEF Injection
<1>5. Cardinality(1..w) = w
  <2> HIDE DEF w
  <2>1. 1 \in Int /\ w \in Int /\ (IF 1 > w THEN 0 ELSE w - 1 + 1) = w
    BY <1>1
  <2> QED
    BY <2>1, FS_Interval
<1>6. SetToSeq(S) \in Surjection(1..w, S)
  BY <1>4, <1>5, FS_Injection
<1> QED
  BY <1>1, <1>3, <1>6 DEF Surjection

SetLabel(bl, p, vs) == assign(bl, {p[1]}, p[2], vs[p[1]][p[2]])
SetUp(list, vs, base) == FoldLeft(LAMBDA bl, ik : SetLabel(bl, ik, vs), base, list)
SetUpIter(list, vs, base) ==
    CHOOSE it : it = [s \in SUBSET (DOMAIN list) |->
        IF s = {} THEN base ELSE SetLabel(it[s \ {Max(s)}], list[Max(s)], vs)]

(* Labels are set one by one when a tensor is set up.                      *)
LEMMA SetUpParts ==
    ASSUME NEW list, NEW vs, NEW base
    PROVE  SetUp(list, vs, base) = SetUpIter(list, vs, base)[DOMAIN list]
BY Zenon DEF SetUp, SetUpIter, FoldLeft, MapThenFoldSet

(* Setting a label changes the label of its block only.                    *)
LEMMA SetLabelRight ==
    ASSUME NEW n \in Nat, NEW dims \in [0..(n - 1) -> Nat], NEW x \in Labelings(dims),
           NEW vs, NEW p, p[1] \in 0..(n - 1), vs[p[1]][p[2]] \in Int,
           NEW y, y = SetLabel(x, p, vs)
    PROVE  /\ y \in Labelings(dims)
           /\ Of(y, p[1]) = Put(Of(x, p[1]), p[2], vs[p[1]][p[2]])
           /\ \A j \in 0..(n - 1) : j # p[1] => Of(y, j) = Of(x, j)
<1>1. PICK msk \in SUBSET (0..(n - 1)) : msk = {p[1]}
  OBVIOUS
<1>2. PICK l \in Int : l = vs[p[1]][p[2]]
  OBVIOUS
<1>3. PICK b : b = p[2]
  OBVIOUS
<1>4. msk # {} /\ OneType(x, msk)
  BY <1>1 DEF OneType
<1>5. y = assign(x, msk, b, l)
  BY <1>1, <1>2, <1>3 DEF SetLabel
<1>6. /\ y \in Labelings(dims)
      /\ \A j \in msk : Of(y, j) = Put(Of(x, j), b, l)
      /\ \A j \in (0..(n - 1)) \ msk : Of(y, j) = Of(x, j)
  <2>1. MayAssign(n, dims, x, msk, l)
    BY <1>4 DEF MayAssign
  <2>2. Assigned(n, dims, x, msk, b, l, y)
    BY <1>5, <2>1, AssignRight
  <2> QED
    BY <2>2 DEF Assigned
<1>7. p[1] \in msk /\ \A j \in 0..(n - 1) : j # p[1] => j \in (0..(n - 1)) \ msk
  BY <1>1
<1> QED
  BY <1>2, <1>3, <1>6, <1>7

(* Two vectors of labels are equal if each label is.                       *)
LEMMA SameVector ==
    ASSUME NEW d \in Nat, NEW u \in Vector(d), NEW v \in Vector(d), \A k \in 0..(d - 1) : u[k] = v[k]
    PROVE  u = v
BY DEF Vector
Pairs(vs) == UNION {{i} \X DOMAIN vs[i] : i \in DOMAIN vs}

(* assign, for every index and block, gives the indexes these labels.      *)
LEMMA LabelledRight ==
    ASSUME NEW n \in Nat, NEW dims \in [0..(n - 1) -> Nat], NEW vs, DOMAIN vs = 0..(n - 1),
           \A i \in 0..(n - 1) : vs[i] \in Vector(dims[i])
    PROVE  LabelledAs(vs) \in Labelings(dims) /\ \A i \in 0..(n - 1) : Of(LabelledAs(vs), i) = vs[i]
<1> DEFINE N == 0..(n - 1)
           S == Pairs(vs)
           w == Cardinality(S)
           list == SetToSeq(S)
           base == NewLabeling(dims)
           D == Labelings(dims)
           op(x, p) == SetLabel(x, p, vs)
           g == [q \in (1..w) \X D |-> op(q[2], list[q[1]])]
           c == SetUpIter(list, vs, base)
           E == D \cup {c[s] : s \in SUBSET (1..w)}
           wide == [q \in (1..w) \X E |-> op(q[2], list[q[1]])]
<1>1. \A i \in N : DOMAIN vs[i] = 0..(dims[i] - 1) /\ IsFiniteSet(DOMAIN vs[i])
        /\ Cardinality(DOMAIN vs[i]) = dims[i]
  <2> SUFFICES ASSUME NEW i \in N
               PROVE  DOMAIN vs[i] = 0..(dims[i] - 1) /\ IsFiniteSet(DOMAIN vs[i])
                       /\ Cardinality(DOMAIN vs[i]) = dims[i]
    OBVIOUS
  <2>1. DOMAIN vs[i] = 0..(dims[i] - 1)
    BY DEF Vector
  <2>2. 0 \in Int /\ dims[i] - 1 \in Int /\ (IF 0 > dims[i] - 1 THEN 0 ELSE (dims[i] - 1) - 0 + 1) = dims[i]
    OBVIOUS
  <2> QED
    BY <2>1, <2>2, FS_Interval
<1>2. LabelledAs(vs) = c[DOMAIN list]
  <2>1. [i \in DOMAIN vs |-> Cardinality(DOMAIN vs[i])] = dims
    BY <1>1
  <2>2. LabelledAs(vs) = SetUp(list, vs, NewLabeling([i \in DOMAIN vs |-> Cardinality(DOMAIN vs[i])]))
    BY Zenon DEF LabelledAs, SetUp, SetLabel, Pairs
  <2> QED
    BY <2>1, <2>2, SetUpParts
<1>3. IsFiniteSet(S)
  <2>1. IsFiniteSet(N)
    BY FS_Interval
  <2> DEFINE f == [i \in N |-> {i} \X DOMAIN vs[i]]
  <2>3. \A i \in N : IsFiniteSet({i} \X DOMAIN vs[i])
    BY <1>1, FS_Product, FS_Singleton
  <2>4. S = UNION {f[i] : i \in N} /\ \A T \in {f[i] : i \in N} : IsFiniteSet(T)
    BY <2>3 DEF Pairs
  <2> HIDE DEF f, S
  <2>2. IsFiniteSet({f[i] : i \in N})
    BY <2>1, ImageFinite
  <2> QED
    BY <2>2, <2>4, FS_UNION
<1>4. \A p \in S : p[1] \in N /\ p[2] \in 0..(dims[p[1]] - 1) /\ vs[p[1]][p[2]] \in Int
  <2> SUFFICES ASSUME NEW p \in S
               PROVE  p[1] \in N /\ p[2] \in 0..(dims[p[1]] - 1) /\ vs[p[1]][p[2]] \in Int
    OBVIOUS
  <2>1. PICK i \in N : p \in {i} \X DOMAIN vs[i]
    BY DEF Pairs
  <2>2. p[1] = i /\ p[2] \in DOMAIN vs[i]
    BY <2>1
  <2>3. vs[i] \in [0..(dims[i] - 1) -> Int]
    BY DEF Vector
  <2> QED
    BY <2>2, <2>3
<1>5. \A i \in N : \A k \in 0..(dims[i] - 1) : <<i, k>> \in S
  BY <1>1 DEF Pairs
<1>6. w \in Nat /\ list \in [1..w -> S] /\ DOMAIN list = 1..w /\ \A x \in S : \E k \in 1..w : list[k] = x
  BY <1>3, ListOfSet
<1> HIDE DEF S, w, list
<1>7. base \in D
  BY NewRight
<1>8. ASSUME NEW x \in D, NEW p \in S
      PROVE  LET y == op(x, p)
             IN  /\ y \in D
                 /\ Of(y, p[1]) = Put(Of(x, p[1]), p[2], vs[p[1]][p[2]])
                 /\ \A j \in N : j # p[1] => Of(y, j) = Of(x, j)
  <2>1. p[1] \in N /\ vs[p[1]][p[2]] \in Int
    BY <1>4
  <2> DEFINE y == op(x, p)
  <2>2. y = SetLabel(x, p, vs)
    OBVIOUS
  <2> HIDE DEF y
  <2>3. /\ y \in D
        /\ Of(y, p[1]) = Put(Of(x, p[1]), p[2], vs[p[1]][p[2]])
        /\ \A j \in N : j # p[1] => Of(y, j) = Of(x, j)
    <3>1. x \in Labelings(dims)
      OBVIOUS
    <3> QED
      BY <2>1, <2>2, <3>1, SetLabelRight
  <2> QED
    BY <2>3 DEF y
<1> HIDE DEF base, D
<1>9. g \in [(1..w) \X D -> D]
  BY <1>6, <1>8
<1>10. \A k \in 1..w, x \in D : wide[<<k, x>>] = g[<<k, x>>] /\ g[<<k, x>>] = op(x, list[k])
  OBVIOUS
<1>11. /\ IsFiniteSet(1..w) /\ Chooser(LastOf(w), 1..w)
       /\ \A s \in SUBSET (1..w) : LastOf(w)[s] = Max(s)
       /\ \A s \in SUBSET (1..w) : s # {} => Max(s) \in 1..w
  <2>1. IsFiniteSet(1..w) /\ Chooser(LastOf(w), 1..w)
    BY <1>6, LastChooses
  <2>2. \A s \in SUBSET (1..w) : LastOf(w)[s] = Max(s)
    BY DEF LastOf
  <2> QED
    BY <2>1, <2>2 DEF Chooser
<1> HIDE DEF wide, g, c
<1>12. PICK it0 \in [SUBSET (1..w) -> D] : IsFold(it0, 1..w, base, LastOf(w), g)
  BY <1>7, <1>9, <1>11, TypedFold
<1>13. it0 = [s \in SUBSET (1..w) |-> IF s = {} THEN base ELSE op(it0[s \ {Max(s)}], list[Max(s)])]
  <2> DEFINE f == [s \in SUBSET (1..w) |-> IF s = {} THEN base ELSE op(it0[s \ {Max(s)}], list[Max(s)])]
  <2>1. ASSUME NEW s \in SUBSET (1..w) PROVE it0[s] = f[s]
    <3>1. it0[s] = IF s = {} THEN base ELSE g[<<LastOf(w)[s], it0[s \ {LastOf(w)[s]}]>>]
      BY <1>12, Zenon DEF IsFold
    <3>2. ASSUME s # {} PROVE Max(s) \in 1..w /\ it0[s \ {Max(s)}] \in D
      BY <1>11, <1>12, <3>2
    <3>3. ASSUME s # {}
          PROVE  g[<<Max(s), it0[s \ {Max(s)}]>>] = op(it0[s \ {Max(s)}], list[Max(s)])
      BY <1>10, <3>2, <3>3
    <3>4. LastOf(w)[s] = Max(s)
      BY <1>11
    <3> QED
      BY <3>1, <3>3, <3>4
  <2>2. f = [s \in SUBSET (1..w) |-> f[s]]
    OBVIOUS
  <2> HIDE DEF f
  <2>3. it0 = f
    BY <1>12, <2>1, <2>2
  <2> QED
    BY <2>3 DEF f
<1>14. c = [s \in SUBSET (1..w) |-> IF s = {} THEN base ELSE op(c[s \ {Max(s)}], list[Max(s)])]
  <2>1. DOMAIN list = 1..w
    BY <1>6
  <2> QED
    BY <1>13, <2>1, Zenon DEF SetUpIter, c
<1>15. IsFold(c, 1..w, base, LastOf(w), wide)
  <2> DEFINE f == [s \in SUBSET (1..w) |-> IF s = {} THEN base ELSE op(c[s \ {Max(s)}], list[Max(s)])]
             u == [s \in SUBSET (1..w) |-> IF s = {} THEN base
                     ELSE wide[<<LastOf(w)[s], c[s \ {LastOf(w)[s]}]>>]]
  <2>1. c = f
    BY <1>14, Zenon
  <2>2. ASSUME NEW s \in SUBSET (1..w), s # {}
        PROVE  wide[<<LastOf(w)[s], c[s \ {LastOf(w)[s]}]>>] = op(c[s \ {Max(s)}], list[Max(s)])
    <3>1. LastOf(w)[s] = Max(s) /\ Max(s) \in 1..w
      BY <1>11, <2>2
    <3>2. c[s \ {Max(s)}] \in E
      OBVIOUS
    <3>3. wide[<<Max(s), c[s \ {Max(s)}]>>] = op(c[s \ {Max(s)}], list[Max(s)])
      <4> HIDE DEF E
      <4> QED
        BY <3>1, <3>2 DEF wide
    <3> QED
      BY <3>1, <3>3
  <2>3. f = u
    <3>1. \A s \in SUBSET (1..w) : f[s] = u[s]
      BY <2>2
    <3> QED
      BY <3>1
  <2> HIDE DEF f
  <2>4. c = u
    BY <2>1, <2>3
  <2> QED
    BY <2>4, Zenon DEF IsFold
<1>16. FoldsList(c, wide, w, D, base, g)
  BY <1>7, <1>9, <1>10, <1>15 DEF FoldsList
<1> HIDE DEF E
<1>17. PICK h \in [0..w -> D] : ListRun(h, w, base, g) /\ c[1..w] = h[w]
  <2>1. RunTo(c[1..w], w, D, base, g)
    BY <1>6, <1>16, ListOutcome
  <2> QED
    BY <2>1 DEF RunTo
<1> DEFINE P == {k \in 0..w : \A e \in 1..k : Of(h[k], list[e][1])[list[e][2]] = vs[list[e][1]][list[e][2]]}
<1>18. 0 \in P
  BY <1>6
<1>19. ASSUME NEW k \in 0..(w - 1), k \in P PROVE k + 1 \in P
  <2>1. k \in 0..w /\ k + 1 \in 0..w /\ k + 1 \in 1..w /\ h[k] \in D /\ h[k + 1] \in D
    BY <1>6, <1>17
  <2> DEFINE p == list[k + 1]
  <2>2. p \in S /\ h[k + 1] = op(h[k], p)
    <3>1. h[k + 1] = g[<<k + 1, h[k]>>]
      BY <1>17 DEF ListRun
    <3> QED
      BY <1>6, <1>10, <2>1, <3>1
  <2> HIDE DEF p
  <2>3. /\ Of(h[k + 1], p[1]) = Put(Of(h[k], p[1]), p[2], vs[p[1]][p[2]])
        /\ \A j \in N : j # p[1] => Of(h[k + 1], j) = Of(h[k], j)
    <3> HIDE DEF P, op
    <3> QED
      BY <1>8, <2>1, <2>2
  <2>4. \A q \in S : q[1] \in N /\ q[2] \in DOMAIN Of(h[k], q[1])
    <3>1. \A q \in S : q[1] \in N /\ q[2] \in 0..(dims[q[1]] - 1)
      BY <1>4
    <3>2. \A i \in N : Of(h[k], i) \in Vector(dims[i])
      BY <2>1 DEF D, Labelings
    <3> QED
      BY <3>1, <3>2 DEF Vector
  <2>5. ASSUME NEW e \in 1..(k + 1)
        PROVE  Of(h[k + 1], list[e][1])[list[e][2]] = vs[list[e][1]][list[e][2]]
    <3>1. e = k + 1 \/ e \in 1..k
      BY <1>6
    <3>2. CASE e = k + 1
      <4>1. list[e] = p
        BY <3>2 DEF p
      <4> HIDE DEF P
      <4>2. Of(h[k + 1], p[1])[p[2]] = vs[p[1]][p[2]]
        BY <2>2, <2>3, <2>4 DEF Put
      <4> QED
        BY <4>1, <4>2, Zenon
    <3>3. CASE e \in 1..k
      <4> DEFINE q == list[e]
      <4>1. Of(h[k], q[1])[q[2]] = vs[q[1]][q[2]]
        BY <1>19, <3>3
      <4>2. q \in S
        BY <1>6, <3>3
      <4> HIDE DEF q, P
      <4>3. q[1] \in N
        BY <1>4, <4>2
      <4>4. ASSUME q[1] = p[1] PROVE Of(h[k + 1], q[1])[q[2]] = vs[q[1]][q[2]]
        <5>1. Of(h[k + 1], q[1]) = Put(Of(h[k], q[1]), p[2], vs[q[1]][p[2]])
          BY <2>3, <4>4
        <5>3. q[2] \in DOMAIN Of(h[k], q[1])
          BY <2>4, <4>2
        <5> QED
          BY <4>1, <5>1, <5>3 DEF Put
      <4>5. ASSUME q[1] # p[1] PROVE Of(h[k + 1], q[1])[q[2]] = vs[q[1]][q[2]]
        BY <2>3, <4>1, <4>3, <4>5
      <4>6. Of(h[k + 1], q[1])[q[2]] = vs[q[1]][q[2]]
        BY <4>4, <4>5
      <4> QED
        BY <4>6 DEF q
    <3> QED
      BY <3>1, <3>2, <3>3
  <2> QED
    BY <2>1, <2>5
<1>20. w \in P
  <2>1. \A k \in 0..w : k \in P
    <3> HIDE DEF P
    <3> QED
      BY <1>6, <1>18, <1>19, CountUp
  <2> QED
    BY <1>6, <2>1
<1>21. h[w] \in D
  BY <1>6, <1>17
<1>22. ASSUME NEW i \in N PROVE Of(h[w], i) = vs[i]
  <2>1. Of(h[w], i) \in Vector(dims[i])
    BY <1>21 DEF D, Labelings
  <2>2. ASSUME NEW k \in 0..(dims[i] - 1) PROVE Of(h[w], i)[k] = vs[i][k]
    <3>1. PICK e \in 1..w : list[e] = <<i, k>>
      BY <1>5, <1>6
    <3>2. Of(h[w], list[e][1])[list[e][2]] = vs[list[e][1]][list[e][2]]
      BY <1>20
    <3> QED
      BY <3>1, <3>2
  <2>3. vs[i] \in Vector(dims[i])
    OBVIOUS
  <2> QED
    BY <2>1, <2>2, <2>3, SameVector
<1> QED
  BY <1>2, <1>6, <1>17, <1>21, <1>22 DEF D
-----------------------------------------------------------------------------
(* Rules: no product is empty *)

RuleOK(rule) == \A p \in rule : p # {} /\ IsFiniteSet(p)
JoinIter(p, q) ==
    CHOOSE it : it = [s \in SUBSET q |->
        IF s = {} THEN p ELSE Add(it[s \ {CHOOSE x \in s : TRUE}], CHOOSE x \in s : TRUE)]

(* product_rule::add, term by term, is a fold.                             *)
LEMMA JoinParts ==
    ASSUME NEW p, NEW q
    PROVE  Joined(p, q) = JoinIter(p, q)[q]
BY Zenon DEF Joined, JoinIter, FoldSet, MapThenFoldSet

(* A product made of others is finite and empty only if both are.          *)
LEMMA JoinedRight ==
    ASSUME NEW p, IsFiniteSet(p), NEW q, IsFiniteSet(q)
    PROVE  IsFiniteSet(Joined(p, q)) /\ (Joined(p, q) = {} => p = {} /\ q = {})
<1> DEFINE D == SUBSET (p \cup q)
           g == [x \in q \X D |-> Add(x[2], x[1])]
           c == JoinIter(p, q)
           E == D \cup {c[s] : s \in SUBSET q}
           wide == [x \in q \X E |-> Add(x[2], x[1])]
           ch == ChosenOf(q)
<1>1. \A r, x : Add(r, x) # {} /\ \A y \in Add(r, x) : y \in r \/ y = x
  BY DEF Add
<1>2. p \in D /\ g \in [q \X D -> D]
  BY <1>1
<1>3. \A x \in q, r \in D : wide[<<x, r>>] = g[<<x, r>>] /\ g[<<x, r>>] = Add(r, x)
  OBVIOUS
<1> HIDE DEF g, D
<1>4. Chooser(ch, q) /\ \E it : IsFold(it, q, p, ch, g)
  BY <1>2, SetFold
<1>5. /\ \A s \in SUBSET q : ch[s] = CHOOSE x \in s : TRUE
      /\ \A s \in SUBSET q : s # {} => ch[s] \in q
  BY <1>4 DEF ChosenOf, Chooser
<1>6. PICK it0 : IsFold(it0, q, p, ch, g)
  BY <1>4
<1>7. it0 \in [SUBSET q -> D]
  BY <1>2, <1>6, SetFold
<1> HIDE DEF ch, c, wide
<1>8. it0 = [s \in SUBSET q |-> IF s = {} THEN p
        ELSE Add(it0[s \ {CHOOSE x \in s : TRUE}], CHOOSE x \in s : TRUE)]
  <2> DEFINE f == [s \in SUBSET q |-> IF s = {} THEN p
          ELSE Add(it0[s \ {CHOOSE x \in s : TRUE}], CHOOSE x \in s : TRUE)]
  <2>1. ASSUME NEW s \in SUBSET q PROVE it0[s] = f[s]
    <3> DEFINE e == CHOOSE x \in s : TRUE
    <3>1. it0[s] = IF s = {} THEN p ELSE g[<<ch[s], it0[s \ {ch[s]}]>>]
      BY <1>6, Zenon DEF IsFold
    <3>2. ch[s] = e
      BY <1>5
    <3>3. f[s] = IF s = {} THEN p ELSE Add(it0[s \ {e}], e)
      OBVIOUS
    <3> HIDE DEF e, f
    <3>4. ASSUME s # {} PROVE e \in q /\ it0[s \ {e}] \in D
      BY <1>5, <1>7, <3>2, <3>4
    <3> QED
      BY <1>3, <3>1, <3>2, <3>3, <3>4
  <2>2. f = [s \in SUBSET q |-> f[s]]
    OBVIOUS
  <2> HIDE DEF f
  <2>3. it0 = f
    BY <1>7, <2>1, <2>2
  <2> QED
    BY <2>3, Zenon DEF f
<1>9. c = [s \in SUBSET q |-> IF s = {} THEN p ELSE Add(c[s \ {CHOOSE x \in s : TRUE}], CHOOSE x \in s : TRUE)]
  BY <1>8, Zenon DEF JoinIter, c
<1>10. ASSUME NEW s \in SUBSET q PROVE c[s] = IF s = {} THEN p ELSE Add(c[s \ {ch[s]}], ch[s])
  <2>1. c[s] = IF s = {} THEN p ELSE Add(c[s \ {CHOOSE x \in s : TRUE}], CHOOSE x \in s : TRUE)
    BY <1>9, Zenon
  <2>2. ch[s] = CHOOSE x \in s : TRUE
    BY <1>5, Zenon
  <2> QED
    BY <2>1, <2>2, Zenon
<1>11. c = [s \in SUBSET q |-> c[s]]
  <2> DEFINE f == [s \in SUBSET q |-> IF s = {} THEN p
          ELSE Add(c[s \ {CHOOSE x \in s : TRUE}], CHOOSE x \in s : TRUE)]
  <2>1. c = f
    BY <1>9, Zenon
  <2>2. f = [s \in SUBSET q |-> f[s]]
    OBVIOUS
  <2> HIDE DEF f
  <2> QED
    BY <2>1, <2>2
<1>12. IsFold(c, q, p, ch, wide)
  <2> DEFINE u == [s \in SUBSET q |-> IF s = {} THEN p ELSE wide[<<ch[s], c[s \ {ch[s]}]>>]]
  <2>1. ASSUME NEW s \in SUBSET q PROVE c[s] = u[s]
    <3>1. ASSUME s # {} PROVE wide[<<ch[s], c[s \ {ch[s]}]>>] = Add(c[s \ {ch[s]}], ch[s])
      <4>1. ch[s] \in q /\ c[s \ {ch[s]}] \in E
        BY <1>5, <3>1
      <4> HIDE DEF E
      <4> QED
        BY <4>1 DEF wide
    <3> QED
      BY <1>10, <3>1
  <2>2. c = u
    BY <1>11, <2>1
  <2> QED
    BY <2>2, Zenon DEF IsFold
<1>13. c \in [SUBSET q -> D]
  <2>1. \A x \in q, r \in D : wide[<<x, r>>] = g[<<x, r>>]
    BY <1>3
  <2>2. Chooser(ch, q)
    BY <1>4
  <2>3. p \in D
    BY <1>2
  <2>4. g \in [q \X D -> D]
    BY <1>2
  <2> HIDE DEF E
  <2>5. c \in [SUBSET q -> D] /\ IsFold(c, q, p, ch, g)
    BY <1>12, <2>1, <2>2, <2>3, <2>4, FoldAgrees, Zenon
  <2> QED
    BY <2>5
<1>14. Joined(p, q) = c[q] /\ q \in SUBSET q
  BY JoinParts DEF c
<1>15. IsFiniteSet(c[q])
  <2>1. c[q] \in SUBSET (p \cup q)
    BY <1>13 DEF D
  <2> QED
    BY <2>1, FS_Union, FS_Subset
<1>16. c[q] = {} => p = {} /\ q = {}
  <2>1. q # {} => c[q] = Add(c[q \ {ch[q]}], ch[q])
    BY <1>10, <1>14
  <2>2. q = {} => c[q] = p
    BY <1>10, <1>14
  <2> QED
    BY <1>1, <2>1, <2>2
<1> QED
  BY <1>14, <1>15, <1>16

(* All products are finite.                                                *)
Finite(rule) == \A p \in rule : IsFiniteSet(p)

(* er_optimize leaves no product empty.                                    *)
LEMMA OptimizeRight ==
    ASSUME NEW pt, NEW n, NEW rule, Finite(rule)
    PROVE  RuleOK(er_optimize(pt, n, rule))
<1> DEFINE some == {p \in rule \ {{}} : ~\E term \in p : Forbids(pt, p, term)}
           R == er_optimize(pt, n, rule)
<1>1. R = IF \E p \in some : \A term \in p : Needless(pt, term) THEN AllAllowed(n)
          ELSE {Optimized(pt, p) : p \in some}
  BY Zenon DEF er_optimize
<1>2. RuleOK(AllAllowed(n))
  <2>1. \A p \in AllAllowed(n) : \E x : p = {x}
    BY DEF AllAllowed
  <2> QED
    BY <2>1, FS_Singleton DEF RuleOK
<1>3. \A p \in some : p \in rule
  OBVIOUS
<1> HIDE DEF some
<1>4. ASSUME NEW p \in some, \E term \in p : ~Needless(pt, term)
      PROVE  Optimized(pt, p) # {} /\ IsFiniteSet(Optimized(pt, p))
  <2> DEFINE T == {u \in p : ~Needless(pt, u)}
             f == [term \in T |-> <<Reduced(pt, term[1]), term[2]>>]
  <2>1. T # {}
    BY <1>4
  <2>2. IsFiniteSet(T)
    <3>1. IsFiniteSet(p)
      BY <1>3 DEF Finite
    <3> QED
      BY <3>1, FS_Subset
  <2>3. Optimized(pt, p) = {f[term] : term \in T}
    BY DEF Optimized
  <2> HIDE DEF T, f
  <2> QED
    BY <2>1, <2>2, <2>3, ImageFinite
<1>5. CASE \E p \in some : \A term \in p : Needless(pt, term)
  BY <1>1, <1>2, <1>5
<1>6. CASE ~\E p \in some : \A term \in p : Needless(pt, term)
  <2>1. R = {Optimized(pt, p) : p \in some}
    BY <1>1, <1>6
  <2>2. \A p \in some : Optimized(pt, p) # {} /\ IsFiniteSet(Optimized(pt, p))
    BY <1>4, <1>6
  <2> HIDE DEF R
  <2> QED
    BY <2>1, <2>2 DEF RuleOK, R
<1> QED
  BY <1>5, <1>6

(* A product of other terms.                                               *)
Image(f, S) == {f[x] : x \in S}

(* A product made term by term from a product that has terms has some.     *)
LEMMA ProductOfTerms ==
    ASSUME NEW p, IsFiniteSet(p), NEW f
    PROVE  LET q == Image(f, p)
           IN  /\ IsFiniteSet(q) /\ (p # {} => q # {})
               /\ IsFiniteSet(Joined({}, q)) /\ (p # {} => Joined({}, q) # {})
<1> DEFINE q == Image(f, p)
<1>1. p # {} => q # {}
  BY DEF Image
<1>2. IsFiniteSet(q)
  BY ImageFinite DEF Image
<1> HIDE DEF q
<1>3. IsFiniteSet(Joined({}, q)) /\ (Joined({}, q) = {} => q = {})
  BY <1>2, JoinedRight, FS_EmptySet
<1> QED
  BY <1>1, <1>2, <1>3 DEF q

(* Products on other indexes: none is empty.                               *)
LEMMA MovedRight ==
    ASSUME NEW rule, Finite(rule), NEW map, NEW n
    PROVE  RuleOK(MovedRule(rule, map, n))
<1> SUFFICES ASSUME NEW p \in rule, p # {}
             PROVE  MovedProduct(p, map, n) # {} /\ IsFiniteSet(MovedProduct(p, map, n))
  BY DEF MovedRule, RuleOK
<1> DEFINE f == [term \in p |-> <<Moved(term[1], map, n), term[2]>>]
<1>1. MovedProduct(p, map, n) = Joined({}, Image(f, p))
  <2>1. Image(f, p) = {<<Moved(term[1], map, n), term[2]>> : term \in p}
    BY DEF Image
  <2> QED
    BY <2>1 DEF MovedProduct
<1>2. IsFiniteSet(p)
  BY DEF Finite
<1> HIDE DEF f
<1> QED
  BY <1>1, <1>2, ProductOfTerms

(* Products joined in pairs: none is empty.                                *)
LEMMA JoinedRules ==
    ASSUME NEW R, RuleOK(R), NEW Q, RuleOK(Q)
    PROVE  RuleOK({Joined(p, q) : p \in R, q \in Q})
BY JoinedRight DEF RuleOK

(* The rule that allows all has a product with a term.                     *)
LEMMA AllowedRight ==
    ASSUME NEW n
    PROVE  RuleOK(AllAllowed(n))
<1>1. \A p \in AllAllowed(n) : \E x : p = {x}
  BY DEF AllAllowed
<1> QED
  BY <1>1, FS_Singleton DEF RuleOK

(* Permuting the sequences leaves no product empty.                        *)
LEMMA PermutedRight ==
    ASSUME NEW el, RuleOK(el.rule), NEW p
    PROVE  RuleOK(PermutedElement(el, p).rule)
<1>1. PermutedElement(el, p).rule = {{<<Apply(p, term[1]), term[2]>> : term \in q} : q \in el.rule}
  BY DEF PermutedElement
<1>2. ASSUME NEW q \in el.rule
      PROVE  LET r == {<<Apply(p, term[1]), term[2]>> : term \in q} IN r # {} /\ IsFiniteSet(r)
  <2> DEFINE f == [term \in q |-> <<Apply(p, term[1]), term[2]>>]
  <2>1. {<<Apply(p, term[1]), term[2]>> : term \in q} = Image(f, q)
    BY DEF Image
  <2>2. q # {} /\ IsFiniteSet(q)
    BY DEF RuleOK
  <2> HIDE DEF f
  <2> QED
    BY <2>1, <2>2, ProductOfTerms
<1> QED
  BY <1>1, <1>2 DEF RuleOK

(* er_merge: a product without indexes allows all.                         *)
MergedSeq(seq, m, mmap, smsk) ==
    [x \in 0..(m - 1) |-> Gathered(seq, mmap, 0..(m - 1))[x] % (IF smsk[x] THEN 2 ELSE Weight(seq) + 1)]
MergedProduct(p, m, mmap, smsk) ==
    Joined({}, {<<MergedSeq(term[1], m, mmap, smsk), term[2]>> :
                    term \in {u \in p : ~Zero(MergedSeq(u[1], m, mmap, smsk))}})
MergedProducts(some, m, mmap, smsk) ==
    IF {} \in {MergedProduct(p, m, mmap, smsk) : p \in some} THEN AllAllowed(m)
    ELSE {MergedProduct(p, m, mmap, smsk) : p \in some}
Unforbidden(rule, m, mmap, smsk) ==
    {p \in rule : \A term \in p : Zero(MergedSeq(term[1], m, mmap, smsk)) => term[2] = identity}

(* er_merge, in parts.                                                     *)
LEMMA MergeParts ==
    ASSUME NEW rule, NEW m, NEW mmap, NEW smsk
    PROVE  er_merge(rule, m, mmap, smsk) = MergedProducts(Unforbidden(rule, m, mmap, smsk), m, mmap, smsk)
BY Zenon DEF er_merge, MergedProducts, Unforbidden, MergedProduct, MergedSeq

(* er_merge makes no empty product: one without indexes allows all or is   *)
(* left out.                                                               *)
LEMMA MergeRuleRight ==
    ASSUME NEW rule, Finite(rule), NEW m, NEW mmap, NEW smsk
    PROVE  RuleOK(er_merge(rule, m, mmap, smsk))
<1> DEFINE some == Unforbidden(rule, m, mmap, smsk)
<1>1. /\ er_merge(rule, m, mmap, smsk) = MergedProducts(some, m, mmap, smsk)
      /\ \A p \in some : p \in rule
  BY MergeParts DEF Unforbidden
<1> HIDE DEF some
<1>2. ASSUME NEW p \in some PROVE IsFiniteSet(MergedProduct(p, m, mmap, smsk))
  <2> DEFINE T == {u \in p : ~Zero(MergedSeq(u[1], m, mmap, smsk))}
             f == [term \in T |-> <<MergedSeq(term[1], m, mmap, smsk), term[2]>>]
  <2>1. MergedProduct(p, m, mmap, smsk) = Joined({}, Image(f, T))
    <3>1. Image(f, T) = {<<MergedSeq(term[1], m, mmap, smsk), term[2]>> : term \in T}
      BY DEF Image
    <3> QED
      BY <3>1, Zenon DEF MergedProduct
  <2>2. IsFiniteSet(T)
    <3>1. IsFiniteSet(p)
      BY <1>1 DEF Finite
    <3> QED
      BY <3>1, FS_Subset
  <2> HIDE DEF T, f
  <2> QED
    BY <2>1, <2>2, ProductOfTerms
<1>3. CASE {} \in {MergedProduct(p, m, mmap, smsk) : p \in some}
  BY <1>1, <1>3, AllowedRight DEF MergedProducts
<1>4. CASE {} \notin {MergedProduct(p, m, mmap, smsk) : p \in some}
  <2>1. er_merge(rule, m, mmap, smsk) = {MergedProduct(p, m, mmap, smsk) : p \in some}
    BY <1>1, <1>4 DEF MergedProducts
  <2> QED
    BY <1>2, <1>4, <2>1 DEF RuleOK
<1> QED
  BY <1>3, <1>4

(* er_reduce: the sequences of a product are combined in finite sets.      *)
JoinedBy(cs, e) == {c \in cs : c \cap e = {}} \cup {UNION {c \in cs : c \cap e # {}}}
ComponentIter(S, edges) ==
    CHOOSE it : it = [s \in SUBSET edges |->
        IF s = {} THEN {{seq} : seq \in S}
                ELSE JoinedBy(it[s \ {CHOOSE x \in s : TRUE}], CHOOSE x \in s : TRUE)]

(* The components of a graph, edge by edge.                                *)
LEMMA ComponentParts ==
    ASSUME NEW S, NEW edges
    PROVE  Components(S, edges) = ComponentIter(S, edges)[edges]
BY Zenon DEF Components, ComponentIter, JoinedBy, FoldSet, MapThenFoldSet

(* The components of a graph are sets of its vertices.                     *)
LEMMA ComponentsRight ==
    ASSUME NEW S, IsFiniteSet(S), NEW edges \in SUBSET SUBSET S
    PROVE  Components(S, edges) \in SUBSET SUBSET S
<1> DEFINE D == SUBSET SUBSET S
           base == {{seq} : seq \in S}
           g == [x \in edges \X D |-> JoinedBy(x[2], x[1])]
           c == ComponentIter(S, edges)
           E == D \cup {c[s] : s \in SUBSET edges}
           wide == [x \in edges \X E |-> JoinedBy(x[2], x[1])]
           ch == ChosenOf(edges)
<1>0. IsFiniteSet(edges)
  BY FS_SUBSET, FS_Subset
<1>1. \A cs \in D : \A e : JoinedBy(cs, e) \in D
  BY DEF JoinedBy
<1>2. base \in D /\ g \in [edges \X D -> D]
  BY <1>1
<1>3. \A x \in edges, r \in D : wide[<<x, r>>] = g[<<x, r>>] /\ g[<<x, r>>] = JoinedBy(r, x)
  OBVIOUS
<1> HIDE DEF g, D
<1>4. Chooser(ch, edges) /\ \E it : IsFold(it, edges, base, ch, g)
  BY <1>0, <1>2, SetFold
<1>5. /\ \A s \in SUBSET edges : ch[s] = CHOOSE x \in s : TRUE
      /\ \A s \in SUBSET edges : s # {} => ch[s] \in edges
  BY <1>4 DEF ChosenOf, Chooser
<1>6. PICK it0 : IsFold(it0, edges, base, ch, g)
  BY <1>4
<1>7. it0 \in [SUBSET edges -> D]
  BY <1>0, <1>2, <1>6, SetFold
<1>b. base = {{seq} : seq \in S}
  OBVIOUS
<1> HIDE DEF ch, c, wide, base
<1>8. it0 = [s \in SUBSET edges |-> IF s = {} THEN base
        ELSE JoinedBy(it0[s \ {CHOOSE x \in s : TRUE}], CHOOSE x \in s : TRUE)]
  <2> DEFINE f == [s \in SUBSET edges |-> IF s = {} THEN base
          ELSE JoinedBy(it0[s \ {CHOOSE x \in s : TRUE}], CHOOSE x \in s : TRUE)]
  <2>1. ASSUME NEW s \in SUBSET edges PROVE it0[s] = f[s]
    <3> DEFINE e == CHOOSE x \in s : TRUE
    <3>1. it0[s] = IF s = {} THEN base ELSE g[<<ch[s], it0[s \ {ch[s]}]>>]
      BY <1>6, Zenon DEF IsFold
    <3>2. ch[s] = e
      BY <1>5
    <3>3. f[s] = IF s = {} THEN base ELSE JoinedBy(it0[s \ {e}], e)
      OBVIOUS
    <3> HIDE DEF e, f
    <3>4. ASSUME s # {} PROVE e \in edges /\ it0[s \ {e}] \in D
      BY <1>5, <1>7, <3>2, <3>4
    <3> QED
      BY <1>3, <3>1, <3>2, <3>3, <3>4
  <2>2. f = [s \in SUBSET edges |-> f[s]]
    OBVIOUS
  <2> HIDE DEF f
  <2>3. it0 = f
    BY <1>7, <2>1, <2>2
  <2> QED
    BY <2>3, Zenon DEF f
<1>9. c = [s \in SUBSET edges |-> IF s = {} THEN base
        ELSE JoinedBy(c[s \ {CHOOSE x \in s : TRUE}], CHOOSE x \in s : TRUE)]
  BY <1>8, <1>b, Zenon DEF ComponentIter, c
<1>10. ASSUME NEW s \in SUBSET edges PROVE c[s] = IF s = {} THEN base ELSE JoinedBy(c[s \ {ch[s]}], ch[s])
  <2>1. c[s] = IF s = {} THEN base ELSE JoinedBy(c[s \ {CHOOSE x \in s : TRUE}], CHOOSE x \in s : TRUE)
    BY <1>9, Zenon
  <2>2. ch[s] = CHOOSE x \in s : TRUE
    BY <1>5, Zenon
  <2> QED
    BY <2>1, <2>2, Zenon
<1>11. c = [s \in SUBSET edges |-> c[s]]
  <2> DEFINE f == [s \in SUBSET edges |-> IF s = {} THEN base
          ELSE JoinedBy(c[s \ {CHOOSE x \in s : TRUE}], CHOOSE x \in s : TRUE)]
  <2>1. c = f
    BY <1>9, Zenon
  <2>2. f = [s \in SUBSET edges |-> f[s]]
    OBVIOUS
  <2> HIDE DEF f
  <2> QED
    BY <2>1, <2>2
<1>12. IsFold(c, edges, base, ch, wide)
  <2> DEFINE u == [s \in SUBSET edges |-> IF s = {} THEN base ELSE wide[<<ch[s], c[s \ {ch[s]}]>>]]
  <2>1. ASSUME NEW s \in SUBSET edges PROVE c[s] = u[s]
    <3>1. ASSUME s # {} PROVE wide[<<ch[s], c[s \ {ch[s]}]>>] = JoinedBy(c[s \ {ch[s]}], ch[s])
      <4>1. ch[s] \in edges /\ c[s \ {ch[s]}] \in E
        BY <1>5, <3>1
      <4> HIDE DEF E
      <4> QED
        BY <4>1 DEF wide
    <3> QED
      BY <1>10, <3>1
  <2>2. c = u
    BY <1>11, <2>1
  <2> QED
    BY <2>2, Zenon DEF IsFold
<1>13. c \in [SUBSET edges -> D]
  <2>1. \A x \in edges, r \in D : wide[<<x, r>>] = g[<<x, r>>]
    BY <1>3
  <2>2. Chooser(ch, edges) /\ base \in D /\ g \in [edges \X D -> D]
    BY <1>2, <1>4
  <2> HIDE DEF E
  <2>3. c \in [SUBSET edges -> D] /\ IsFold(c, edges, base, ch, g)
    BY <1>0, <1>12, <2>1, <2>2, FoldAgrees, Zenon
  <2> QED
    BY <2>3
<1>14. Components(S, edges) = c[edges] /\ edges \in SUBSET edges
  BY ComponentParts DEF c
<1> QED
  BY <1>13, <1>14 DEF D

(* A selection takes one member of each set.                               *)
LEMMA SelectionsOf ==
    ASSUME NEW F, NEW f \in Selections(F)
    PROVE  f \in [DOMAIN F -> UNION Range(F)] /\ \A d \in DOMAIN F : f[d] \in F[d]
BY DEF Selections

(* There are finitely many ways to choose from finite sets.                *)
LEMMA SelectionsFinite ==
    ASSUME NEW S, IsFiniteSet(S), NEW F, DOMAIN F = S, \A x \in S : IsFiniteSet(F[x])
    PROVE  IsFiniteSet(Selections(F)) /\ IsFiniteSet(UNION Range(F))
<1>1. Range(F) = {F[x] : x \in S}
  BY DEF Range
<1>2. IsFiniteSet(Range(F)) /\ \A T \in Range(F) : IsFiniteSet(T)
  BY <1>1, ImageFinite
<1>3. IsFiniteSet(UNION Range(F))
  BY <1>2, FS_UNION
<1>4. IsFiniteSet([S -> UNION Range(F)])
  BY <1>3, FunctionsFinite
<1>5. Selections(F) \in SUBSET [S -> UNION Range(F)]
  BY DEF Selections
<1> QED
  BY <1>3, <1>4, <1>5, FS_Subset

(* The labels of a finite product are finitely many.                       *)
LEMMA IntrFinite ==
    ASSUME NEW p, IsFiniteSet(p), NEW seq
    PROVE  IsFiniteSet(IntrOf(p, seq))
<1> DEFINE T == {t1 \in p : t1[1] = seq}
           f == [term \in T |-> term[2]]
<1>1. IsFiniteSet(T)
  BY FS_Subset
<1>2. IntrOf(p, seq) = {f[term] : term \in T}
  BY DEF IntrOf
<1> HIDE DEF T, f
<1> QED
  BY <1>1, <1>2, ImageFinite

CombosOf(p, c) == Selections([seq \in c |-> IntrOf(p, seq)])
LabelsOfCombo(pt, c, n, f) ==
    UNION {product(pt, [i \in 1..Cardinality(c) |-> f[SetToSeq(c)[i]]] \o rest)
            : rest \in get_product_labels(pt, n - 1)}

(* append_intr, in parts.                                                  *)
LEMMA AppendParts ==
    ASSUME NEW pt, NEW p, NEW c, NEW n
    PROVE  append_intr(pt, p, c, n) =
               IF n = 0 THEN {IntrOf(p, seq) : seq \in c}
               ELSE {Range(g) : g \in Selections([f \in CombosOf(p, c) |-> LabelsOfCombo(pt, c, n, f)])}
BY Zenon DEF append_intr, CombosOf, LabelsOfCombo

(* Each set of labels that append_intr makes is finite.                    *)
LEMMA AppendRight ==
    ASSUME NEW pt, NEW p, IsFiniteSet(p), NEW c, IsFiniteSet(c), NEW n, NEW I \in append_intr(pt, p, c, n)
    PROVE  IsFiniteSet(I)
<1> DEFINE F == [seq \in c |-> IntrOf(p, seq)]
           G == [f \in CombosOf(p, c) |-> LabelsOfCombo(pt, c, n, f)]
<1>1. append_intr(pt, p, c, n) = IF n = 0 THEN {IntrOf(p, seq) : seq \in c}
        ELSE {Range(g) : g \in Selections(G)}
  BY AppendParts
<1>2. CASE n = 0
  BY <1>1, <1>2, IntrFinite
<1>3. CASE n # 0
  <2>0. DOMAIN F = c /\ \A x \in c : F[x] = IntrOf(p, x)
    OBVIOUS
  <2>e. CombosOf(p, c) = Selections(F)
    BY DEF CombosOf
  <2>g. DOMAIN G = CombosOf(p, c)
    OBVIOUS
  <2> HIDE DEF F, G
  <2>f. \A x \in c : IsFiniteSet(F[x])
    BY <2>0, IntrFinite
  <2>1. IsFiniteSet(CombosOf(p, c))
    <3>1. IsFiniteSet(Selections(F)) /\ IsFiniteSet(UNION Range(F))
      BY <2>0, <2>f, SelectionsFinite
    <3> QED
      BY <2>e, <3>1
  <2>2. PICK g \in Selections(G) : I = Range(g)
    BY <1>1, <1>3
  <2>3. DOMAIN g = CombosOf(p, c)
    BY <2>2, <2>g, SelectionsOf
  <2>4. Range(g) = {g[x] : x \in CombosOf(p, c)}
    BY <2>3 DEF Range
  <2> QED
    BY <2>1, <2>2, <2>4, ImageFinite
<1> QED
  BY <1>2, <1>3

(* What is left of a product is finite.                                    *)
JoinsOf(pt, p, k, rmap, rdims) == {x \in DOMAIN rdims : Joins(pt, p, x, k, rmap, rdims)}
CompsOf(pt, p, k, rmap, rdims) ==
    Components(SeqsOf(p), {InStep(p, x, k, rmap) : x \in JoinsOf(pt, p, k, rmap, rdims)})
IntrsOf(pt, p, k, rmap, rdims) ==
    intr_labels(pt, p, CompsOf(pt, p, k, rmap, rdims), JoinsOf(pt, p, k, rmap, rdims), k, rmap)

(* The result of reduce_product, in parts.                                 *)
LEMMA ReduceParts ==
    ASSUME NEW pt, NEW p, NEW k, NEW rmap, NEW rdims
    PROVE  reduce_product(pt, p, k, rmap, rdims) =
             LET joins == JoinsOf(pt, p, k, rmap, rdims)
                 todo == DOMAIN rdims \ joins
                 comps == CompsOf(pt, p, k, rmap, rdims)
                 intrs == IntrsOf(pt, p, k, rmap, rdims)
             IN  IF todo # {}
                 THEN UNION {{Remaining(cur, k, rmap) : cur \in {f \in curs(pt, comps, il, todo, k, rmap, rdims) :
                        \A q \in StepTerms(comps, il) : NoneKept(q[1], k, rmap) => f[q] \in {identity, invalid}}} :
                        il \in intrs}
                 ELSE {Remaining([q \in StepTerms(comps, il) |-> q[2]], k, rmap) :
                        il \in {jl \in intrs :
                            \A c \in comps : NoneKept(c, k, rmap) => jl[c] \cap {identity, invalid} # {}}}
BY Zenon DEF reduce_product, IntrsOf, CompsOf, JoinsOf

(* The labels of the components are finite sets, one for each component.   *)
LEMMA IntrLabels ==
    ASSUME NEW pt, NEW p, IsFiniteSet(p), NEW comps, \A c \in comps : IsFiniteSet(c),
           NEW joins, NEW k, NEW rmap, NEW il \in intr_labels(pt, p, comps, joins, k, rmap)
    PROVE  DOMAIN il = comps /\ \A c \in comps : IsFiniteSet(il[c])
<1> DEFINE mult(c) ==
             Max({0} \cup {Cardinality({y \in joins : InStep(p, y, k, rmap) = InStep(p, x, k, rmap)}) :
                            x \in {x \in joins : InStep(p, x, k, rmap) \subseteq c}})
           F == [c \in comps |-> append_intr(pt, p, c, mult(c))]
<1>1. intr_labels(pt, p, comps, joins, k, rmap) = IF p = {} THEN {} ELSE Selections(F)
  BY Zenon DEF intr_labels
<1>2. DOMAIN F = comps
  OBVIOUS
<1>3. \A c \in comps : \E n : F[c] = append_intr(pt, p, c, n)
  OBVIOUS
<1> HIDE DEF F
<1>4. il \in Selections(F)
  BY <1>1
<1>5. DOMAIN il = comps /\ \A c \in comps : il[c] \in F[c]
  BY <1>2, <1>4, SelectionsOf
<1> QED
  BY <1>3, <1>5, AppendRight

(* The terms of a product in a step are finitely many.                     *)
LEMMA StepTermsFinite ==
    ASSUME NEW comps, IsFiniteSet(comps), NEW il, DOMAIN il = comps, \A c \in comps : IsFiniteSet(il[c])
    PROVE  IsFiniteSet(StepTerms(comps, il))
<1>1. IsFiniteSet(UNION Range(il))
  BY SelectionsFinite
<1>2. IsFiniteSet(comps \X UNION Range(il))
  BY <1>1, FS_Product
<1>3. StepTerms(comps, il) \in SUBSET (comps \X UNION Range(il))
  BY DEF StepTerms
<1> QED
  BY <1>2, <1>3, FS_Subset

(* The product that is left is finite.                                     *)
LEMMA RemainingFinite ==
    ASSUME NEW cur, IsFiniteSet(DOMAIN cur), NEW k, NEW rmap
    PROVE  IsFiniteSet(Remaining(cur, k, rmap))
<1> DEFINE T == {r \in DOMAIN cur : ~NoneKept(r[1], k, rmap)}
           f == [q \in T |-> <<KeptOf(q[1], k, rmap), cur[q]>>]
<1>1. Remaining(cur, k, rmap) = Joined({}, Image(f, T))
  <2>1. Image(f, T) = {<<KeptOf(q[1], k, rmap), cur[q]>> : q \in T}
    BY DEF Image
  <2> QED
    BY <2>1, Zenon DEF Remaining
<1>2. IsFiniteSet(T)
  BY FS_Subset
<1> HIDE DEF T, f
<1> QED
  BY <1>1, <1>2, ProductOfTerms

(* What becomes of the labels is told for each term.                       *)
LEMMA CursDomain ==
    ASSUME NEW pt, NEW comps, NEW il, NEW todo, NEW k, NEW rmap, NEW rdims,
           NEW cur \in curs(pt, comps, il, todo, k, rmap, rdims)
    PROVE  DOMAIN cur = StepTerms(comps, il)
<1> DEFINE Labels(q, ridx) ==
             FoldLeft(LAMBDA lg, x : lg \o [j \in 1..[y \in todo |->
                          SumOver(q[1], LAMBDA seq : Gathered(seq, rmap, {k + y})[k + y])][x] |-> ridx[x]],
                      <<>>, From1(Sorted(todo)))
           F(ridx) == [q \in StepTerms(comps, il) |-> product(pt, Labels(q, ridx) \o <<q[2]>>)]
<1>1. curs(pt, comps, il, todo, k, rmap, rdims)
        = UNION {Selections(F(ridx)) : ridx \in Selections([x \in todo |-> rdims[x]])}
  BY Zenon DEF curs
<1>2. \A ridx : DOMAIN F(ridx) = StepTerms(comps, il)
  OBVIOUS
<1> HIDE DEF F
<1>3. PICK ridx \in Selections([x \in todo |-> rdims[x]]) : cur \in Selections(F(ridx))
  BY <1>1
<1> QED
  BY <1>2, <1>3, SelectionsOf

(* What reduce_product leaves of a finite product is a finite product.     *)
LEMMA ReducedProduct ==
    ASSUME NEW pt, NEW p, IsFiniteSet(p), NEW k, NEW rmap, NEW rdims
    PROVE  Finite(reduce_product(pt, p, k, rmap, rdims))
<1> DEFINE joins == JoinsOf(pt, p, k, rmap, rdims)
           todo == DOMAIN rdims \ joins
           comps == CompsOf(pt, p, k, rmap, rdims)
           intrs == IntrsOf(pt, p, k, rmap, rdims)
<1>1. IsFiniteSet(comps) /\ \A c \in comps : IsFiniteSet(c)
  <2> DEFINE S == SeqsOf(p)
             f == [term \in p |-> term[1]]
             edges == {InStep(p, x, k, rmap) : x \in joins}
  <2>1. IsFiniteSet(S)
    <3>1. S = {f[term] : term \in p}
      BY DEF SeqsOf
    <3> HIDE DEF S, f
    <3> QED
      BY <3>1, ImageFinite
  <2>2. edges \in SUBSET SUBSET S
    BY DEF InStep
  <2>3. comps = Components(S, edges)
    BY DEF CompsOf
  <2> HIDE DEF S, edges, comps
  <2>4. comps \in SUBSET SUBSET S
    BY <2>1, <2>2, <2>3, ComponentsRight
  <2>5. IsFiniteSet(SUBSET S)
    BY <2>1, FS_SUBSET
  <2> QED
    BY <2>1, <2>4, <2>5, FS_Subset
<1> HIDE DEF joins, comps
<1>2. ASSUME NEW il \in intrs
      PROVE  IsFiniteSet(StepTerms(comps, il))
  <2>1. il \in intr_labels(pt, p, comps, joins, k, rmap)
    BY DEF IntrsOf, joins, comps
  <2>2. DOMAIN il = comps /\ \A c \in comps : IsFiniteSet(il[c])
    BY <1>1, <2>1, IntrLabels
  <2> QED
    BY <1>1, <2>2, StepTermsFinite
<1> HIDE DEF intrs
<1>3. ASSUME NEW r \in reduce_product(pt, p, k, rmap, rdims)
      PROVE  \E il \in intrs : \E cur : DOMAIN cur = StepTerms(comps, il) /\ r = Remaining(cur, k, rmap)
  <2>1. reduce_product(pt, p, k, rmap, rdims) =
             IF todo # {}
             THEN UNION {{Remaining(cur, k, rmap) : cur \in {f \in curs(pt, comps, il, todo, k, rmap, rdims) :
                        \A q \in StepTerms(comps, il) : NoneKept(q[1], k, rmap) => f[q] \in {identity, invalid}}} :
                        il \in intrs}
             ELSE {Remaining([q \in StepTerms(comps, il) |-> q[2]], k, rmap) :
                        il \in {jl \in intrs :
                            \A c \in comps : NoneKept(c, k, rmap) => jl[c] \cap {identity, invalid} # {}}}
    BY ReduceParts DEF joins, comps, intrs
  <2>2. CASE todo # {}
    <3> DEFINE Right(f, il) ==
                 \A q \in StepTerms(comps, il) : NoneKept(q[1], k, rmap) => f[q] \in {identity, invalid}
               After(il) == {Remaining(cur, k, rmap) :
                               cur \in {f \in curs(pt, comps, il, todo, k, rmap, rdims) : Right(f, il)}}
    <3>a. reduce_product(pt, p, k, rmap, rdims) = UNION {After(il) : il \in intrs}
      BY <2>1, <2>2, Zenon
    <3> HIDE DEF Right
    <3>b. \A il : r \in After(il) =>
              \E cur \in curs(pt, comps, il, todo, k, rmap, rdims) : r = Remaining(cur, k, rmap)
      OBVIOUS
    <3> HIDE DEF After
    <3>0. PICK il \in intrs : \E cur \in curs(pt, comps, il, todo, k, rmap, rdims) : r = Remaining(cur, k, rmap)
      BY <3>a, <3>b
    <3>1. PICK cur \in curs(pt, comps, il, todo, k, rmap, rdims) : r = Remaining(cur, k, rmap)
      BY <3>0
    <3> HIDE DEF todo
    <3>2. DOMAIN cur = StepTerms(comps, il)
      BY CursDomain
    <3> QED
      BY <3>1, <3>2
  <2>3. CASE ~(todo # {})
    <3>1. PICK il \in intrs : r = Remaining([q \in StepTerms(comps, il) |-> q[2]], k, rmap)
      BY <2>1, <2>3
    <3>2. DOMAIN [q \in StepTerms(comps, il) |-> q[2]] = StepTerms(comps, il)
      OBVIOUS
    <3> QED
      BY <3>1, <3>2
  <2> QED
    BY <2>2, <2>3
<1> QED
  BY <1>2, <1>3, RemainingFinite DEF Finite

(* er_reduce leaves no product empty.                                      *)
LEMMA ReduceRuleRight ==
    ASSUME NEW pt, NEW rule, Finite(rule), NEW k, NEW rmap, NEW rdims
    PROVE  RuleOK(er_reduce(pt, rule, k, rmap, rdims))
<1> DEFINE left == UNION {reduce_product(pt, p, k, rmap, rdims) : p \in rule}
<1>1. er_reduce(pt, rule, k, rmap, rdims) = IF {} \in left THEN AllAllowed(k) ELSE left
  BY DEF er_reduce
<1>2. \A r \in left : IsFiniteSet(r)
  BY ReducedProduct DEF Finite
<1> HIDE DEF left
<1> QED
  BY <1>1, <1>2, AllowedRight DEF RuleOK
-----------------------------------------------------------------------------
(* The elements of a table *)

(* An element with the labels vs.                                          *)
ElementOK(el, dims, vs) ==
    /\ el = [bl |-> el.bl, rule |-> el.rule]
    /\ el.bl \in Labelings(dims) /\ \A i \in DOMAIN dims : Of(el.bl, i) = vs[i]
    /\ RuleOK(el.rule)
ElementsOK(els, dims, vs) ==
    \E k \in Nat \ {0} : DOMAIN els = 1..k /\ els = [e \in 1..k |-> els[e]]
                         /\ \A e \in 1..k : ElementOK(els[e], dims, vs)

(* A labeling and a rule make an element.                                  *)
LEMMA MakeElement ==
    ASSUME NEW dims, NEW vs, NEW bl \in Labelings(dims), \A i \in DOMAIN dims : Of(bl, i) = vs[i],
           NEW rule, RuleOK(rule)
    PROVE  ElementOK([bl |-> bl, rule |-> rule], dims, vs)
BY DEF ElementOK

(* The products of a rule are finite.                                      *)
LEMMA FiniteRule ==
    ASSUME NEW rule, RuleOK(rule)
    PROVE  Finite(rule)
BY DEF RuleOK, Finite

(* combine_label::add keeps the labels of the element.                     *)
LEMMA AddRight ==
    ASSUME NEW dims, NEW vs, NEW el, ElementOK(el, dims, vs), NEW other, ElementOK(other, dims, vs),
           NEW pt, NEW n
    PROVE  ElementOK(add(pt, n, el, other), dims, vs)
<1> DEFINE rule == IF other.rule = {} THEN {}
                   ELSE er_optimize(pt, n, {Joined(p, q) : p \in el.rule, q \in other.rule})
<1>1. add(pt, n, el, other) = [bl |-> el.bl, rule |-> rule]
  <2>1. el = [bl |-> el.bl, rule |-> el.rule]
    BY DEF ElementOK
  <2>2. add(pt, n, el, other) = [el EXCEPT !.rule = rule]
    BY DEF add
  <2> HIDE DEF rule
  <2> QED
    BY <2>1, <2>2
<1>2. RuleOK(rule)
  <2>1. RuleOK({Joined(p, q) : p \in el.rule, q \in other.rule})
    BY JoinedRules DEF ElementOK
  <2>2. RuleOK(er_optimize(pt, n, {Joined(p, q) : p \in el.rule, q \in other.rule}))
    BY <2>1, FiniteRule, OptimizeRight
  <2> QED
    BY <2>2 DEF RuleOK
<1> HIDE DEF rule
<1> QED
  BY <1>1, <1>2, MakeElement DEF ElementOK

SumIter(pt, n, base, list) ==
    CHOOSE it : it = [s \in SUBSET (DOMAIN list) |->
        IF s = {} THEN base ELSE add(pt, n, it[s \ {Max(s)}], list[Max(s)])]

(* combine_label adds the elements of a table one after the other.         *)
LEMMA CombinedParts ==
    ASSUME NEW n, NEW id, NEW els
    PROVE  Combined(n, id, els) = SumIter(Tables[id], n, Head(els), Tail(els))[DOMAIN Tail(els)]
BY Zenon DEF Combined, SumIter, FoldLeft, MapThenFoldSet

(* The iteration exists.                                                   *)
SumsAt(it, pt, n, base, list, s) ==
    it[s] = IF s = {} THEN base ELSE add(pt, n, it[s \ {Max(s)}], list[Max(s)])
Sums(it, pt, n, base, list, w) ==
    it = [s \in SUBSET (1..w) |-> IF s = {} THEN base ELSE add(pt, n, it[s \ {Max(s)}], list[Max(s)])]

(* The sums of the first elements of a table.                              *)
LEMMA SumsExist ==
    ASSUME NEW pt, NEW n, NEW base, NEW list, NEW w \in Nat
    PROVE  \E it : Sums(it, pt, n, base, list, w)
<1> DEFINE S == 1..w
<1>0. IsFiniteSet(S) /\ \A s \in SUBSET S : s # {} => Max(s) \in s
  <2>1. IsFiniteSet(S)
    BY FS_Interval
  <2>2. \A s \in SUBSET S : s \in SUBSET Nat
    OBVIOUS
  <2> HIDE DEF S
  <2>3. \A s \in SUBSET S : IsFiniteSet(s)
    BY <2>1, FS_Subset
  <2> QED
    BY <2>1, <2>2, <2>3, MaxOfFinite
<1>1. ASSUME NEW s \in SUBSET S PROVE IsFiniteSet(s) /\ Cardinality(s) \in Nat
  BY <1>0, FS_Subset, FS_CardinalityType
<1> DEFINE m == Cardinality(S)
           P == {k \in 0..m : \E it : \A s \in SUBSET S : Cardinality(s) <= k => SumsAt(it, pt, n, base, list, s)}
<1>2. m \in Nat /\ \A s \in SUBSET S : Cardinality(s) <= m
  BY <1>0, FS_Subset, FS_CardinalityType
<1> HIDE DEF S, m
<1>3. 0 \in P
  <2> DEFINE it == [s \in SUBSET S |-> base]
  <2>1. ASSUME NEW s \in SUBSET S, Cardinality(s) <= 0 PROVE s = {}
    BY <1>1, <2>1, FS_EmptySet
  <2>2. \A s \in SUBSET S : Cardinality(s) <= 0 => SumsAt(it, pt, n, base, list, s)
    BY <2>1 DEF SumsAt
  <2> HIDE DEF it
  <2> QED
    BY <1>2, <2>2
<1>4. ASSUME NEW k \in 0..(m - 1), k \in P PROVE k + 1 \in P
  <2>1. PICK f : \A s \in SUBSET S : Cardinality(s) <= k => SumsAt(f, pt, n, base, list, s)
    BY <1>4
  <2> DEFINE it == [s \in SUBSET S |-> IF s = {} THEN base ELSE add(pt, n, f[s \ {Max(s)}], list[Max(s)])]
  <2>2. ASSUME NEW s \in SUBSET S, Cardinality(s) <= k + 1 PROVE SumsAt(it, pt, n, base, list, s)
    <3>1. CASE s = {}
      BY <3>1 DEF SumsAt
    <3>2. CASE s # {}
      <4> DEFINE r == s \ {Max(s)}
      <4>1. Max(s) \in s /\ r \in SUBSET S
        BY <1>0, <3>2
      <4>2. Cardinality(r) \in Nat /\ Cardinality(s) \in Nat /\ Cardinality(r) < Cardinality(s)
        <5>1. IsFiniteSet(s) /\ Max(s) \notin r /\ r \in SUBSET s
          BY <1>1
        <5> HIDE DEF r
        <5> QED
          BY <4>1, <5>1, Fewer
      <4>3. it[s] = add(pt, n, f[r], list[Max(s)])
        BY <3>2
      <4> HIDE DEF r
      <4>4. Cardinality(r) <= k
        BY <1>2, <2>2, <4>2
      <4>5. it[r] = f[r]
        BY <2>1, <4>1, <4>4 DEF SumsAt
      <4> HIDE DEF it
      <4> QED
        BY <3>2, <4>3, <4>5 DEF r, SumsAt
    <3> QED
      BY <3>1, <3>2
  <2>3. \A s \in SUBSET S : Cardinality(s) <= k + 1 => SumsAt(it, pt, n, base, list, s)
    BY <2>2
  <2>4. k + 1 \in 0..m
    BY <1>2
  <2> HIDE DEF it
  <2> QED
    BY <2>3, <2>4
<1>5. m \in P
  <2> HIDE DEF P
  <2>1. \A k \in 0..m : k \in P
    BY <1>2, <1>3, <1>4, CountUp
  <2> QED
    BY <1>2, <2>1
<1>6. PICK f : \A s \in SUBSET S : SumsAt(f, pt, n, base, list, s)
  BY <1>2, <1>5
<1> DEFINE it == [s \in SUBSET S |-> f[s]]
           u == [s \in SUBSET S |-> IF s = {} THEN base ELSE add(pt, n, it[s \ {Max(s)}], list[Max(s)])]
<1>7. ASSUME NEW s \in SUBSET S PROVE it[s] = u[s]
  <2>1. it[s] = f[s] /\ it[s \ {Max(s)}] = f[s \ {Max(s)}]
    OBVIOUS
  <2>2. u[s] = IF s = {} THEN base ELSE add(pt, n, it[s \ {Max(s)}], list[Max(s)])
    OBVIOUS
  <2> HIDE DEF it, u
  <2> QED
    BY <1>6, <2>1, <2>2 DEF SumsAt
<1>8. it = u
  BY <1>7
<1> HIDE DEF it
<1>9. Sums(it, pt, n, base, list, w)
  BY <1>8, Zenon DEF S, Sums
<1> QED
  BY <1>9

(* The elements of one table as one.                                       *)
LEMMA CombinedRight ==
    ASSUME NEW dims, NEW vs, NEW els, ElementsOK(els, dims, vs), NEW n, NEW id
    PROVE  ElementOK(Combined(n, id, els), dims, vs)
<1>1. PICK k \in Nat \ {0} : /\ DOMAIN els = 1..k /\ els = [e \in 1..k |-> els[e]]
                            /\ \A e \in 1..k : ElementOK(els[e], dims, vs)
  BY DEF ElementsOK
<1> DEFINE base == Head(els)
           list == Tail(els)
           w == k - 1
           pt == Tables[id]
           c == SumIter(pt, n, base, list)
<1>2. /\ w \in Nat /\ DOMAIN list = 1..w /\ ElementOK(base, dims, vs)
      /\ \A e \in 1..w : ElementOK(list[e], dims, vs)
  <2> DEFINE E == {els[e] : e \in 1..k}
  <2>1. els \in Seq(E) /\ Len(els) = k /\ els # <<>>
    <3>1. els \in [1..k -> E]
      BY <1>1
    <3> HIDE DEF E
    <3>2. els \in Seq(E) /\ Len(els) = k
      BY <1>1, <3>1
    <3> QED
      BY <1>1, <3>2
  <2>2. \A x \in E : ElementOK(x, dims, vs)
    BY <1>1
  <2> HIDE DEF E
  <2>3. Head(els) \in E /\ Tail(els) \in Seq(E) /\ Len(Tail(els)) = k - 1
    BY <2>1
  <2>4. DOMAIN list = 1..w /\ \A e \in 1..w : list[e] \in E
    BY <2>3
  <2> QED
    BY <1>1, <2>2, <2>3, <2>4
<1> HIDE DEF base, list, w, pt, c
<1>3. Combined(n, id, els) = c[1..w]
  BY <1>2, CombinedParts, Zenon DEF base, list, pt, c
<1>4. c = [s \in SUBSET (1..w) |-> IF s = {} THEN base ELSE add(pt, n, c[s \ {Max(s)}], list[Max(s)])]
  <2>1. PICK it : Sums(it, pt, n, base, list, w)
    BY <1>2, SumsExist
  <2>2. it = [s \in SUBSET (1..w) |-> IF s = {} THEN base ELSE add(pt, n, it[s \ {Max(s)}], list[Max(s)])]
    BY <2>1, Zenon DEF Sums
  <2> QED
    BY <1>2, <2>2, Zenon DEF SumIter, c
<1>5. \A s \in SUBSET (1..w) : c[s] = IF s = {} THEN base ELSE add(pt, n, c[s \ {Max(s)}], list[Max(s)])
  BY <1>4, Zenon
<1> DEFINE P == {s \in SUBSET (1..w) : ElementOK(c[s], dims, vs)}
<1>6. {} \in P
  BY <1>2, <1>5
<1>7. ASSUME NEW s \in SUBSET (1..w), s # {} PROVE \E x \in s : s \ {x} \in P => s \in P
  <2>1. Max(s) \in s
    <3>1. IsFiniteSet(1..w) /\ s \in SUBSET Nat
      BY <1>2, FS_Interval
    <3> QED
      BY <1>7, <3>1, FS_Subset, MaxOfFinite
  <2>2. ASSUME s \ {Max(s)} \in P PROVE s \in P
    <3>1. ElementOK(c[s \ {Max(s)}], dims, vs) /\ ElementOK(list[Max(s)], dims, vs)
      BY <1>2, <2>1, <2>2
    <3>2. c[s] = add(pt, n, c[s \ {Max(s)}], list[Max(s)])
      BY <1>5, <1>7
    <3> QED
      BY <3>1, <3>2, AddRight
  <2> HIDE DEF P
  <2> QED
    BY <2>1, <2>2
<1>8. 1..w \in P
  <2>1. IsFiniteSet(1..w)
    BY <1>2, FS_Interval
  <2> HIDE DEF P
  <2>2. \A s \in SUBSET (1..w) : s \in P
    BY <1>6, <1>7, <2>1, GrowingSubsets
  <2> QED
    BY <2>2
<1> QED
  BY <1>3, <1>8
-----------------------------------------------------------------------------
(* Labelled tensors *)

(* lab are the labels of a tensor with dims blocks along its n indexes.    *)
LabelsOK(lab, n, dims) ==
    /\ n \in Nat /\ dims \in [0..(n - 1) -> Nat]
    /\ DOMAIN lab = DOMAIN Tables /\ DOMAIN Tables # {}
    /\ \A id \in DOMAIN Tables : DOMAIN lab[id] = 0..(n - 1)
                                 /\ \A i \in 0..(n - 1) : lab[id][i] \in Vector(dims[i])
(* Its elements have them, and it has no other labels.                     *)
TensorOK(sym, lab, n, dims) ==
    /\ LabelsOK(lab, n, dims)
    /\ DOMAIN sym \in SUBSET DOMAIN Tables
    /\ \A id \in DOMAIN sym : ElementsOK(sym[id], dims, lab[id])
    /\ \A id \in DOMAIN Tables \ DOMAIN sym : \A i \in 0..(n - 1) : lab[id][i] = Blank(dims[i])

(* There are as many indexes as the order says.                            *)
LEMMA IntervalSize ==
    ASSUME NEW n \in Nat
    PROVE  IsFiniteSet(0..(n - 1)) /\ Cardinality(0..(n - 1)) = n
<1>1. 0 \in Int /\ n - 1 \in Int /\ (IF 0 > n - 1 THEN 0 ELSE (n - 1) - 0 + 1) = n
  OBVIOUS
<1> QED
  BY <1>1, FS_Interval

(* The labels tell the order of the tensor and the sizes of its indexes.   *)
LEMMA SizeOfLabels ==
    ASSUME NEW lab, NEW n, NEW dims, LabelsOK(lab, n, dims)
    PROVE  DimsOf(lab) = dims /\ OrderOf(lab) = n
<1> DEFINE id == CHOOSE id \in DOMAIN lab : TRUE
<1>1. id \in DOMAIN Tables
  BY DEF LabelsOK
<1>2. DimsOf(lab) = [i \in DOMAIN lab[id] |-> Cardinality(DOMAIN lab[id][i])]
  BY DEF DimsOf
<1> HIDE DEF id
<1>3. ASSUME NEW i \in 0..(n - 1) PROVE Cardinality(DOMAIN lab[id][i]) = dims[i]
  <2>1. dims[i] \in Nat /\ DOMAIN lab[id][i] = 0..(dims[i] - 1)
    BY <1>1 DEF LabelsOK, Vector
  <2> QED
    BY <2>1, IntervalSize
<1>4. DimsOf(lab) = dims
  <2>1. DOMAIN lab[id] = 0..(n - 1) /\ dims = [i \in 0..(n - 1) |-> dims[i]]
    BY <1>1 DEF LabelsOK
  <2> QED
    BY <1>2, <1>3, <2>1
<1>5. DOMAIN dims = 0..(n - 1) /\ n \in Nat
  BY DEF LabelsOK
<1> QED
  BY <1>4, <1>5, IntervalSize DEF OrderOf

(* A table with one element.                                               *)
LEMMA OneElement ==
    ASSUME NEW el, NEW dims, NEW vs, ElementOK(el, dims, vs)
    PROVE  ElementsOK(<<el>>, dims, vs)
<1> DEFINE els == <<el>>
<1>1. DOMAIN els = 1..1 /\ \A e \in 1..1 : els[e] = el
  OBVIOUS
<1>2. els = [e \in 1..1 |-> els[e]]
  OBVIOUS
<1> HIDE DEF els
<1>3. ElementsOK(els, dims, vs)
  BY <1>1, <1>2 DEF ElementsOK
<1> QED
  BY <1>3 DEF els

(* A function of each element.                                             *)
LEMMA EachElement ==
    ASSUME NEW els, NEW dims, NEW vs, ElementsOK(els, dims, vs), NEW dims1, NEW vs1,
           NEW els1, DOMAIN els1 = DOMAIN els, els1 = [e \in DOMAIN els |-> els1[e]],
           \A e \in DOMAIN els : ElementOK(els[e], dims, vs) => ElementOK(els1[e], dims1, vs1)
    PROVE  ElementsOK(els1, dims1, vs1)
BY DEF ElementsOK

-----------------------------------------------------------------------------
(* Permutations *)

(* A labeling whose types are permuted gives index i the labels that index *)
(* p[i] had.                                                               *)
LEMMA PermutedLabeling ==
    ASSUME NEW n \in Nat, NEW dims \in [0..(n - 1) -> Nat], NEW bl \in Labelings(dims),
           NEW p \in [0..(n - 1) -> 0..(n - 1)]
    PROVE  LET r == [bl EXCEPT !.type = Apply(p, bl.type)]
           IN  r \in Labelings(Apply(p, dims)) /\ \A i \in 0..(n - 1) : Of(r, i) = Of(bl, p[i])
<1> DEFINE N == 0..(n - 1)
           r == [bl EXCEPT !.type = Apply(p, bl.type)]
           type == [i \in N |-> bl.type[p[i]]]
           pdims == [i \in N |-> dims[p[i]]]
<1>1. PICK m \in Nat : bl.labels \in [0..(m - 1) -> Vectors1]
  BY DEF Labelings
<1>2. /\ bl = [type |-> bl.type, labels |-> bl.labels] /\ bl.type \in [N -> Nat]
      /\ \A i \in N : bl.type[i] \in 0..(m - 1) /\ bl.labels[bl.type[i]] \in Vector(dims[i])
  BY <1>1 DEF Labelings, Of
<1>3. Apply(p, bl.type) = type /\ Apply(p, dims) = pdims
  BY <1>2 DEF Apply
<1>4. r = [type |-> type, labels |-> bl.labels]
  <2>1. bl = [type |-> bl.type, labels |-> bl.labels]
    BY <1>2
  <2>2. r = [bl EXCEPT !.type = type]
    BY <1>3
  <2> HIDE DEF type, r
  <2> QED
    BY <2>1, <2>2
<1>5. type \in [N -> Nat] /\ pdims \in [N -> Nat]
  BY <1>2
<1>6. \A i \in N : p[i] \in N /\ type[i] = bl.type[p[i]] /\ pdims[i] = dims[p[i]]
  OBVIOUS
<1> HIDE DEF type, pdims, r
<1>7. r \in Labelings(pdims)
  <2>1. \A i \in N : type[i] \in 0..(m - 1) /\ bl.labels[type[i]] \in Vector(pdims[i])
    BY <1>2, <1>6
  <2> QED
    BY <1>1, <1>4, <1>5, <2>1, MakeLabeling
<1>8. \A i \in N : Of(r, i) = Of(bl, p[i])
  BY <1>4, <1>6 DEF Of
<1> QED
  BY <1>3, <1>7, <1>8 DEF r

(* A permuted element has the permuted labels.                             *)
LEMMA PermutedElementRight ==
    ASSUME NEW n \in Nat, NEW dims \in [0..(n - 1) -> Nat], NEW vs, DOMAIN vs = 0..(n - 1),
           NEW el, ElementOK(el, dims, vs), NEW p \in [0..(n - 1) -> 0..(n - 1)]
    PROVE  ElementOK(PermutedElement(el, p), Apply(p, dims), Apply(p, vs))
<1> DEFINE bl == [el.bl EXCEPT !.type = Apply(p, el.bl.type)]
           rule == PermutedElement(el, p).rule
<1>1. RuleOK(rule)
  BY PermutedRight DEF ElementOK
<1>2. PermutedElement(el, p) = [bl |-> bl, rule |-> rule]
  BY DEF PermutedElement
<1>3. bl \in Labelings(Apply(p, dims)) /\ \A i \in 0..(n - 1) : Of(bl, i) = Of(el.bl, p[i])
  BY PermutedLabeling DEF ElementOK
<1>4. DOMAIN Apply(p, dims) = 0..(n - 1) /\ \A i \in 0..(n - 1) : Apply(p, vs)[i] = vs[p[i]] /\ p[i] \in DOMAIN dims
  BY DEF Apply
<1> HIDE DEF bl, rule
<1> QED
  BY <1>1, <1>2, <1>3, <1>4, MakeElement DEF ElementOK

(* The labels go with the indexes.                                         *)
PermutedLabels(lab, p) == [id \in DOMAIN lab |-> Apply(p, lab[id])]

(* Permuted labels are labels.                                             *)
LEMMA PermutedLabelsOK ==
    ASSUME NEW lab, NEW n, NEW dims, LabelsOK(lab, n, dims), NEW p \in [0..(n - 1) -> 0..(n - 1)]
    PROVE  LabelsOK(PermutedLabels(lab, p), n, Apply(p, dims))
<1> DEFINE N == 0..(n - 1)
<1>1. Apply(p, dims) \in [N -> Nat] /\ \A i \in N : Apply(p, dims)[i] = dims[p[i]] /\ p[i] \in N
  BY DEF LabelsOK, Apply
<1>2. ASSUME NEW id \in DOMAIN Tables
      PROVE  /\ DOMAIN PermutedLabels(lab, p)[id] = N
             /\ \A i \in N : PermutedLabels(lab, p)[id][i] = lab[id][p[i]]
  <2>1. PermutedLabels(lab, p)[id] = Apply(p, lab[id]) /\ DOMAIN lab[id] = N
    BY DEF PermutedLabels, LabelsOK
  <2> QED
    BY <2>1 DEF Apply
<1>3. DOMAIN PermutedLabels(lab, p) = DOMAIN lab
  BY DEF PermutedLabels
<1> QED
  BY <1>1, <1>2, <1>3 DEF LabelsOK

(* A symmetry whose elements all become elements of permuted indexes.      *)
LEMMA PermutedTensor ==
    ASSUME NEW sym, NEW lab, NEW n, NEW dims, TensorOK(sym, lab, n, dims),
           NEW p \in [0..(n - 1) -> 0..(n - 1)], NEW sym1, DOMAIN sym1 = DOMAIN sym,
           \A id \in DOMAIN sym : ElementsOK(sym1[id], Apply(p, dims), Apply(p, lab[id]))
    PROVE  TensorOK(sym1, PermutedLabels(lab, p), n, Apply(p, dims))
<1> DEFINE N == 0..(n - 1)
           plab == PermutedLabels(lab, p)
<1>1. LabelsOK(plab, n, Apply(p, dims))
  BY PermutedLabelsOK DEF TensorOK
<1>2. DOMAIN sym \in SUBSET DOMAIN Tables /\ DOMAIN lab = DOMAIN Tables
  BY DEF TensorOK, LabelsOK
<1>3. \A id \in DOMAIN Tables : plab[id] = Apply(p, lab[id])
  BY <1>2 DEF PermutedLabels
<1>4. ASSUME NEW id \in DOMAIN Tables \ DOMAIN sym, NEW i \in N
      PROVE  plab[id][i] = Blank(Apply(p, dims)[i])
  <2>1. DOMAIN lab[id] = N /\ DOMAIN dims = N /\ p[i] \in N
    BY DEF TensorOK, LabelsOK
  <2>2. Apply(p, lab[id])[i] = lab[id][p[i]] /\ Apply(p, dims)[i] = dims[p[i]]
    BY <2>1 DEF Apply
  <2>3. lab[id][p[i]] = Blank(dims[p[i]])
    BY <2>1 DEF TensorOK
  <2> QED
    BY <1>3, <2>2, <2>3
<1> HIDE DEF plab
<1>5. TensorOK(sym1, plab, n, Apply(p, dims))
  BY <1>1, <1>2, <1>3, <1>4 DEF TensorOK
<1> QED
  BY <1>5 DEF plab

(* so_permute: every index takes its labels along.                         *)
LEMMA PermuteRight ==
    ASSUME NEW sym, NEW lab, NEW n, NEW dims, TensorOK(sym, lab, n, dims),
           NEW p \in [0..(n - 1) -> 0..(n - 1)]
    PROVE  TensorOK(so_permute(sym, p), PermutedLabels(lab, p), n, Apply(p, dims))
<1> DEFINE sym1 == so_permute(sym, p)
<1>1. DOMAIN sym1 = DOMAIN sym
  BY DEF so_permute
<1>2. ASSUME NEW id \in DOMAIN sym PROVE ElementsOK(sym1[id], Apply(p, dims), Apply(p, lab[id]))
  <2>1. sym1[id] = [e \in DOMAIN sym[id] |-> PermutedElement(sym[id][e], p)]
    BY DEF so_permute
  <2>2. ElementsOK(sym[id], dims, lab[id]) /\ DOMAIN lab[id] = 0..(n - 1) /\ n \in Nat /\ dims \in [0..(n - 1) -> Nat]
    BY DEF TensorOK, LabelsOK
  <2>3. \A e \in DOMAIN sym[id] : ElementOK(sym[id][e], dims, lab[id])
          => ElementOK(sym1[id][e], Apply(p, dims), Apply(p, lab[id]))
    BY <2>1, <2>2, PermutedElementRight
  <2>4. DOMAIN sym1[id] = DOMAIN sym[id] /\ sym1[id] = [e \in DOMAIN sym[id] |-> sym1[id][e]]
    BY <2>1
  <2> HIDE DEF sym1
  <2> QED
    BY <2>2, <2>3, <2>4, EachElement
<1> HIDE DEF sym1
<1>3. TensorOK(sym1, PermutedLabels(lab, p), n, Apply(p, dims))
  BY <1>1, <1>2, PermutedTensor
<1> QED
  BY <1>3 DEF sym1

(* so_apply: so does it, whether or not zeros stay zeros.                  *)
LEMMA ApplyRight ==
    ASSUME NEW sym, NEW lab, NEW n, NEW dims, TensorOK(sym, lab, n, dims),
           NEW p \in [0..(n - 1) -> 0..(n - 1)], NEW keep_zero
    PROVE  TensorOK(so_apply(sym, p, keep_zero), PermutedLabels(lab, p), n, Apply(p, dims))
<1> DEFINE sym1 == so_apply(sym, p, keep_zero)
           applied(el) == IF keep_zero THEN PermutedElement(el, p)
                          ELSE [PermutedElement(el, p) EXCEPT !.rule = AllAllowed(Cardinality(DOMAIN p))]
<1>0. sym1 = [id \in DOMAIN sym |-> [e \in DOMAIN sym[id] |-> applied(sym[id][e])]]
  BY Zenon DEF so_apply
<1>a. ASSUME NEW el, NEW ds, NEW vs, ElementOK(PermutedElement(el, p), ds, vs)
      PROVE  ElementOK(applied(el), ds, vs)
  <2> DEFINE x == PermutedElement(el, p)
             rule == AllAllowed(Cardinality(DOMAIN p))
  <2>1. x = [bl |-> x.bl, rule |-> x.rule]
    BY <1>a DEF ElementOK
  <2> HIDE DEF x, rule
  <2>2. [x EXCEPT !.rule = rule] = [bl |-> x.bl, rule |-> rule]
    BY <2>1
  <2>3. RuleOK(rule)
    BY AllowedRight DEF rule
  <2>4. ElementOK([x EXCEPT !.rule = rule], ds, vs)
    BY <1>a, <2>2, <2>3, MakeElement DEF ElementOK, x
  <2> QED
    BY <1>a, <2>4 DEF x, rule
<1> HIDE DEF applied, sym1
<1>1. DOMAIN sym1 = DOMAIN sym
  BY <1>0
<1>2. ASSUME NEW id \in DOMAIN sym PROVE ElementsOK(sym1[id], Apply(p, dims), Apply(p, lab[id]))
  <2>1. sym1[id] = [e \in DOMAIN sym[id] |-> applied(sym[id][e])]
    BY <1>0
  <2>2. ElementsOK(sym[id], dims, lab[id]) /\ DOMAIN lab[id] = 0..(n - 1) /\ n \in Nat /\ dims \in [0..(n - 1) -> Nat]
    BY DEF TensorOK, LabelsOK
  <2>3. \A e \in DOMAIN sym[id] : ElementOK(sym[id][e], dims, lab[id])
          => ElementOK(sym1[id][e], Apply(p, dims), Apply(p, lab[id]))
    <3> SUFFICES ASSUME NEW e \in DOMAIN sym[id], ElementOK(sym[id][e], dims, lab[id])
                 PROVE  ElementOK(sym1[id][e], Apply(p, dims), Apply(p, lab[id]))
      OBVIOUS
    <3>1. ElementOK(PermutedElement(sym[id][e], p), Apply(p, dims), Apply(p, lab[id]))
      BY <2>2, PermutedElementRight
    <3>2. ElementOK(applied(sym[id][e]), Apply(p, dims), Apply(p, lab[id]))
      BY <1>a, <3>1
    <3> QED
      BY <2>1, <3>2
  <2>4. DOMAIN sym1[id] = DOMAIN sym[id] /\ sym1[id] = [e \in DOMAIN sym[id] |-> sym1[id][e]]
    BY <2>1
  <2> QED
    BY <2>2, <2>3, <2>4, EachElement
<1>3. TensorOK(sym1, PermutedLabels(lab, p), n, Apply(p, dims))
  BY <1>1, <1>2, PermutedTensor
<1> QED
  BY <1>3 DEF sym1
-----------------------------------------------------------------------------
(* A labeling carried to other indexes *)

Outside(map, j) == \A i \in DOMAIN map : map[i] # j

(* r: the labeling to, where map brings the labels of bl to other indexes. *)
LaidOver(r, to, n, dims, bl, map) ==
    /\ r \in Labelings(dims)
    /\ \A i \in DOMAIN map : Of(r, map[i]) = Of(bl, i)
    /\ \A j \in 0..(n - 1) : Outside(map, j) => r.type[j] = to.type[j] /\ Of(r, j) = Of(to, j)

(* transfer_labeling in these terms.                                       *)
LEMMA TransferOutside ==
    ASSUME NEW n, NEW dims, NEW m, NEW bdims, NEW map, Fits(n, dims, m, bdims, map),
           NEW bl \in Labelings(bdims), NEW to \in Labelings(dims),
           \A i, j \in DOMAIN map : dims[map[i]] = dims[map[j]] => to.type[map[i]] = to.type[map[j]]
    PROVE  LaidOver(transfer_labeling(bl, map, to), to, n, dims, bl, map)
<1> DEFINE r == transfer_labeling(bl, map, to)
<1>1. /\ r \in Labelings(dims)
      /\ \A i \in DOMAIN map : Of(r, map[i]) = Of(bl, i)
      /\ \A j \in 0..(n - 1) : (\A i \in DOMAIN map : map[i] # j) => r.type[j] = to.type[j] /\ Of(r, j) = Of(to, j)
  BY TransferRight
<1> HIDE DEF r
<1>2. LaidOver(r, to, n, dims, bl, map)
  BY <1>1 DEF Outside, LaidOver
<1> QED
  BY <1>2 DEF r

(* The same where there were no labels before.                             *)
CarriedTo(r, n, dims, bl, map) ==
    /\ r \in Labelings(dims)
    /\ \A i \in DOMAIN map : Of(r, map[i]) = Of(bl, i)
    /\ \A j \in 0..(n - 1) : Outside(map, j) => Of(r, j) = Blank(dims[j])
    /\ \A j, l \in 0..(n - 1) : Outside(map, j) /\ Outside(map, l) /\ dims[j] = dims[l] => r.type[j] = r.type[l]

(* transfer_labeling to a new labeling.                                    *)
LEMMA CarriedRight ==
    ASSUME NEW n, NEW dims, NEW m, NEW bdims, NEW map, Fits(n, dims, m, bdims, map), NEW bl \in Labelings(bdims)
    PROVE  CarriedTo(transfer_labeling(bl, map, NewLabeling(dims)), n, dims, bl, map)
<1> DEFINE to == NewLabeling(dims)
<1>1. n \in Nat /\ dims \in [0..(n - 1) -> Nat] /\ \A i \in DOMAIN map : map[i] \in 0..(n - 1)
  BY DEF Fits
<1>2. /\ to \in Labelings(dims) /\ \A i \in 0..(n - 1) : Of(to, i) = Blank(dims[i])
      /\ \A i, j \in 0..(n - 1) : dims[i] = dims[j] => to.type[i] = to.type[j]
  BY <1>1, NewRight
<1> HIDE DEF to
<1> DEFINE r == transfer_labeling(bl, map, to)
<1>3. LaidOver(r, to, n, dims, bl, map)
  <2>1. \A i, j \in DOMAIN map : dims[map[i]] = dims[map[j]] => to.type[map[i]] = to.type[map[j]]
    BY <1>1, <1>2
  <2> QED
    BY <1>2, <2>1, TransferOutside
<1> HIDE DEF r
<1>4. CarriedTo(r, n, dims, bl, map)
  BY <1>2, <1>3 DEF CarriedTo, LaidOver
<1> QED
  BY <1>4 DEF r, to

(* get_dim is the number of blocks of the index.                           *)
LEMMA GetDim ==
    ASSUME NEW n \in Nat, NEW dims \in [0..(n - 1) -> Nat], NEW bl \in Labelings(dims), NEW i \in 0..(n - 1)
    PROVE  get_dim(bl, i) = dims[i]
<1>1. Of(bl, i) \in Vector(dims[i]) /\ dims[i] \in Nat
  BY DEF Labelings
<1>2. DOMAIN Of(bl, i) = 0..(dims[i] - 1)
  BY <1>1 DEF Vector
<1> QED
  BY <1>1, <1>2, IntervalSize DEF get_dim, Of

(* Only the indexes of S are left, in their order.                         *)
PlacesOf(S) == [i \in S |-> PlaceOf(S, i)]
DimsAt(bl, S) == [x \in 0..(Cardinality(S) - 1) |-> get_dim(bl, Sorted(S)[x])]

(* The sizes of the indexes that are left fit those they had.              *)
LEMMA OnlyFits ==
    ASSUME NEW n \in Nat, NEW dims \in [0..(n - 1) -> Nat], NEW S \in SUBSET (0..(n - 1))
    PROVE  /\ Cardinality(S) \in Nat
           /\ Fits(Cardinality(S), Only(dims, S), n, dims, PlacesOf(S))
           /\ DOMAIN PlacesOf(S) = S
           /\ \A x \in 0..(Cardinality(S) - 1) : Sorted(S)[x] \in S /\ PlacesOf(S)[Sorted(S)[x]] = x
<1> DEFINE k == Cardinality(S)
           map == PlacesOf(S)
<1>1. IsFiniteSet(S) /\ S \in SUBSET Nat
  <2>1. IsFiniteSet(0..(n - 1))
    BY IntervalSize
  <2>2. IsFiniteSet(S)
    BY <2>1, FS_Subset
  <2> QED
    BY <2>2
<1>2. /\ k \in Nat /\ Sorted(S) \in [0..(k - 1) -> S]
      /\ \A j \in 0..(k - 1) : PlaceOf(S, Sorted(S)[j]) = j
      /\ \A x \in S : PlaceOf(S, x) \in 0..(k - 1) /\ Sorted(S)[PlaceOf(S, x)] = x
  BY <1>1, SortedSet
<1>3. DOMAIN map = S /\ \A x \in S : map[x] = PlaceOf(S, x)
  BY DEF PlacesOf
<1>4. map = [x \in S |-> map[x]]
  BY DEF PlacesOf
<1>5. Only(dims, S) = [x \in 0..(k - 1) |-> dims[Sorted(S)[x]]]
  BY DEF Only
<1> HIDE DEF k, map
<1>6. Only(dims, S) \in [0..(k - 1) -> Nat] /\ \A x \in S : Only(dims, S)[map[x]] = dims[x]
  <2>1. \A x \in 0..(k - 1) : Sorted(S)[x] \in 0..(n - 1) /\ dims[Sorted(S)[x]] \in Nat
    BY <1>2
  <2>2. Only(dims, S) \in [0..(k - 1) -> Nat]
    BY <1>5, <2>1
  <2>3. \A x \in S : map[x] \in 0..(k - 1) /\ Sorted(S)[map[x]] = x
    BY <1>2, <1>3
  <2> QED
    BY <1>5, <2>2, <2>3
<1>7. map \in [S -> 0..(k - 1)] /\ \A x, y \in S : map[x] = map[y] => x = y
  BY <1>2, <1>3, <1>4
<1>8. Fits(k, Only(dims, S), n, dims, map)
  BY <1>2, <1>3, <1>6, <1>7 DEF Fits
<1> QED
  BY <1>2, <1>3, <1>8 DEF k, map

(* An element of the indexes that are left has their labels.               *)
LEMMA OnlyElement ==
    ASSUME NEW n \in Nat, NEW dims \in [0..(n - 1) -> Nat], NEW vs, NEW el, ElementOK(el, dims, vs),
           NEW S \in SUBSET (0..(n - 1)), NEW rule, RuleOK(rule)
    PROVE  ElementOK([bl |-> transfer_labeling(el.bl, PlacesOf(S), NewLabeling(DimsAt(el.bl, S))), rule |-> rule],
                     Only(dims, S), Only(vs, S))
<1> DEFINE k == Cardinality(S)
           bl == transfer_labeling(el.bl, PlacesOf(S), NewLabeling(DimsAt(el.bl, S)))
<1>1. /\ k \in Nat /\ Fits(k, Only(dims, S), n, dims, PlacesOf(S)) /\ DOMAIN PlacesOf(S) = S
      /\ \A x \in 0..(k - 1) : Sorted(S)[x] \in S /\ PlacesOf(S)[Sorted(S)[x]] = x
  BY OnlyFits
<1>2. el.bl \in Labelings(dims) /\ \A i \in 0..(n - 1) : Of(el.bl, i) = vs[i]
  BY DEF ElementOK
<1>3. DimsAt(el.bl, S) = Only(dims, S)
  <2>1. \A x \in 0..(k - 1) : get_dim(el.bl, Sorted(S)[x]) = dims[Sorted(S)[x]]
    BY <1>1, <1>2, GetDim
  <2> QED
    BY <2>1 DEF DimsAt, Only
<1>4. bl \in Labelings(Only(dims, S)) /\ \A i \in S : Of(bl, PlacesOf(S)[i]) = Of(el.bl, i)
  <2>1. CarriedTo(bl, k, Only(dims, S), el.bl, PlacesOf(S))
    BY <1>1, <1>2, <1>3, CarriedRight
  <2> HIDE DEF bl, k
  <2> QED
    BY <1>1, <2>1 DEF CarriedTo
<1>5. /\ DOMAIN Only(dims, S) = 0..(k - 1)
      /\ \A x \in 0..(k - 1) : Only(vs, S)[x] = vs[Sorted(S)[x]]
  BY DEF Only
<1> HIDE DEF bl, k
<1>6. \A x \in 0..(k - 1) : Of(bl, x) = Only(vs, S)[x]
  <2> SUFFICES ASSUME NEW x \in 0..(k - 1) PROVE Of(bl, x) = Only(vs, S)[x]
    OBVIOUS
  <2>1. Sorted(S)[x] \in S /\ PlacesOf(S)[Sorted(S)[x]] = x
    BY <1>1
  <2>2. Of(bl, x) = Of(el.bl, Sorted(S)[x])
    BY <1>4, <2>1
  <2> QED
    BY <1>2, <1>5, <2>1, <2>2
<1>7. ElementOK([bl |-> bl, rule |-> rule], Only(dims, S), Only(vs, S))
  BY <1>4, <1>5, <1>6, MakeElement
<1> QED
  BY <1>7 DEF bl

OnlyLabels(lab, S) == [id \in DOMAIN lab |-> Only(lab[id], S)]

(* A tensor of the indexes that are left has their labels.                 *)
LEMMA OnlyTensor ==
    ASSUME NEW sym, NEW lab, NEW n, NEW dims, TensorOK(sym, lab, n, dims), NEW S \in SUBSET (0..(n - 1)),
           NEW sym1, DOMAIN sym1 = DOMAIN sym,
           \A id \in DOMAIN sym : ElementsOK(sym1[id], Only(dims, S), Only(lab[id], S))
    PROVE  TensorOK(sym1, OnlyLabels(lab, S), Cardinality(S), Only(dims, S))
<1> DEFINE k == Cardinality(S)
           slab == OnlyLabels(lab, S)
           N == 0..(n - 1)
<1>1. n \in Nat /\ dims \in [N -> Nat] /\ DOMAIN lab = DOMAIN Tables /\ DOMAIN Tables # {}
  BY DEF TensorOK, LabelsOK
<1>2. /\ k \in Nat /\ Only(dims, S) \in [0..(k - 1) -> Nat]
      /\ \A x \in 0..(k - 1) : Sorted(S)[x] \in S
  BY <1>1, OnlyFits DEF Fits
<1>3. /\ \A id \in DOMAIN Tables : slab[id] = Only(lab[id], S) /\ DOMAIN slab[id] = 0..(k - 1)
      /\ DOMAIN slab = DOMAIN Tables
  BY <1>1 DEF OnlyLabels, Only
<1>4. ASSUME NEW x \in 0..(k - 1)
      PROVE  /\ Sorted(S)[x] \in N /\ Only(dims, S)[x] = dims[Sorted(S)[x]]
             /\ \A id \in DOMAIN Tables : slab[id][x] = lab[id][Sorted(S)[x]]
  <2>1. Sorted(S)[x] \in N
    BY <1>2
  <2>2. \A f : Only(f, S)[x] = f[Sorted(S)[x]]
    BY DEF Only
  <2> HIDE DEF slab, k
  <2> QED
    BY <1>3, <2>1, <2>2
<1> HIDE DEF slab, k
<1>5. LabelsOK(slab, k, Only(dims, S))
  <2>1. \A id \in DOMAIN Tables : \A x \in 0..(k - 1) : slab[id][x] \in Vector(Only(dims, S)[x])
    BY <1>4 DEF TensorOK, LabelsOK
  <2> QED
    BY <1>1, <1>2, <1>3, <2>1 DEF LabelsOK
<1>6. \A id \in DOMAIN Tables \ DOMAIN sym : \A x \in 0..(k - 1) : slab[id][x] = Blank(Only(dims, S)[x])
  BY <1>4 DEF TensorOK
<1>7. DOMAIN sym \in SUBSET DOMAIN Tables
  BY DEF TensorOK
<1>8. TensorOK(sym1, slab, k, Only(dims, S))
  BY <1>3, <1>5, <1>6, <1>7 DEF TensorOK
<1> QED
  BY <1>8 DEF slab, k

(* so_merge keeps the labels of the leading indexes.                       *)
MergedElement(id, el, mseq) ==
    [bl   |-> transfer_labeling(el.bl, PlacesOf(Leaders(mseq)), NewLabeling(DimsAt(el.bl, Leaders(mseq)))),
     rule |-> Opt(Cardinality(Leaders(mseq)), id,
                  er_merge(el.rule, Cardinality(Leaders(mseq)),
                           [i \in DOMAIN mseq |-> PlaceOf(Leaders(mseq), Leader(mseq, i))],
                           [x \in 0..(Cardinality(Leaders(mseq)) - 1) |->
                               mseq[Sorted(Leaders(mseq))[x]] # 0 /\ CanSimplify(el.bl, Sorted(Leaders(mseq))[x])]))]

(* so_merge, in parts.                                                     *)
LEMMA MergedParts ==
    ASSUME NEW sym, NEW mseq
    PROVE  so_merge(sym, mseq) =
               [id \in DOMAIN sym |-> <<MergedElement(id, Combined(Cardinality(DOMAIN mseq), id, sym[id]), mseq)>>]
BY Zenon DEF so_merge, OfEach, MergedElement, PlacesOf, DimsAt

(* so_merge: the leading indexes keep their labels.                        *)
LEMMA MergeRight ==
    ASSUME NEW sym, NEW lab, NEW n, NEW dims, TensorOK(sym, lab, n, dims), NEW mseq, DOMAIN mseq = 0..(n - 1)
    PROVE  LET S == Leaders(mseq)
           IN  TensorOK(so_merge(sym, mseq), OnlyLabels(lab, S), Cardinality(S), Only(dims, S))
<1> DEFINE S == Leaders(mseq)
           sym1 == so_merge(sym, mseq)
<1>1. S \in SUBSET (0..(n - 1))
  BY DEF Leaders
<1>2. /\ DOMAIN sym1 = DOMAIN sym
      /\ \A id \in DOMAIN sym :
             sym1[id] = <<MergedElement(id, Combined(Cardinality(DOMAIN mseq), id, sym[id]), mseq)>>
  <2> DEFINE f == [id \in DOMAIN sym |-> <<MergedElement(id, Combined(Cardinality(DOMAIN mseq), id, sym[id]), mseq)>>]
  <2>1. sym1 = f
    BY MergedParts
  <2> QED
    BY <2>1
<1> HIDE DEF sym1
<1>3. ASSUME NEW id \in DOMAIN sym PROVE ElementsOK(sym1[id], Only(dims, S), Only(lab[id], S))
  <2> DEFINE el == Combined(Cardinality(DOMAIN mseq), id, sym[id])
  <2>1. n \in Nat /\ dims \in [0..(n - 1) -> Nat] /\ ElementOK(el, dims, lab[id])
    BY CombinedRight DEF TensorOK, LabelsOK
  <2> HIDE DEF el
  <2>2. Finite(el.rule)
    BY <2>1, FiniteRule DEF ElementOK
  <2>3. ElementOK(MergedElement(id, el, mseq), Only(dims, S), Only(lab[id], S))
    <3>1. RuleOK(MergedElement(id, el, mseq).rule)
      BY <2>2, MergeRuleRight, FiniteRule, OptimizeRight DEF MergedElement, Opt
    <3>2. MergedElement(id, el, mseq) =
              [bl |-> transfer_labeling(el.bl, PlacesOf(S), NewLabeling(DimsAt(el.bl, S))),
               rule |-> MergedElement(id, el, mseq).rule]
      BY DEF MergedElement
    <3> HIDE DEF S
    <3> QED
      BY <1>1, <2>1, <3>1, <3>2, OnlyElement
  <2> HIDE DEF S
  <2> QED
    BY <1>2, <2>3, OneElement DEF el
<1> HIDE DEF S
<1>4. TensorOK(sym1, OnlyLabels(lab, S), Cardinality(S), Only(dims, S))
  BY <1>1, <1>2, <1>3, OnlyTensor
<1> QED
  BY <1>4 DEF S, sym1

(* so_reduce keeps those of the indexes that are not summed over.          *)
KeptIndexes(rseq) == {i \in DOMAIN rseq : rseq[i] = 0}
ReducedIndexes(rseq) ==
    [i \in DOMAIN rseq |-> IF i \in KeptIndexes(rseq) THEN PlacesOf(KeptIndexes(rseq))[i]
                           ELSE Cardinality(KeptIndexes(rseq)) + rseq[i] - 1]
StepDims(id, el, rseq, range) ==
    [x \in 0..(Max(Range(rseq)) - 1) |-> StepLabels(el.bl, id, {i \in DOMAIN rseq : rseq[i] = x + 1}, range[x])]
ReducedElement(id, el, rseq, range) ==
    [bl   |-> transfer_labeling(el.bl, PlacesOf(KeptIndexes(rseq)), NewLabeling(DimsAt(el.bl, KeptIndexes(rseq)))),
     rule |-> Opt(Cardinality(KeptIndexes(rseq)), id,
                  er_reduce(Tables[id], el.rule, Cardinality(KeptIndexes(rseq)), ReducedIndexes(rseq),
                            StepDims(id, el, rseq, range)))]

(* so_reduce, in parts.                                                    *)
LEMMA ReducedParts ==
    ASSUME NEW sym, NEW rseq, NEW range
    PROVE  so_reduce(sym, rseq, range) =
               [id \in DOMAIN sym |->
                   <<ReducedElement(id, Combined(Cardinality(DOMAIN rseq), id, sym[id]), rseq, range)>>]
BY Zenon DEF so_reduce, OfEach, ReducedElement, ReducedIndexes, StepDims, KeptIndexes, PlacesOf, DimsAt

(* so_reduce: the indexes that are left keep their labels.                 *)
LEMMA ReduceRight ==
    ASSUME NEW sym, NEW lab, NEW n, NEW dims, TensorOK(sym, lab, n, dims), NEW rseq, DOMAIN rseq = 0..(n - 1), NEW range
    PROVE  LET S == KeptIndexes(rseq)
           IN  TensorOK(so_reduce(sym, rseq, range), OnlyLabels(lab, S), Cardinality(S), Only(dims, S))
<1> DEFINE S == KeptIndexes(rseq)
           sym1 == so_reduce(sym, rseq, range)
<1>1. S \in SUBSET (0..(n - 1))
  BY DEF KeptIndexes
<1>2. /\ DOMAIN sym1 = DOMAIN sym
      /\ \A id \in DOMAIN sym :
             sym1[id] = <<ReducedElement(id, Combined(Cardinality(DOMAIN rseq), id, sym[id]), rseq, range)>>
  <2> DEFINE f == [id \in DOMAIN sym |->
                      <<ReducedElement(id, Combined(Cardinality(DOMAIN rseq), id, sym[id]), rseq, range)>>]
  <2>1. sym1 = f
    BY ReducedParts
  <2> QED
    BY <2>1
<1> HIDE DEF sym1
<1>3. ASSUME NEW id \in DOMAIN sym PROVE ElementsOK(sym1[id], Only(dims, S), Only(lab[id], S))
  <2> DEFINE el == Combined(Cardinality(DOMAIN rseq), id, sym[id])
  <2>1. n \in Nat /\ dims \in [0..(n - 1) -> Nat] /\ ElementOK(el, dims, lab[id])
    BY CombinedRight DEF TensorOK, LabelsOK
  <2> HIDE DEF el
  <2>2. Finite(el.rule)
    BY <2>1, FiniteRule DEF ElementOK
  <2>3. ElementOK(ReducedElement(id, el, rseq, range), Only(dims, S), Only(lab[id], S))
    <3>1. RuleOK(ReducedElement(id, el, rseq, range).rule)
      BY <2>2, ReduceRuleRight, FiniteRule, OptimizeRight DEF ReducedElement, Opt
    <3>2. ReducedElement(id, el, rseq, range) =
              [bl |-> transfer_labeling(el.bl, PlacesOf(S), NewLabeling(DimsAt(el.bl, S))),
               rule |-> ReducedElement(id, el, rseq, range).rule]
      BY DEF ReducedElement
    <3> HIDE DEF S
    <3> QED
      BY <1>1, <2>1, <3>1, <3>2, OnlyElement
  <2> HIDE DEF S
  <2> QED
    BY <1>2, <2>3, OneElement DEF el
<1> HIDE DEF S
<1>4. TensorOK(sym1, OnlyLabels(lab, S), Cardinality(S), Only(dims, S))
  BY <1>1, <1>2, <1>3, OnlyTensor
<1> QED
  BY <1>4 DEF S, sym1

(* so_symmetrize keeps all labels.                                         *)
SymmetrizedRule(rule, perms) == {Joined({}, {<<Apply(p, term[1]), term[2]>> : term \in q}) : p \in perms, q \in rule}
SymmetrizedElement(id, el, n, perms) ==
    [bl   |-> transfer_labeling(el.bl, Identity(n), NewLabeling([i \in 0..(n - 1) |-> get_dim(el.bl, i)])),
     rule |-> Opt(n, id, SymmetrizedRule(el.rule, perms))]

(* so_symmetrize, in parts.                                                *)
LEMMA SymmetrizedParts ==
    ASSUME NEW sym, NEW idxgrp, NEW symidx
    PROVE  so_symmetrize(sym, idxgrp, symidx) =
               [id \in DOMAIN sym |-> [e \in DOMAIN sym[id] |->
                   SymmetrizedElement(id, sym[id][e], Cardinality(DOMAIN idxgrp), GroupPermutations(idxgrp, symidx))]]
BY DEF so_symmetrize, SymmetrizedElement, SymmetrizedRule

(* No product of the symmetrized rule is empty.                            *)
LEMMA SymmetrizedFinite ==
    ASSUME NEW rule, RuleOK(rule), NEW perms
    PROVE  Finite(SymmetrizedRule(rule, perms))
<1> DEFINE J(p, q) == Joined({}, {<<Apply(p, term[1]), term[2]>> : term \in q})
<1>a. SymmetrizedRule(rule, perms) = {J(p, q) : p \in perms, q \in rule}
  BY DEF SymmetrizedRule
<1> HIDE DEF J
<1> SUFFICES ASSUME NEW p \in perms, NEW q \in rule
             PROVE  IsFiniteSet(J(p, q))
  BY <1>a DEF Finite
<1> USE DEF J
<1> DEFINE f == [term \in q |-> <<Apply(p, term[1]), term[2]>>]
<1>1. {<<Apply(p, term[1]), term[2]>> : term \in q} = Image(f, q)
  BY DEF Image
<1>2. IsFiniteSet(q)
  BY DEF RuleOK
<1> HIDE DEF f
<1> QED
  BY <1>1, <1>2, ProductOfTerms

(* The symmetrized element has the labels of the element.                  *)
LEMMA SymmetrizedElementRight ==
    ASSUME NEW n \in Nat, NEW dims \in [0..(n - 1) -> Nat], NEW vs, NEW el, ElementOK(el, dims, vs), NEW id, NEW perms
    PROVE  ElementOK(SymmetrizedElement(id, el, n, perms), dims, vs)
<1> DEFINE N == 0..(n - 1)
           bl == transfer_labeling(el.bl, Identity(n), NewLabeling([i \in N |-> get_dim(el.bl, i)]))
<1>1. el.bl \in Labelings(dims) /\ (\A i \in N : Of(el.bl, i) = vs[i]) /\ RuleOK(el.rule)
  BY DEF ElementOK
<1>2. [i \in N |-> get_dim(el.bl, i)] = dims
  <2>1. \A i \in N : get_dim(el.bl, i) = dims[i]
    BY <1>1, GetDim
  <2> QED
    BY <2>1
<1>3. Fits(n, dims, n, dims, Identity(n)) /\ DOMAIN Identity(n) = N /\ \A i \in N : Identity(n)[i] = i
  BY DEF Fits, Identity
<1>4. bl \in Labelings(dims) /\ \A i \in N : Of(bl, i) = vs[i]
  <2>a. CarriedTo(bl, n, dims, el.bl, Identity(n))
    BY <1>1, <1>2, <1>3, CarriedRight
  <2> HIDE DEF bl
  <2>1. bl \in Labelings(dims) /\ \A i \in N : Of(bl, Identity(n)[i]) = Of(el.bl, i)
    BY <1>3, <2>a DEF CarriedTo
  <2> QED
    BY <1>1, <1>3, <2>1
<1>5. RuleOK(Opt(n, id, SymmetrizedRule(el.rule, perms)))
  BY <1>1, SymmetrizedFinite, OptimizeRight DEF Opt
<1>6. SymmetrizedElement(id, el, n, perms) = [bl |-> bl, rule |-> Opt(n, id, SymmetrizedRule(el.rule, perms))]
  BY DEF SymmetrizedElement
<1> HIDE DEF bl
<1> QED
  BY <1>4, <1>5, <1>6, MakeElement

(* so_symmetrize: all indexes keep their labels.                           *)
LEMMA SymmetrizeRight ==
    ASSUME NEW sym, NEW lab, NEW n, NEW dims, TensorOK(sym, lab, n, dims),
           NEW idxgrp, DOMAIN idxgrp = 0..(n - 1), NEW symidx
    PROVE  TensorOK(so_symmetrize(sym, idxgrp, symidx), lab, n, dims)
<1> DEFINE sym1 == so_symmetrize(sym, idxgrp, symidx)
           perms == GroupPermutations(idxgrp, symidx)
<1>1. n \in Nat /\ dims \in [0..(n - 1) -> Nat] /\ Cardinality(DOMAIN idxgrp) = n
  BY IntervalSize DEF TensorOK, LabelsOK
<1>2. sym1 = [id \in DOMAIN sym |-> [e \in DOMAIN sym[id] |-> SymmetrizedElement(id, sym[id][e], n, perms)]]
  BY <1>1, SymmetrizedParts
<1> HIDE DEF sym1, perms
<1>3. DOMAIN sym1 = DOMAIN sym
  BY <1>2
<1>4. ASSUME NEW id \in DOMAIN sym PROVE ElementsOK(sym1[id], dims, lab[id])
  <2>1. sym1[id] = [e \in DOMAIN sym[id] |-> SymmetrizedElement(id, sym[id][e], n, perms)]
    BY <1>2
  <2>2. ElementsOK(sym[id], dims, lab[id])
    BY DEF TensorOK
  <2>3. \A e \in DOMAIN sym[id] : ElementOK(sym[id][e], dims, lab[id]) => ElementOK(sym1[id][e], dims, lab[id])
    BY <1>1, <2>1, SymmetrizedElementRight
  <2>4. DOMAIN sym1[id] = DOMAIN sym[id] /\ sym1[id] = [e \in DOMAIN sym[id] |-> sym1[id][e]]
    BY <2>1
  <2> QED
    BY <2>2, <2>3, <2>4, EachElement
<1>5. TensorOK(sym1, lab, n, dims)
  BY <1>3, <1>4 DEF TensorOK
<1> QED
  BY <1>5 DEF sym1
-----------------------------------------------------------------------------
(* Products and sums of tensors *)

(* p has an inverse on D.                                                  *)
Reorders(p, D) ==
    /\ p \in [D -> D] /\ \A i, j \in D : p[i] = p[j] => i = j
    /\ \A j \in D : \E i \in D : p[i] = j

(* The inverse of a permutation of some indexes.                           *)
LEMMA InvertRight ==
    ASSUME NEW D, NEW p, Reorders(p, D)
    PROVE  /\ Invert(p) \in [D -> D]
           /\ \A i \in D : p[Invert(p)[i]] = i /\ Invert(p)[p[i]] = i
<1>1. p \in [D -> D] /\ Invert(p) = [i \in D |-> CHOOSE s \in D : i \in Range(p) => p[s] = i]
  BY DEF Reorders, Invert, Inverse
<1>2. ASSUME NEW i \in D PROVE Invert(p)[i] \in D /\ p[Invert(p)[i]] = i
  <2>1. PICK s \in D : p[s] = i
    BY DEF Reorders
  <2>2. i \in Range(p)
    BY <1>1, <2>1 DEF Range
  <2>3. Invert(p)[i] = CHOOSE u \in D : i \in Range(p) => p[u] = i
    BY <1>1
  <2> QED
    BY <2>1, <2>2, <2>3
<1>3. Invert(p) \in [D -> D]
  BY <1>1, <1>2
<1>4. ASSUME NEW i \in D PROVE Invert(p)[p[i]] = i
  <2>1. p[i] \in D /\ Invert(p)[p[i]] \in D /\ p[Invert(p)[p[i]]] = p[i]
    BY <1>1, <1>2
  <2> QED
    BY <2>1 DEF Reorders
<1> QED
  BY <1>2, <1>3, <1>4

(* A cycle is a permutation.                                               *)
LEMMA CycleRight ==
    ASSUME NEW n \in Nat
    PROVE  Reorders(Cycle(n), 0..(n - 1))
<1> DEFINE N == 0..(n - 1)
           p == [i \in N |-> IF i = n - 1 THEN 0 ELSE i + 1]
<1>1. ASSUME NEW i \in N PROVE (i + 1) % n = p[i]
  <2>1. n \in Nat /\ n > 0 /\ i \in Nat /\ i + 1 <= n
    OBVIOUS
  <2>2. CASE i = n - 1
    <3>1. n % n = 0
      BY <2>1
    <3> QED
      BY <2>2, <3>1
  <2>3. CASE i # n - 1
    <3>1. i + 1 \in 0..(n - 1)
      BY <2>1, <2>3
    <3>2. (i + 1) % n = i + 1
      BY <2>1, <3>1
    <3> QED
      BY <2>3, <3>2
  <2> QED
    BY <2>2, <2>3
<1>2. Cycle(n) = p
  BY <1>1 DEF Cycle
<1>3. p \in [N -> N] /\ \A i, j \in N : p[i] = p[j] => i = j
  OBVIOUS
<1>4. ASSUME NEW j \in N PROVE \E i \in N : p[i] = j
  <2>1. CASE j = 0
    <3>1. n - 1 \in N /\ p[n - 1] = 0
      OBVIOUS
    <3> QED
      BY <2>1, <3>1
  <2>2. CASE j # 0
    <3>1. j - 1 \in N /\ p[j - 1] = j
      BY <2>2
    <3> QED
      BY <3>1
  <2> QED
    BY <2>1, <2>2
<1> HIDE DEF p
<1> QED
  BY <1>2, <1>3, <1>4 DEF Reorders

(* u is put beside v, and the indexes permuted.                            *)
Joint(p, u, v, n) == Apply(p, Beside(u, v, n))

IsBeside(r, p, u, v, n, k) == r = [i \in 0..(k - 1) |-> IF p[i] < n THEN u[p[i]] ELSE v[p[i] - n]]

(* What index i of the result has is what index p[i] of both had.          *)
LEMMA BesideRight ==
    ASSUME NEW n \in Nat, NEW m \in Nat, NEW k, k = n + m, NEW p \in [0..(k - 1) -> 0..(k - 1)],
           NEW u, NEW v, DOMAIN v = 0..(m - 1)
    PROVE  IsBeside(Joint(p, u, v, n), p, u, v, n, k)
<1>1. Cardinality(DOMAIN v) = m
  BY IntervalSize
<1>2. Beside(u, v, n) = [i \in 0..(k - 1) |-> IF i < n THEN u[i] ELSE v[i - n]]
  BY <1>1 DEF Beside
<1> QED
  BY <1>2 DEF Joint, Apply, IsBeside

(* Where the indexes of both go.                                           *)
Divides(k, f, g, both, p, n, dims, m, bdims) ==
    /\ Fits(k, both, n, dims, f) /\ DOMAIN f = 0..(n - 1)
    /\ Fits(k, both, m, bdims, g) /\ DOMAIN g = 0..(m - 1)
    /\ \A i \in 0..(n - 1), j \in 0..(m - 1) : f[i] # g[j]
    /\ \A i \in 0..(k - 1) : IF p[i] < n THEN p[i] \in 0..(n - 1) /\ f[p[i]] = i
                             ELSE p[i] - n \in 0..(m - 1) /\ g[p[i] - n] = i

(* The two maps of so_dirprod and so_dirsum bring the indexes of both to   *)
(* different places, and to all.                                           *)
LEMMA MapsFit ==
    ASSUME NEW n \in Nat, NEW dims \in [0..(n - 1) -> Nat], NEW m \in Nat, NEW bdims \in [0..(m - 1) -> Nat],
           NEW k, k = n + m, NEW p, Reorders(p, 0..(k - 1))
    PROVE  Divides(k, FirstMap(p, n), SecondMap(p, n, m), Joint(p, dims, bdims, n), p, n, dims, m, bdims)
<1> DEFINE K == 0..(n + m - 1)
           f == FirstMap(p, n)
           g == SecondMap(p, n, m)
           both == Joint(p, dims, bdims, n)
           q == Invert(p)
<1>1. p \in [K -> K] /\ q \in [K -> K] /\ \A i \in K : p[q[i]] = i /\ q[p[i]] = i
  <2>0. K = 0..(k - 1)
    OBVIOUS
  <2> HIDE DEF K
  <2>1. Reorders(p, K) /\ p \in [K -> K]
    BY <2>0 DEF Reorders
  <2> HIDE DEF K
  <2> QED
    BY <2>1, InvertRight
<1>2. f = [j \in 0..(n - 1) |-> q[j]] /\ g = [j \in 0..(m - 1) |-> q[n + j]]
  BY DEF FirstMap, SecondMap
<1>3. both = [i \in K |-> IF p[i] < n THEN dims[p[i]] ELSE bdims[p[i] - n]]
  <2>1. DOMAIN bdims = 0..(m - 1) /\ p \in [K -> K]
    BY <1>1
  <2>2. Cardinality(DOMAIN bdims) = m
    BY <2>1, IntervalSize
  <2>3. Beside(dims, bdims, n) = [i \in K |-> IF i < n THEN dims[i] ELSE bdims[i - n]]
    BY <2>2 DEF Beside
  <2> QED
    BY <2>1, <2>3 DEF Joint, Apply
<1> HIDE DEF f, g, both, q
<1>4. \A j \in 0..(n - 1) : f[j] = q[j] /\ j \in K /\ f[j] \in K /\ p[f[j]] = j /\ j < n
  <2>1. \A j \in 0..(n - 1) : j \in K /\ j < n /\ f[j] = q[j]
    BY <1>2
  <2> HIDE DEF K
  <2> QED
    BY <1>1, <2>1
<1>5. \A j \in 0..(m - 1) : /\ g[j] = q[n + j] /\ n + j \in K /\ g[j] \in K /\ p[g[j]] = n + j
                            /\ ~(n + j < n) /\ (n + j) - n = j
  <2>1. \A j \in 0..(m - 1) : n + j \in K /\ ~(n + j < n) /\ (n + j) - n = j
    OBVIOUS
  <2> QED
    BY <1>1, <1>2, <2>1
<1>6. \A i \in K : IF p[i] < n THEN p[i] \in 0..(n - 1) /\ f[p[i]] = i
                   ELSE p[i] - n \in 0..(m - 1) /\ g[p[i] - n] = i
  <2> SUFFICES ASSUME NEW i \in K
               PROVE  IF p[i] < n THEN p[i] \in 0..(n - 1) /\ f[p[i]] = i
                      ELSE p[i] - n \in 0..(m - 1) /\ g[p[i] - n] = i
    OBVIOUS
  <2>1. p[i] \in K /\ q[p[i]] = i
    BY <1>1
  <2>2. CASE p[i] < n
    BY <1>4, <2>1, <2>2
  <2>3. CASE ~(p[i] < n)
    <3>1. p[i] - n \in 0..(m - 1) /\ n + (p[i] - n) = p[i]
      BY <2>1, <2>3
    <3> QED
      BY <1>5, <2>1, <2>3, <3>1
  <2> QED
    BY <2>2, <2>3
<1>7. both \in [K -> Nat]
  <2>1. \A i \in K : p[i] < n => dims[p[i]] \in Nat
    BY <1>6
  <2>2. \A i \in K : ~(p[i] < n) => bdims[p[i] - n] \in Nat
    BY <1>6
  <2> QED
    BY <1>3, <2>1, <2>2
<1>8. Fits(n + m, both, n, dims, f) /\ DOMAIN f = 0..(n - 1)
  <2>1. f \in [0..(n - 1) -> K] /\ \A i, j \in 0..(n - 1) : f[i] = f[j] => i = j
    BY <1>2, <1>4
  <2>2. \A j \in 0..(n - 1) : both[f[j]] = dims[j]
    BY <1>3, <1>4
  <2>3. n + m \in Nat
    OBVIOUS
  <2> QED
    BY <1>7, <2>1, <2>2, <2>3 DEF Fits
<1>9. Fits(n + m, both, m, bdims, g) /\ DOMAIN g = 0..(m - 1)
  <2>1. g \in [0..(m - 1) -> K]
    BY <1>2, <1>5
  <2>4. ASSUME NEW i \in 0..(m - 1), NEW j \in 0..(m - 1), g[i] = g[j] PROVE i = j
    <3>1. n + i = n + j
      BY <1>5, <2>4
    <3> QED
      BY <3>1
  <2>2. \A j \in 0..(m - 1) : both[g[j]] = bdims[j]
    BY <1>3, <1>5
  <2>3. n + m \in Nat
    OBVIOUS
  <2> QED
    BY <1>7, <2>1, <2>2, <2>3, <2>4 DEF Fits
<1>10. ASSUME NEW i \in 0..(n - 1), NEW j \in 0..(m - 1) PROVE f[i] # g[j]
  <2>1. p[f[i]] = i /\ p[g[j]] = n + j
    BY <1>4, <1>5
  <2>2. i # n + j
    OBVIOUS
  <2> QED
    BY <2>1, <2>2
<1>11. Divides(n + m, f, g, both, p, n, dims, m, bdims)
  BY <1>6, <1>8, <1>9, <1>10 DEF Divides
<1> QED
  BY <1>11 DEF f, g, both

(* The labelings of both, carried to the indexes of the result.            *)
PairedLabeling(a, b, p, n, m, dims) ==
    transfer_labeling(b, SecondMap(p, n, m), transfer_labeling(a, FirstMap(p, n), NewLabeling(dims)))

(* r has the labels of a and b, or of one of them.                         *)
LabelsOfBoth(r, both, k, p, n, a, b) ==
    /\ r \in Labelings(both)
    /\ \A i \in 0..(k - 1) : Of(r, i) = IF p[i] < n THEN Of(a, p[i]) ELSE Of(b, p[i] - n)
LabelsOfFirst(r, both, k, p, n, a, bdims) ==
    /\ r \in Labelings(both)
    /\ \A i \in 0..(k - 1) : Of(r, i) = IF p[i] < n THEN Of(a, p[i]) ELSE Blank(bdims[p[i] - n])
LabelsOfSecond(r, both, k, p, n, dims, b) ==
    /\ r \in Labelings(both)
    /\ \A i \in 0..(k - 1) : Of(r, i) = IF p[i] < n THEN Blank(dims[p[i]]) ELSE Of(b, p[i] - n)

(* Both labelings are transferred: the second transfer leaves the labels   *)
(* of the first alone.                                                     *)
LEMMA PairedRight ==
    ASSUME NEW n \in Nat, NEW dims \in [0..(n - 1) -> Nat], NEW m \in Nat,
           NEW bdims \in [0..(m - 1) -> Nat],
           NEW k \in Nat, k = n + m, NEW p, Reorders(p, 0..(k - 1)),
           NEW a \in Labelings(dims), NEW b \in Labelings(bdims)
    PROVE  LET both == Joint(p, dims, bdims, n)
               r == PairedLabeling(a, b, p, n, m, both)
           IN  LabelsOfBoth(r, both, k, p, n, a, b)
<1> DEFINE K == 0..(k - 1)
           f == FirstMap(p, n)
           g == SecondMap(p, n, m)
           both == Joint(p, dims, bdims, n)
           to == transfer_labeling(a, f, NewLabeling(both))
           r == PairedLabeling(a, b, p, n, m, both)
<1>1. Divides(k, f, g, both, p, n, dims, m, bdims)
  BY MapsFit
<1>2. r = transfer_labeling(b, g, to)
  BY DEF PairedLabeling
<1> HIDE DEF f, g, both, r
<1>u. /\ Fits(k, both, n, dims, f) /\ DOMAIN f = 0..(n - 1)
      /\ Fits(k, both, m, bdims, g) /\ DOMAIN g = 0..(m - 1)
      /\ \A i \in 0..(n - 1), j \in 0..(m - 1) : f[i] # g[j]
      /\ \A i \in K : IF p[i] < n THEN p[i] \in 0..(n - 1) /\ f[p[i]] = i
                      ELSE p[i] - n \in 0..(m - 1) /\ g[p[i] - n] = i
  BY <1>1 DEF Divides
<1>3. /\ to \in Labelings(both)
      /\ \A i \in DOMAIN f : Of(to, f[i]) = Of(a, i)
      /\ \A j, l \in K : Outside(f, j) /\ Outside(f, l) /\ both[j] = both[l] => to.type[j] = to.type[l]
  <2>1. CarriedTo(to, k, both, a, f)
    BY <1>u, CarriedRight
  <2> HIDE DEF to
  <2> QED
    BY <2>1 DEF CarriedTo
<1> HIDE DEF to
<1>4. \A i, j \in DOMAIN g : both[g[i]] = both[g[j]] => to.type[g[i]] = to.type[g[j]]
  <2> SUFFICES ASSUME NEW i \in DOMAIN g, NEW j \in DOMAIN g, both[g[i]] = both[g[j]]
               PROVE  to.type[g[i]] = to.type[g[j]]
    OBVIOUS
  <2>1. g[i] \in K /\ g[j] \in K
    BY <1>u DEF Fits
  <2>2. Outside(f, g[i]) /\ Outside(f, g[j])
    BY <1>u DEF Outside
  <2> QED
    BY <1>3, <2>1, <2>2
<1>5. /\ r \in Labelings(both)
      /\ \A i \in DOMAIN g : Of(r, g[i]) = Of(b, i)
      /\ \A j \in K : Outside(g, j) => Of(r, j) = Of(to, j)
  <2>1. LaidOver(transfer_labeling(b, g, to), to, k, both, b, g)
    BY <1>u, <1>3, <1>4, TransferOutside
  <2> QED
    BY <1>2, <2>1 DEF LaidOver
<1>6. ASSUME NEW i \in K PROVE Of(r, i) = IF p[i] < n THEN Of(a, p[i]) ELSE Of(b, p[i] - n)
  <2>1. CASE p[i] < n
    <3>1. p[i] \in DOMAIN f /\ f[p[i]] = i
      BY <1>u, <2>1
    <3>2. Outside(g, i)
      BY <1>u, <3>1 DEF Outside
    <3> QED
      BY <1>3, <1>5, <2>1, <3>1, <3>2
  <2>2. CASE ~(p[i] < n)
    <3>1. p[i] - n \in DOMAIN g /\ g[p[i] - n] = i
      BY <1>u, <2>2
    <3> QED
      BY <1>5, <2>2, <3>1
  <2> QED
    BY <2>1, <2>2
<1>7. LabelsOfBoth(r, both, k, p, n, a, b)
  BY <1>5, <1>6 DEF LabelsOfBoth
<1> QED
  BY <1>7 DEF r, both

(* Or of only one of them: the other indexes have no labels.               *)
LEMMA FirstAlone ==
    ASSUME NEW n \in Nat, NEW dims \in [0..(n - 1) -> Nat], NEW m \in Nat,
           NEW bdims \in [0..(m - 1) -> Nat],
           NEW k \in Nat, k = n + m, NEW p, Reorders(p, 0..(k - 1)), NEW a \in Labelings(dims)
    PROVE  LET both == Joint(p, dims, bdims, n)
               r == transfer_labeling(a, FirstMap(p, n), NewLabeling(both))
           IN  LabelsOfFirst(r, both, k, p, n, a, bdims)
<1> DEFINE K == 0..(k - 1)
           f == FirstMap(p, n)
           g == SecondMap(p, n, m)
           both == Joint(p, dims, bdims, n)
           r == transfer_labeling(a, f, NewLabeling(both))
<1>1. Divides(k, f, g, both, p, n, dims, m, bdims)
  BY MapsFit
<1> HIDE DEF f, g, both
<1>u. /\ Fits(k, both, n, dims, f) /\ DOMAIN f = 0..(n - 1)
      /\ Fits(k, both, m, bdims, g) /\ DOMAIN g = 0..(m - 1)
      /\ \A i \in 0..(n - 1), j \in 0..(m - 1) : f[i] # g[j]
      /\ \A i \in K : IF p[i] < n THEN p[i] \in 0..(n - 1) /\ f[p[i]] = i
                      ELSE p[i] - n \in 0..(m - 1) /\ g[p[i] - n] = i
  BY <1>1 DEF Divides
<1>2. /\ r \in Labelings(both)
      /\ \A i \in DOMAIN f : Of(r, f[i]) = Of(a, i)
      /\ \A j \in K : Outside(f, j) => Of(r, j) = Blank(both[j])
  <2>1. CarriedTo(r, k, both, a, f)
    BY <1>u, CarriedRight
  <2> HIDE DEF r
  <2> QED
    BY <2>1 DEF CarriedTo
<1> HIDE DEF r
<1>3. ASSUME NEW i \in K PROVE Of(r, i) = IF p[i] < n THEN Of(a, p[i]) ELSE Blank(bdims[p[i] - n])
  <2>1. CASE p[i] < n
    BY <1>u, <1>2, <2>1
  <2>2. CASE ~(p[i] < n)
    <3>1. p[i] - n \in 0..(m - 1) /\ g[p[i] - n] = i
      BY <1>u, <2>2
    <3>2. both[i] = bdims[p[i] - n] /\ Outside(f, i)
      BY <1>u, <3>1 DEF Fits, Outside
    <3> QED
      BY <1>2, <2>2, <3>2
  <2> QED
    BY <2>1, <2>2
<1>4. LabelsOfFirst(r, both, k, p, n, a, bdims)
  BY <1>2, <1>3 DEF LabelsOfFirst
<1> QED
  BY <1>4 DEF r, both, f

(* The same for the second tensor.                                         *)
LEMMA SecondAlone ==
    ASSUME NEW n \in Nat, NEW dims \in [0..(n - 1) -> Nat], NEW m \in Nat,
           NEW bdims \in [0..(m - 1) -> Nat],
           NEW k \in Nat, k = n + m, NEW p, Reorders(p, 0..(k - 1)), NEW b \in Labelings(bdims)
    PROVE  LET both == Joint(p, dims, bdims, n)
               r == transfer_labeling(b, SecondMap(p, n, m), NewLabeling(both))
           IN  LabelsOfSecond(r, both, k, p, n, dims, b)
<1> DEFINE K == 0..(k - 1)
           f == FirstMap(p, n)
           g == SecondMap(p, n, m)
           both == Joint(p, dims, bdims, n)
           r == transfer_labeling(b, g, NewLabeling(both))
<1>1. Divides(k, f, g, both, p, n, dims, m, bdims)
  BY MapsFit
<1> HIDE DEF f, g, both
<1>u. /\ Fits(k, both, n, dims, f) /\ DOMAIN f = 0..(n - 1)
      /\ Fits(k, both, m, bdims, g) /\ DOMAIN g = 0..(m - 1)
      /\ \A i \in 0..(n - 1), j \in 0..(m - 1) : f[i] # g[j]
      /\ \A i \in K : IF p[i] < n THEN p[i] \in 0..(n - 1) /\ f[p[i]] = i
                      ELSE p[i] - n \in 0..(m - 1) /\ g[p[i] - n] = i
  BY <1>1 DEF Divides
<1>2. /\ r \in Labelings(both)
      /\ \A i \in DOMAIN g : Of(r, g[i]) = Of(b, i)
      /\ \A j \in K : Outside(g, j) => Of(r, j) = Blank(both[j])
  <2>1. CarriedTo(r, k, both, b, g)
    BY <1>u, CarriedRight
  <2> HIDE DEF r
  <2> QED
    BY <2>1 DEF CarriedTo
<1> HIDE DEF r
<1>3. ASSUME NEW i \in K PROVE Of(r, i) = IF p[i] < n THEN Blank(dims[p[i]]) ELSE Of(b, p[i] - n)
  <2>1. CASE p[i] < n
    <3>1. p[i] \in 0..(n - 1) /\ f[p[i]] = i
      BY <1>u, <2>1
    <3>2. both[i] = dims[p[i]] /\ Outside(g, i)
      BY <1>u, <3>1 DEF Fits, Outside
    <3> QED
      BY <1>2, <2>1, <3>2
  <2>2. CASE ~(p[i] < n)
    BY <1>u, <1>2, <2>2
  <2> QED
    BY <2>1, <2>2
<1>4. LabelsOfSecond(r, both, k, p, n, dims, b)
  BY <1>2, <1>3 DEF LabelsOfSecond
<1> QED
  BY <1>4 DEF r, both, g

(* An element with these labels, its labeling matched or not.              *)
LEMMA EitherLabeling ==
    ASSUME NEW k \in Nat, NEW dims \in [0..(k - 1) -> Nat], NEW vs, NEW bl \in Labelings(dims),
           \A i \in 0..(k - 1) : Of(bl, i) = vs[i], NEW rule, RuleOK(rule)
    PROVE  /\ ElementOK([bl |-> bl, rule |-> rule], dims, vs)
           /\ ElementOK([bl |-> match(bl), rule |-> rule], dims, vs)
<1>1. DOMAIN dims = 0..(k - 1)
  OBVIOUS
<1>2. match(bl) \in Labelings(dims) /\ \A i \in 0..(k - 1) : Of(match(bl), i) = Of(bl, i)
  BY MatchRight
<1>3. \A i \in 0..(k - 1) : Of(match(bl), i) = vs[i]
  BY <1>2
<1> QED
  BY <1>1, <1>2, <1>3, MakeElement

(* The elements of the two tensors, the labels of both for each index.     *)
Fitting(n, dims, vs, m, bdims, ws, k, p) ==
    /\ n \in Nat /\ dims \in [0..(n - 1) -> Nat] /\ DOMAIN vs = 0..(n - 1)
    /\ m \in Nat /\ bdims \in [0..(m - 1) -> Nat] /\ DOMAIN ws = 0..(m - 1)
    /\ k \in Nat /\ k = n + m /\ Reorders(p, 0..(k - 1))

(* The number of blocks and the labels of each index of the result.        *)
LEMMA BothSizes ==
    ASSUME NEW n, NEW dims, NEW vs, NEW m, NEW bdims, NEW ws, NEW k, NEW p, Fitting(n, dims, vs, m, bdims, ws, k, p)
    PROVE  /\ Joint(p, dims, bdims, n) \in [0..(k - 1) -> Nat]
           /\ DOMAIN Joint(p, vs, ws, n) = 0..(k - 1)
           /\ \A i \in 0..(k - 1) :
                  /\ Joint(p, vs, ws, n)[i] = IF p[i] < n THEN vs[p[i]] ELSE ws[p[i] - n]
                  /\ Joint(p, dims, bdims, n)[i] = IF p[i] < n THEN dims[p[i]] ELSE bdims[p[i] - n]
                  /\ p[i] < n => p[i] \in 0..(n - 1)
                  /\ ~(p[i] < n) => p[i] - n \in 0..(m - 1)
<1> DEFINE K == 0..(k - 1)
<1>1. n \in Nat /\ m \in Nat /\ k = n + m /\ dims \in [0..(n - 1) -> Nat] /\ bdims \in [0..(m - 1) -> Nat]
      /\ DOMAIN bdims = 0..(m - 1) /\ DOMAIN ws = 0..(m - 1) /\ Reorders(p, K) /\ k \in Nat
  BY DEF Fitting
<1>2. p \in [K -> K]
  BY <1>1 DEF Reorders
<1>3. Joint(p, vs, ws, n) = [i \in K |-> IF p[i] < n THEN vs[p[i]] ELSE ws[p[i] - n]]
  <2>1. IsBeside(Joint(p, vs, ws, n), p, vs, ws, n, k)
    BY <1>1, <1>2, BesideRight
  <2> QED
    BY <2>1 DEF IsBeside
<1>4. Joint(p, dims, bdims, n) = [i \in K |-> IF p[i] < n THEN dims[p[i]] ELSE bdims[p[i] - n]]
  <2>1. IsBeside(Joint(p, dims, bdims, n), p, dims, bdims, n, k)
    BY <1>1, <1>2, BesideRight
  <2> QED
    BY <2>1 DEF IsBeside
<1>5. Divides(k, FirstMap(p, n), SecondMap(p, n, m), Joint(p, dims, bdims, n), p, n, dims, m, bdims)
  BY <1>1, MapsFit
<1>6. Joint(p, dims, bdims, n) \in [K -> Nat]
  BY <1>5 DEF Divides, Fits
<1>7. \A i \in K : (p[i] < n => p[i] \in 0..(n - 1)) /\ (~(p[i] < n) => p[i] - n \in 0..(m - 1))
  BY <1>5 DEF Divides
<1> QED
  BY <1>3, <1>4, <1>6, <1>7

(* An element made of one of each tensor.                                  *)
LEMMA PairedElement ==
    ASSUME NEW n, NEW dims, NEW vs, NEW m, NEW bdims, NEW ws, NEW k, NEW p, Fitting(n, dims, vs, m, bdims, ws, k, p),
           NEW a, ElementOK(a, dims, vs), NEW b, ElementOK(b, bdims, ws), NEW rule, RuleOK(rule)
    PROVE  LET both == Joint(p, dims, bdims, n)
           IN  ElementOK([bl |-> match(PairedLabeling(a.bl, b.bl, p, n, m, both)), rule |-> rule],
                         both, Joint(p, vs, ws, n))
<1> DEFINE K == 0..(k - 1)
           both == Joint(p, dims, bdims, n)
           bvs == Joint(p, vs, ws, n)
           bl == PairedLabeling(a.bl, b.bl, p, n, m, both)
<1>1. /\ n \in Nat /\ dims \in [0..(n - 1) -> Nat] /\ m \in Nat /\ bdims \in [0..(m - 1) -> Nat]
      /\ k \in Nat /\ k = n + m /\ Reorders(p, K)
      /\ DOMAIN dims = 0..(n - 1) /\ DOMAIN bdims = 0..(m - 1)
  BY DEF Fitting
<1>2. /\ a.bl \in Labelings(dims) /\ \A i \in 0..(n - 1) : Of(a.bl, i) = vs[i]
      /\ b.bl \in Labelings(bdims) /\ \A i \in 0..(m - 1) : Of(b.bl, i) = ws[i]
  BY <1>1 DEF ElementOK
<1>3. /\ bl \in Labelings(both)
      /\ \A i \in K : Of(bl, i) = IF p[i] < n THEN Of(a.bl, p[i]) ELSE Of(b.bl, p[i] - n)
  <2>1. LabelsOfBoth(bl, both, k, p, n, a.bl, b.bl)
    BY <1>1, <1>2, PairedRight
  <2> HIDE DEF both, bl
  <2> QED
    BY <2>1 DEF LabelsOfBoth
<1>4. /\ both \in [K -> Nat]
      /\ \A i \in K : /\ bvs[i] = IF p[i] < n THEN vs[p[i]] ELSE ws[p[i] - n]
                      /\ p[i] < n => p[i] \in 0..(n - 1)
                      /\ ~(p[i] < n) => p[i] - n \in 0..(m - 1)
  BY BothSizes
<1> HIDE DEF both, bvs, bl
<1>5. \A i \in K : Of(bl, i) = bvs[i]
  BY <1>2, <1>3, <1>4
<1>6. ElementOK([bl |-> match(bl), rule |-> rule], both, bvs)
  BY <1>1, <1>3, <1>4, <1>5, EitherLabeling
<1> QED
  BY <1>6 DEF both, bvs, bl

AllBlank(vs, dims) == \A i \in DOMAIN dims : vs[i] = Blank(dims[i])

(* An element made of one of the first tensor, the second having no        *)
(* labels.                                                                 *)
LEMMA FirstElement ==
    ASSUME NEW n, NEW dims, NEW vs, NEW m, NEW bdims, NEW ws, NEW k, NEW p, Fitting(n, dims, vs, m, bdims, ws, k, p),
           NEW a, ElementOK(a, dims, vs), AllBlank(ws, bdims), NEW rule, RuleOK(rule)
    PROVE  LET both == Joint(p, dims, bdims, n)
               bl == transfer_labeling(a.bl, FirstMap(p, n), NewLabeling(both))
           IN  /\ ElementOK([bl |-> bl, rule |-> rule], both, Joint(p, vs, ws, n))
               /\ ElementOK([bl |-> match(bl), rule |-> rule], both, Joint(p, vs, ws, n))
<1> DEFINE K == 0..(k - 1)
           both == Joint(p, dims, bdims, n)
           bvs == Joint(p, vs, ws, n)
           bl == transfer_labeling(a.bl, FirstMap(p, n), NewLabeling(both))
<1>1. /\ n \in Nat /\ dims \in [0..(n - 1) -> Nat] /\ m \in Nat /\ bdims \in [0..(m - 1) -> Nat]
      /\ k \in Nat /\ k = n + m /\ Reorders(p, K)
      /\ DOMAIN dims = 0..(n - 1) /\ DOMAIN bdims = 0..(m - 1)
  BY DEF Fitting
<1>2. /\ a.bl \in Labelings(dims) /\ \A i \in 0..(n - 1) : Of(a.bl, i) = vs[i]
      /\ \A i \in 0..(m - 1) : ws[i] = Blank(bdims[i])
  BY <1>1 DEF ElementOK, AllBlank
<1>3. /\ bl \in Labelings(both)
      /\ \A i \in K : Of(bl, i) = IF p[i] < n THEN Of(a.bl, p[i]) ELSE Blank(bdims[p[i] - n])
  <2>1. LabelsOfFirst(bl, both, k, p, n, a.bl, bdims)
    BY <1>1, <1>2, FirstAlone
  <2> HIDE DEF both, bl
  <2> QED
    BY <2>1 DEF LabelsOfFirst
<1>4. /\ both \in [K -> Nat]
      /\ \A i \in K : /\ bvs[i] = IF p[i] < n THEN vs[p[i]] ELSE ws[p[i] - n]
                      /\ p[i] < n => p[i] \in 0..(n - 1)
                      /\ ~(p[i] < n) => p[i] - n \in 0..(m - 1)
  BY BothSizes
<1> HIDE DEF both, bvs, bl
<1>5. \A i \in K : Of(bl, i) = bvs[i]
  BY <1>2, <1>3, <1>4
<1>6. /\ ElementOK([bl |-> bl, rule |-> rule], both, bvs)
      /\ ElementOK([bl |-> match(bl), rule |-> rule], both, bvs)
  BY <1>1, <1>3, <1>4, <1>5, EitherLabeling
<1> QED
  BY <1>6 DEF both, bvs, bl

(* An element made of one of the second tensor, the first having no        *)
(* labels.                                                                 *)
LEMMA SecondElement ==
    ASSUME NEW n, NEW dims, NEW vs, NEW m, NEW bdims, NEW ws, NEW k, NEW p, Fitting(n, dims, vs, m, bdims, ws, k, p),
           NEW b, ElementOK(b, bdims, ws), AllBlank(vs, dims), NEW rule, RuleOK(rule)
    PROVE  LET both == Joint(p, dims, bdims, n)
               bl == transfer_labeling(b.bl, SecondMap(p, n, m), NewLabeling(both))
           IN  /\ ElementOK([bl |-> bl, rule |-> rule], both, Joint(p, vs, ws, n))
               /\ ElementOK([bl |-> match(bl), rule |-> rule], both, Joint(p, vs, ws, n))
<1> DEFINE K == 0..(k - 1)
           both == Joint(p, dims, bdims, n)
           bvs == Joint(p, vs, ws, n)
           bl == transfer_labeling(b.bl, SecondMap(p, n, m), NewLabeling(both))
<1>1. /\ n \in Nat /\ dims \in [0..(n - 1) -> Nat] /\ m \in Nat /\ bdims \in [0..(m - 1) -> Nat]
      /\ k \in Nat /\ k = n + m /\ Reorders(p, K)
      /\ DOMAIN dims = 0..(n - 1) /\ DOMAIN bdims = 0..(m - 1)
  BY DEF Fitting
<1>2. /\ b.bl \in Labelings(bdims) /\ \A i \in 0..(m - 1) : Of(b.bl, i) = ws[i]
      /\ \A i \in 0..(n - 1) : vs[i] = Blank(dims[i])
  BY <1>1 DEF ElementOK, AllBlank
<1>3. /\ bl \in Labelings(both)
      /\ \A i \in K : Of(bl, i) = IF p[i] < n THEN Blank(dims[p[i]]) ELSE Of(b.bl, p[i] - n)
  <2>1. LabelsOfSecond(bl, both, k, p, n, dims, b.bl)
    BY <1>1, <1>2, SecondAlone
  <2> HIDE DEF both, bl
  <2> QED
    BY <2>1 DEF LabelsOfSecond
<1>4. /\ both \in [K -> Nat]
      /\ \A i \in K : /\ bvs[i] = IF p[i] < n THEN vs[p[i]] ELSE ws[p[i] - n]
                      /\ p[i] < n => p[i] \in 0..(n - 1)
                      /\ ~(p[i] < n) => p[i] - n \in 0..(m - 1)
  BY BothSizes
<1> HIDE DEF both, bvs, bl
<1>5. \A i \in K : Of(bl, i) = bvs[i]
  BY <1>2, <1>3, <1>4
<1>6. /\ ElementOK([bl |-> bl, rule |-> rule], both, bvs)
      /\ ElementOK([bl |-> match(bl), rule |-> rule], both, bvs)
  BY <1>1, <1>3, <1>4, <1>5, EitherLabeling
<1> QED
  BY <1>6 DEF both, bvs, bl

(* A tensor of the indexes of both, with the labels of both.               *)
BothLabels(p, lab, xlab, n) == [id \in DOMAIN lab |-> Joint(p, lab[id], xlab[id], n)]

(* A tensor whose elements have the labels of both.                        *)
LEMMA BothTensor ==
    ASSUME NEW syma, NEW lab, NEW n, NEW dims, TensorOK(syma, lab, n, dims),
           NEW symb, NEW xlab, NEW m, NEW bdims, TensorOK(symb, xlab, m, bdims),
           NEW k, k = n + m, NEW p, Reorders(p, 0..(k - 1)),
           NEW sym1, DOMAIN sym1 = DOMAIN syma \cup DOMAIN symb,
           \A id \in DOMAIN sym1 :
               ElementsOK(sym1[id], Joint(p, dims, bdims, n), Joint(p, lab[id], xlab[id], n))
    PROVE  TensorOK(sym1, BothLabels(p, lab, xlab, n), k, Joint(p, dims, bdims, n))
<1> DEFINE K == 0..(k - 1)
           both == Joint(p, dims, bdims, n)
           blab == BothLabels(p, lab, xlab, n)
<1>1. /\ n \in Nat /\ dims \in [0..(n - 1) -> Nat] /\ DOMAIN lab = DOMAIN Tables /\ DOMAIN Tables # {}
      /\ m \in Nat /\ bdims \in [0..(m - 1) -> Nat] /\ DOMAIN xlab = DOMAIN Tables
      /\ DOMAIN syma \in SUBSET DOMAIN Tables /\ DOMAIN symb \in SUBSET DOMAIN Tables
  BY DEF TensorOK, LabelsOK
<1>2. k \in Nat
  BY <1>1
<1>3. /\ DOMAIN blab = DOMAIN Tables
      /\ \A id \in DOMAIN Tables : blab[id] = Joint(p, lab[id], xlab[id], n)
  BY <1>1 DEF BothLabels
<1>4. \A id \in DOMAIN Tables : Fitting(n, dims, lab[id], m, bdims, xlab[id], k, p)
  BY <1>1, <1>2 DEF TensorOK, LabelsOK, Fitting
<1>5. both \in [K -> Nat]
  BY <1>1, <1>4, BothSizes
<1>6. ASSUME NEW id \in DOMAIN Tables
      PROVE  /\ DOMAIN blab[id] = K
             /\ \A i \in K : /\ blab[id][i] = IF p[i] < n THEN lab[id][p[i]] ELSE xlab[id][p[i] - n]
                             /\ both[i] = IF p[i] < n THEN dims[p[i]] ELSE bdims[p[i] - n]
                             /\ p[i] < n => p[i] \in 0..(n - 1)
                             /\ ~(p[i] < n) => p[i] - n \in 0..(m - 1)
  <2>1. Fitting(n, dims, lab[id], m, bdims, xlab[id], k, p) /\ blab[id] = Joint(p, lab[id], xlab[id], n)
    BY <1>3, <1>4
  <2> HIDE DEF blab
  <2> QED
    BY <2>1, BothSizes
<1> HIDE DEF both, blab
<1>7. ASSUME NEW id \in DOMAIN Tables, NEW i \in K PROVE blab[id][i] \in Vector(both[i])
  <2>1. CASE p[i] < n
    <3>1. lab[id][p[i]] \in Vector(dims[p[i]])
      BY <1>6, <2>1 DEF TensorOK, LabelsOK
    <3> QED
      BY <1>6, <2>1, <3>1
  <2>2. CASE ~(p[i] < n)
    <3>1. xlab[id][p[i] - n] \in Vector(bdims[p[i] - n])
      BY <1>6, <2>2 DEF TensorOK, LabelsOK
    <3> QED
      BY <1>6, <2>2, <3>1
  <2> QED
    BY <2>1, <2>2
<1>8. LabelsOK(blab, k, both)
  BY <1>1, <1>2, <1>3, <1>5, <1>6, <1>7 DEF LabelsOK
<1>9. ASSUME NEW id \in DOMAIN Tables \ DOMAIN sym1, NEW i \in K PROVE blab[id][i] = Blank(both[i])
  <2>0. id \in DOMAIN Tables /\ id \in DOMAIN Tables \ DOMAIN syma /\ id \in DOMAIN Tables \ DOMAIN symb
    OBVIOUS
  <2>1. CASE p[i] < n
    <3>1. lab[id][p[i]] = Blank(dims[p[i]])
      BY <1>6, <2>0, <2>1 DEF TensorOK
    <3> QED
      BY <1>6, <2>0, <2>1, <3>1
  <2>2. CASE ~(p[i] < n)
    <3>1. xlab[id][p[i] - n] = Blank(bdims[p[i] - n])
      BY <1>6, <2>0, <2>2 DEF TensorOK
    <3> QED
      BY <1>6, <2>0, <2>2, <3>1
  <2> QED
    BY <2>1, <2>2
<1>10. DOMAIN sym1 \in SUBSET DOMAIN Tables
  BY <1>1
<1>11. \A id \in DOMAIN sym1 : ElementsOK(sym1[id], both, blab[id])
  BY <1>3, <1>10 DEF both
<1>12. TensorOK(sym1, blab, k, both)
  BY <1>8, <1>9, <1>10, <1>11 DEF TensorOK
<1> QED
  BY <1>12 DEF both, blab

-----------------------------------------------------------------------------
(* so_dirprod: the labels of both, and a rule that needs both.             *)
PairRule(id, a, b, p, n, m) ==
    Opt(n + m, id, {Joined(x, y) : x \in MovedRule(a.rule, FirstMap(p, n), n + m),
                                   y \in MovedRule(b.rule, SecondMap(p, n, m), n + m)})
ProductPair(id, a, b, p, n, m, bidims) ==
    [bl |-> match(PairedLabeling(a.bl, b.bl, p, n, m, bidims)), rule |-> PairRule(id, a, b, p, n, m)]
ProductAlone(id, el, map, k, bidims) ==
    [bl |-> match(transfer_labeling(el.bl, map, NewLabeling(bidims))), rule |-> Opt(k, id, MovedRule(el.rule, map, k))]
ProductElement(id, syma, n, symb, m, bidims, p) ==
    IF id \notin DOMAIN symb THEN ProductAlone(id, Combined(n, id, syma[id]), FirstMap(p, n), n + m, bidims)
    ELSE IF id \notin DOMAIN syma THEN ProductAlone(id, Combined(m, id, symb[id]), SecondMap(p, n, m), n + m, bidims)
    ELSE ProductPair(id, Combined(n, id, syma[id]), Combined(m, id, symb[id]), p, n, m, bidims)

(* so_dirprod, in parts.                                                   *)
LEMMA ProductParts ==
    ASSUME NEW syma, NEW n, NEW symb, NEW m, NEW bidims, NEW p
    PROVE  so_dirprod(syma, n, symb, m, bidims, p) =
               [id \in DOMAIN syma \cup DOMAIN symb |-> <<ProductElement(id, syma, n, symb, m, bidims, p)>>]
BY DEF so_dirprod, OfEach, ProductElement, ProductPair, ProductAlone, PairRule, PairedLabeling

(* so_dirsum: the labels of both, and a rule that needs one of the two.    *)
SumPair(id, a, b, p, n, m, bidims) ==
    [bl |-> match(PairedLabeling(a.bl, b.bl, p, n, m, bidims)),
     rule |-> MovedRule(a.rule, FirstMap(p, n), n + m) \cup MovedRule(b.rule, SecondMap(p, n, m), n + m)]
AnyOf(map, k) == {<<Moved([i \in DOMAIN map |-> 1], map, k), invalid>>}
SumAlone(el, map, other, k, bidims) ==
    [bl |-> transfer_labeling(el.bl, map, NewLabeling(bidims)), rule |-> MovedRule(el.rule, map, k) \cup {AnyOf(other, k)}]
SumElement(id, syma, n, symb, m, bidims, p) ==
    IF id \notin DOMAIN symb
    THEN SumAlone(Combined(n, id, syma[id]), FirstMap(p, n), SecondMap(p, n, m), n + m, bidims)
    ELSE IF id \notin DOMAIN syma
    THEN SumAlone(Combined(m, id, symb[id]), SecondMap(p, n, m),
                  [j \in 0..(n - 1) |-> SecondMap(p, n, m)[j]], n + m, bidims)
    ELSE SumPair(id, Combined(n, id, syma[id]), Combined(m, id, symb[id]), p, n, m, bidims)

(* so_dirsum, in parts.                                                    *)
LEMMA SumParts ==
    ASSUME NEW syma, NEW n, NEW symb, NEW m, NEW bidims, NEW p
    PROVE  so_dirsum(syma, n, symb, m, bidims, p) =
               [id \in DOMAIN syma \cup DOMAIN symb |-> <<SumElement(id, syma, n, symb, m, bidims, p)>>]
BY Zenon DEF so_dirsum, OfEach, SumElement, SumPair, SumAlone, AnyOf, PairedLabeling

(* The rule of one of the two, on the indexes of both: no product is       *)
(* empty.                                                                  *)
LEMMA ProductAloneRight ==
    ASSUME NEW id, NEW el, RuleOK(el.rule), NEW map, NEW k, NEW bidims
    PROVE  /\ ProductAlone(id, el, map, k, bidims).rule = Opt(k, id, MovedRule(el.rule, map, k))
           /\ RuleOK(Opt(k, id, MovedRule(el.rule, map, k)))
<1>1. RuleOK(MovedRule(el.rule, map, k))
  BY FiniteRule, MovedRight
<1>2. RuleOK(Opt(k, id, MovedRule(el.rule, map, k)))
  BY <1>1, FiniteRule, OptimizeRight DEF Opt
<1> QED
  BY <1>2 DEF ProductAlone

(* The products of both rules joined in pairs: none is empty.              *)
LEMMA PairRuleRight ==
    ASSUME NEW id, NEW a, RuleOK(a.rule), NEW b, RuleOK(b.rule), NEW p, NEW n, NEW m
    PROVE  RuleOK(PairRule(id, a, b, p, n, m))
<1> DEFINE R == MovedRule(a.rule, FirstMap(p, n), n + m)
           Q == MovedRule(b.rule, SecondMap(p, n, m), n + m)
           J == {Joined(x, y) : x \in R, y \in Q}
<1>1. RuleOK(R) /\ RuleOK(Q)
  BY FiniteRule, MovedRight
<1> HIDE DEF R, Q
<1>2. RuleOK(J)
  BY <1>1, JoinedRules
<1>3. PairRule(id, a, b, p, n, m) = Opt(n + m, id, J)
  BY DEF PairRule, R, Q
<1> HIDE DEF J
<1>4. RuleOK(Opt(n + m, id, J))
  BY <1>2, FiniteRule, OptimizeRight DEF Opt
<1> QED
  BY <1>3, <1>4

(* The products of one rule and others: none is empty.                     *)
LEMMA SumRuleRight ==
    ASSUME NEW a, RuleOK(a.rule), NEW f, NEW k, NEW R, RuleOK(R)
    PROVE  RuleOK(MovedRule(a.rule, f, k) \cup R)
<1>1. RuleOK(MovedRule(a.rule, f, k))
  BY FiniteRule, MovedRight
<1> QED
  BY <1>1 DEF RuleOK

(* The product that allows all has a term.                                 *)
LEMMA AnyRight ==
    ASSUME NEW map, NEW k
    PROVE  RuleOK({AnyOf(map, k)})
<1>1. \E x : AnyOf(map, k) = {x}
  BY DEF AnyOf
<1>2. AnyOf(map, k) # {} /\ IsFiniteSet(AnyOf(map, k))
  BY <1>1, FS_Singleton
<1> QED
  BY <1>2 DEF RuleOK

(* The elements that the two make of a table.                              *)
LEMMA BothElements ==
    ASSUME NEW id, NEW syma, NEW n, NEW dims, NEW vs, NEW symb, NEW m, NEW bdims, NEW ws, NEW k, NEW p,
           Fitting(n, dims, vs, m, bdims, ws, k, p),
           id \in DOMAIN syma \cup DOMAIN symb,
           id \in DOMAIN syma => ElementsOK(syma[id], dims, vs),
           id \notin DOMAIN syma => AllBlank(vs, dims),
           id \in DOMAIN symb => ElementsOK(symb[id], bdims, ws),
           id \notin DOMAIN symb => AllBlank(ws, bdims)
    PROVE  LET both == Joint(p, dims, bdims, n)
               bvs == Joint(p, vs, ws, n)
           IN  /\ ElementOK(ProductElement(id, syma, n, symb, m, both, p), both, bvs)
               /\ ElementOK(SumElement(id, syma, n, symb, m, both, p), both, bvs)
<1> DEFINE both == Joint(p, dims, bdims, n)
           bvs == Joint(p, vs, ws, n)
           a == Combined(n, id, syma[id])
           b == Combined(m, id, symb[id])
           f == FirstMap(p, n)
           g == SecondMap(p, n, m)
           abl == transfer_labeling(a.bl, f, NewLabeling(both))
           bbl == transfer_labeling(b.bl, g, NewLabeling(both))
           pbl == PairedLabeling(a.bl, b.bl, p, n, m, both)
           product1 == ProductElement(id, syma, n, symb, m, both, p)
           sum1 == SumElement(id, syma, n, symb, m, both, p)
<1>1. id \in DOMAIN syma => ElementOK(a, dims, vs) /\ RuleOK(a.rule)
  BY CombinedRight DEF ElementOK
<1>2. id \in DOMAIN symb => ElementOK(b, bdims, ws) /\ RuleOK(b.rule)
  BY CombinedRight DEF ElementOK
<1>3. k = n + m
  BY DEF Fitting
<1>4. CASE id \notin DOMAIN symb
  <2>1. ElementOK(a, dims, vs) /\ RuleOK(a.rule)
    BY <1>1, <1>4
  <2>2. product1 = ProductAlone(id, a, f, k, both) /\ sum1 = SumAlone(a, f, g, k, both)
    BY <1>3, <1>4 DEF ProductElement, SumElement
  <2> HIDE DEF a, f, g, product1, sum1, both, bvs
  <2> DEFINE R == Opt(k, id, MovedRule(a.rule, f, k))
             Q == MovedRule(a.rule, f, k) \cup {AnyOf(g, k)}
  <2>3. RuleOK(R) /\ RuleOK(Q)
    BY <2>1, ProductAloneRight, SumRuleRight, AnyRight
  <2>4. product1 = [bl |-> match(abl), rule |-> R] /\ sum1 = [bl |-> abl, rule |-> Q]
    BY <2>2 DEF ProductAlone, SumAlone
  <2> HIDE DEF R, Q
  <2>5. AllBlank(ws, bdims)
    BY <1>4
  <2>6. \A rule : RuleOK(rule) => /\ ElementOK([bl |-> abl, rule |-> rule], both, bvs)
                                  /\ ElementOK([bl |-> match(abl), rule |-> rule], both, bvs)
    BY <2>1, <2>5, FirstElement DEF both, bvs, f
  <2> QED
    BY <2>3, <2>4, <2>6 DEF product1, sum1, both, bvs
<1>5. CASE id \notin DOMAIN syma
  <2>0. id \in DOMAIN symb
    BY <1>5
  <2>1. ElementOK(b, bdims, ws) /\ RuleOK(b.rule)
    BY <1>2, <2>0
  <2> DEFINE h == [j \in 0..(n - 1) |-> g[j]]
  <2>2. product1 = ProductAlone(id, b, g, k, both) /\ sum1 = SumAlone(b, g, h, k, both)
    BY <1>3, <1>5, <2>0 DEF ProductElement, SumElement
  <2> HIDE DEF b, g, h, product1, sum1, both, bvs
  <2> DEFINE R == Opt(k, id, MovedRule(b.rule, g, k))
             Q == MovedRule(b.rule, g, k) \cup {AnyOf(h, k)}
  <2>3. RuleOK(R) /\ RuleOK(Q)
    BY <2>1, ProductAloneRight, SumRuleRight, AnyRight
  <2>4. product1 = [bl |-> match(bbl), rule |-> R] /\ sum1 = [bl |-> bbl, rule |-> Q]
    BY <2>2 DEF ProductAlone, SumAlone
  <2> HIDE DEF R, Q
  <2>5. AllBlank(vs, dims)
    BY <1>5
  <2>6. \A rule : RuleOK(rule) => /\ ElementOK([bl |-> bbl, rule |-> rule], both, bvs)
                                  /\ ElementOK([bl |-> match(bbl), rule |-> rule], both, bvs)
    BY <2>1, <2>5, SecondElement DEF both, bvs, g
  <2> QED
    BY <2>3, <2>4, <2>6 DEF product1, sum1, both, bvs
<1>6. CASE id \in DOMAIN syma /\ id \in DOMAIN symb
  <2>1. ElementOK(a, dims, vs) /\ RuleOK(a.rule) /\ ElementOK(b, bdims, ws) /\ RuleOK(b.rule)
    BY <1>1, <1>2, <1>6
  <2>2. product1 = ProductPair(id, a, b, p, n, m, both) /\ sum1 = SumPair(id, a, b, p, n, m, both)
    BY <1>6 DEF ProductElement, SumElement
  <2> HIDE DEF a, b, f, g, product1, sum1, both, bvs
  <2> DEFINE R == PairRule(id, a, b, p, n, m)
             Q == MovedRule(a.rule, FirstMap(p, n), n + m) \cup MovedRule(b.rule, SecondMap(p, n, m), n + m)
  <2>3. RuleOK(R) /\ RuleOK(Q)
    <3>1. RuleOK(MovedRule(b.rule, SecondMap(p, n, m), n + m))
      BY <2>1, FiniteRule, MovedRight
    <3> QED
      BY <2>1, <3>1, PairRuleRight, SumRuleRight
  <2>4. product1 = [bl |-> match(pbl), rule |-> R] /\ sum1 = [bl |-> match(pbl), rule |-> Q]
    BY <2>2 DEF ProductPair, SumPair
  <2> HIDE DEF R, Q
  <2>6. \A rule : RuleOK(rule) => ElementOK([bl |-> match(pbl), rule |-> rule], both, bvs)
    BY <2>1, PairedElement DEF both, bvs
  <2> QED
    BY <2>3, <2>4, <2>6 DEF product1, sum1, both, bvs
<1> QED
  BY <1>4, <1>5, <1>6

(* so_dirprod and so_dirsum: every index keeps the labels it had in its    *)
(* tensor, also where only one of the two has elements of a table.         *)
LEMMA DirectRight ==
    ASSUME NEW syma, NEW lab, NEW n, NEW dims, TensorOK(syma, lab, n, dims),
           NEW symb, NEW xlab, NEW m, NEW bdims, TensorOK(symb, xlab, m, bdims),
           NEW k, k = n + m, NEW p, Reorders(p, 0..(k - 1))
    PROVE  LET both == Joint(p, dims, bdims, n)
               blab == BothLabels(p, lab, xlab, n)
           IN  /\ TensorOK(so_dirprod(syma, n, symb, m, both, p), blab, k, both)
               /\ TensorOK(so_dirsum(syma, n, symb, m, both, p), blab, k, both)
<1> DEFINE both == Joint(p, dims, bdims, n)
           blab == BothLabels(p, lab, xlab, n)
           ids == DOMAIN syma \cup DOMAIN symb
           prod == so_dirprod(syma, n, symb, m, both, p)
           sum == so_dirsum(syma, n, symb, m, both, p)
<1>1. /\ n \in Nat /\ dims \in [0..(n - 1) -> Nat] /\ m \in Nat /\ bdims \in [0..(m - 1) -> Nat]
      /\ DOMAIN syma \in SUBSET DOMAIN Tables /\ DOMAIN symb \in SUBSET DOMAIN Tables
      /\ \A id \in DOMAIN Tables : DOMAIN lab[id] = 0..(n - 1) /\ DOMAIN xlab[id] = 0..(m - 1)
  BY DEF TensorOK, LabelsOK
<1>2. k \in Nat
  BY <1>1
<1>3. ASSUME NEW id \in ids
      PROVE  /\ ElementOK(ProductElement(id, syma, n, symb, m, both, p), both, Joint(p, lab[id], xlab[id], n))
             /\ ElementOK(SumElement(id, syma, n, symb, m, both, p), both, Joint(p, lab[id], xlab[id], n))
  <2>1. id \in DOMAIN Tables
    BY <1>1
  <2>2. Fitting(n, dims, lab[id], m, bdims, xlab[id], k, p)
    BY <1>1, <1>2, <2>1 DEF Fitting
  <2>3. /\ id \in DOMAIN syma => ElementsOK(syma[id], dims, lab[id])
        /\ id \notin DOMAIN syma => AllBlank(lab[id], dims)
    BY <1>1, <2>1 DEF TensorOK, AllBlank
  <2>4. /\ id \in DOMAIN symb => ElementsOK(symb[id], bdims, xlab[id])
        /\ id \notin DOMAIN symb => AllBlank(xlab[id], bdims)
    BY <1>1, <2>1 DEF TensorOK, AllBlank
  <2> QED
    BY <2>2, <2>3, <2>4, BothElements
<1>4. prod = [id \in ids |-> <<ProductElement(id, syma, n, symb, m, both, p)>>]
  BY ProductParts
<1>5. sum = [id \in ids |-> <<SumElement(id, syma, n, symb, m, both, p)>>]
  BY SumParts
<1> HIDE DEF both, blab, prod, sum
<1>6. \A id \in ids : ElementsOK(prod[id], both, Joint(p, lab[id], xlab[id], n))
  BY <1>3, <1>4, OneElement
<1>7. \A id \in ids : ElementsOK(sum[id], both, Joint(p, lab[id], xlab[id], n))
  BY <1>3, <1>5, OneElement
<1>8. TensorOK(prod, blab, k, both)
  BY <1>4, <1>6, BothTensor DEF both, blab
<1>9. TensorOK(sum, blab, k, both)
  BY <1>5, <1>7, BothTensor DEF both, blab
<1> QED
  BY <1>8, <1>9 DEF both, blab, prod, sum

-----------------------------------------------------------------------------
(* The calls *)

StartElements(id, x) ==
    [e \in DOMAIN x.intrs[id] |->
        [bl |-> match(LabelledAs(x.labels[id])), rule |-> set_rule(OrderOf(x.labels), x.intrs[id][e])]]

(* The elements of a tensor that a program sets up.                        *)
LEMMA StartParts ==
    ASSUME NEW x
    PROVE  StartSymmetry(x) = [id \in DOMAIN x.intrs |-> StartElements(id, x)]
BY Zenon DEF StartSymmetry, StartElements

(* set_rule makes products of one term.                                    *)
LEMMA SetRuleRight ==
    ASSUME NEW n, NEW intr
    PROVE  RuleOK(set_rule(n, intr))
<1>1. \A p \in set_rule(n, intr) : \E x : p = {x}
  BY DEF set_rule
<1>2. \A p \in set_rule(n, intr) : p # {} /\ IsFiniteSet(p)
  BY <1>1, FS_Singleton
<1> QED
  BY <1>2 DEF RuleOK

(* A tensor that a program sets up has its labels.                         *)
LEMMA StartRight ==
    ASSUME StartsOK, NEW x \in Starts
    PROVE  TensorOK(StartSymmetry(x), x.labels, OrderOf(x.labels), DimsOf(x.labels))
<1> DEFINE n == OrderOf(x.labels)
           dims == DimsOf(x.labels)
           lab == x.labels
           N == 0..(n - 1)
           sym == StartSymmetry(x)
<1>1. /\ DOMAIN Tables # {} /\ DOMAIN lab = DOMAIN Tables /\ DOMAIN x.intrs \subseteq DOMAIN Tables
      /\ \A id \in DOMAIN x.intrs : x.intrs[id] \in Seq(SUBSET Int) \ {<<>>}
      /\ n \in Nat /\ \A i \in N : dims[i] \in Nat
      /\ \A id \in DOMAIN Tables : DOMAIN lab[id] = N /\ \A i \in N : lab[id][i] \in Vector(dims[i])
      /\ \A id \in DOMAIN Tables \ DOMAIN x.intrs : \A i \in N : \A k \in DOMAIN lab[id][i] : lab[id][i][k] = invalid
  BY DEF StartsOK, Vector
<1>2. dims \in [N -> Nat]
  <2> DEFINE id == CHOOSE id \in DOMAIN lab : TRUE
  <2>1. id \in DOMAIN Tables
    BY <1>1
  <2>2. dims = [i \in DOMAIN lab[id] |-> Cardinality(DOMAIN lab[id][i])]
    BY DEF DimsOf
  <2> HIDE DEF id, dims
  <2>3. dims = [i \in N |-> dims[i]]
    BY <1>1, <2>1, <2>2
  <2> QED
    BY <1>1, <2>3
<1>3. sym = [id \in DOMAIN x.intrs |-> StartElements(id, x)]
  BY StartParts
<1> HIDE DEF n, dims, lab, sym
<1>4. LabelsOK(lab, n, dims)
  BY <1>1, <1>2 DEF LabelsOK
<1>5. ASSUME NEW id \in DOMAIN x.intrs PROVE ElementsOK(sym[id], dims, lab[id])
  <2> DEFINE els == StartElements(id, x)
             vs == lab[id]
             y == LabelledAs(vs)
             k == Len(x.intrs[id])
  <2>1. id \in DOMAIN Tables
    BY <1>1
  <2>2. y \in Labelings(dims) /\ \A i \in N : Of(y, i) = vs[i]
    <3>1. DOMAIN vs = N /\ \A i \in N : vs[i] \in Vector(dims[i])
      BY <1>1, <2>1
    <3> HIDE DEF vs
    <3> QED
      BY <1>1, <1>2, <3>1, LabelledRight
  <2>3. k \in Nat \ {0} /\ DOMAIN x.intrs[id] = 1..k
    BY <1>1
  <2>4. els = [e \in 1..k |-> [bl |-> match(y), rule |-> set_rule(n, x.intrs[id][e])]]
    BY <2>3 DEF StartElements, lab, n
  <2> HIDE DEF els, k, y, vs
  <2>5. ASSUME NEW e \in 1..k PROVE ElementOK(els[e], dims, vs)
    <3> DEFINE rule == set_rule(n, x.intrs[id][e])
    <3>1. els[e] = [bl |-> match(y), rule |-> rule]
      BY <2>4
    <3>2. RuleOK(rule)
      BY SetRuleRight
    <3> HIDE DEF rule
    <3>3. n \in Nat
      BY <1>1
    <3>4. ElementOK([bl |-> match(y), rule |-> rule], dims, vs)
      BY <1>2, <2>2, <3>2, <3>3, EitherLabeling
    <3> QED
      BY <3>1, <3>4
  <2>6. DOMAIN els = 1..k /\ els = [e \in 1..k |-> els[e]]
    BY <2>4
  <2>7. ElementsOK(els, dims, vs)
    BY <2>3, <2>5, <2>6 DEF ElementsOK
  <2> QED
    BY <1>3, <2>7 DEF els, vs
<1>6. ASSUME NEW id \in DOMAIN Tables \ DOMAIN x.intrs, NEW i \in N PROVE lab[id][i] = Blank(dims[i])
  <2>1. DOMAIN lab[id][i] = 0..(dims[i] - 1) /\ lab[id][i] = [k \in DOMAIN lab[id][i] |-> lab[id][i][k]]
    BY <1>1 DEF Vector
  <2>2. \A k \in DOMAIN lab[id][i] : lab[id][i][k] = invalid
    BY <1>1
  <2> QED
    BY <2>1, <2>2 DEF Blank
<1>7. DOMAIN sym = DOMAIN x.intrs
  BY <1>3
<1>8. TensorOK(sym, lab, n, dims)
  BY <1>1, <1>4, <1>5, <1>6, <1>7 DEF TensorOK
<1> QED
  BY <1>8 DEF sym, lab, n, dims

(* The permutations that the calls are made with.                          *)
LEMMA PermsRight ==
    ASSUME NEW n \in Nat, NEW p \in Perms(n)
    PROVE  p \in [0..(n - 1) -> 0..(n - 1)]
<1>1. Cycle(n) \in [0..(n - 1) -> 0..(n - 1)]
  BY CycleRight DEF Reorders
<1>2. SwapAt(Identity(n), 0, n - 1) \in [0..(n - 1) -> 0..(n - 1)]
  <2> DEFINE u == Identity(n)
             v == [u EXCEPT ![0] = u[n - 1], ![n - 1] = u[0]]
  <2>1. u \in [0..(n - 1) -> 0..(n - 1)] /\ (0 \in 0..(n - 1) <=> n - 1 \in 0..(n - 1))
    BY DEF Identity
  <2> HIDE DEF u
  <2>2. v \in [0..(n - 1) -> 0..(n - 1)]
    BY <2>1
  <2> QED
    BY <2>2 DEF SwapAt, u
<1> QED
  BY <1>1, <1>2 DEF Perms

(* The numbers that the calls give to the indexes.                         *)
LEMMA SeqsRight ==
    ASSUME NEW n \in Nat
    PROVE  /\ \A seq \in Steps(n) \cup Fixed(n) : DOMAIN seq = 0..(n - 1)
           /\ \A g \in Groups(n) : DOMAIN g[1] = 0..(n - 1)
BY DEF Steps, Fixed, Groups, OneEach

(* The labels of the tensor are those that the program gave its indexes.   *)
LInv == TensorOK(t.sym, t.lab, Order, DimsOf(t.lab))

(* The result of a call has its labels if the symmetry that the call makes *)
(* does.                                                                   *)
LEMMA KeepsLabels ==
    ASSUME NEW sym, NEW lab, NEW n, NEW dims, TensorOK(sym, lab, n, dims), NEW may, Result(sym, lab, may)
    PROVE  LInv'
<1>1. t'.sym = sym /\ t'.lab = lab
  BY DEF Result
<1>2. DimsOf(lab) = dims /\ OrderOf(lab) = n
  BY SizeOfLabels DEF TensorOK
<1>3. TensorOK(t'.sym, t'.lab, OrderOf(t'.lab), DimsOf(t'.lab))
  BY <1>1, <1>2
<1> QED
  BY <1>3 DEF LInv, Order

(* What each call makes of the labels.                                     *)
LEMMA CallsKeep ==
    ASSUME StartsOK, LInv
    PROVE  /\ \A p \in Perms(Order), keep_zero \in BOOLEAN : Permute1(p) \/ Apply1(p, keep_zero) => LInv'
           /\ \A mseq \in Steps(Order) : Merge(mseq) => LInv'
           /\ \A rseq \in Steps(Order) \cup Fixed(Order) : \A range : Reduce(rseq, range) => LInv'
           /\ \A g \in Groups(Order) : Symmetrize(g[1], g[2]) => LInv'
<1> DEFINE n == Order
           dims == DimsOf(t.lab)
<1>1. TensorOK(t.sym, t.lab, n, dims) /\ n \in Nat
  BY DEF LInv, TensorOK, LabelsOK
<1> HIDE DEF n, dims
<1>2. ASSUME NEW p \in Perms(Order), NEW keep_zero, Permute1(p) \/ Apply1(p, keep_zero) PROVE LInv'
  <2>1. p \in [0..(n - 1) -> 0..(n - 1)]
    BY <1>1, PermsRight DEF n
  <2>2. CASE Permute1(p)
    <3>1. PICK may : Result(so_permute(t.sym, p), PermutedLabels(t.lab, p), may)
      BY <2>2 DEF Permute1, OnLabels, PermutedLabels
    <3> QED
      BY <1>1, <2>1, <3>1, PermuteRight, KeepsLabels
  <2>3. CASE Apply1(p, keep_zero)
    <3>1. PICK may : Result(so_apply(t.sym, p, keep_zero), PermutedLabels(t.lab, p), may)
      BY <2>3 DEF Apply1, OnLabels, PermutedLabels
    <3> QED
      BY <1>1, <2>1, <3>1, ApplyRight, KeepsLabels
  <2> QED
    BY <1>2, <2>2, <2>3
<1>3. ASSUME NEW mseq \in Steps(Order), Merge(mseq) PROVE LInv'
  <2>1. DOMAIN mseq = 0..(n - 1)
    BY <1>1, SeqsRight DEF n
  <2> DEFINE S == Leaders(mseq)
  <2>2. PICK may : Result(so_merge(t.sym, mseq), OnlyLabels(t.lab, S), may)
    BY <1>3 DEF Merge, OnLabels, OnlyLabels
  <2>3. TensorOK(so_merge(t.sym, mseq), OnlyLabels(t.lab, S), Cardinality(S), Only(dims, S))
    BY <1>1, <2>1, MergeRight
  <2> HIDE DEF S
  <2> QED
    BY <2>2, <2>3, KeepsLabels
<1>4. ASSUME NEW rseq \in Steps(Order) \cup Fixed(Order), NEW range, Reduce(rseq, range) PROVE LInv'
  <2>1. DOMAIN rseq = 0..(n - 1)
    BY <1>1, SeqsRight DEF n
  <2> DEFINE S == KeptIndexes(rseq)
  <2>2. PICK may : Result(so_reduce(t.sym, rseq, range), OnlyLabels(t.lab, S), may)
    BY <1>4 DEF Reduce, OnLabels, OnlyLabels, KeptIndexes
  <2>3. TensorOK(so_reduce(t.sym, rseq, range), OnlyLabels(t.lab, S), Cardinality(S), Only(dims, S))
    BY <1>1, <2>1, ReduceRight
  <2> HIDE DEF S
  <2> QED
    BY <2>2, <2>3, KeepsLabels
<1>5. ASSUME NEW g \in Groups(Order), Symmetrize(g[1], g[2]) PROVE LInv'
  <2>1. DOMAIN g[1] = 0..(n - 1)
    BY <1>1, SeqsRight DEF n
  <2>2. PICK may : Result(so_symmetrize(t.sym, g[1], g[2]), t.lab, may)
    BY <1>5 DEF Symmetrize
  <2>3. TensorOK(so_symmetrize(t.sym, g[1], g[2]), t.lab, n, dims)
    BY <1>1, <2>1, SymmetrizeRight
  <2> QED
    BY <2>2, <2>3, KeepsLabels
<1> QED
  BY <1>2, <1>3, <1>4, <1>5

(* The product and the sum with another tensor keep all labels.            *)
LEMMA DirectKeeps ==
    ASSUME StartsOK, LInv, NEW x \in Starts
    PROVE  LET p == Cycle(Order + OrderOf(x.labels)) IN Dirprod(x, p) \/ Dirsum(x, p) => LInv'
<1> DEFINE n == Order
           dims == DimsOf(t.lab)
           m == OrderOf(x.labels)
           bdims == DimsOf(x.labels)
           symb == StartSymmetry(x)
           k == n + m
           p == Cycle(k)
           blab == BothLabels(p, t.lab, x.labels, n)
           both == Joint(p, dims, bdims, n)
           prod == so_dirprod(t.sym, n, symb, m, both, p)
           sum == so_dirsum(t.sym, n, symb, m, both, p)
<1>1. TensorOK(t.sym, t.lab, n, dims) /\ n \in Nat
  BY DEF LInv, TensorOK, LabelsOK
<1>2. TensorOK(symb, x.labels, m, bdims) /\ m \in Nat
  BY StartRight DEF TensorOK, LabelsOK
<1>3. Start(x).sym = symb
  BY DEF Start
<1> HIDE DEF n, m, dims, bdims, symb
<1>4. Reorders(p, 0..(k - 1))
  BY <1>1, <1>2, CycleRight
<1>5. TensorOK(prod, blab, k, both) /\ TensorOK(sum, blab, k, both)
  BY <1>1, <1>2, <1>4, DirectRight
<1>6. DimsOf(blab) = both
  BY <1>5, SizeOfLabels DEF TensorOK
<1>7. blab = [id \in DOMAIN t.lab |-> Apply(p, Beside(t.lab[id], x.labels[id], n))]
  BY DEF BothLabels, Joint
<1> HIDE DEF blab, both
<1>8. ASSUME Dirprod(x, p) PROVE LInv'
  <2>1. PICK may : Result(prod, blab, may)
    BY <1>3, <1>6, <1>7, <1>8 DEF Dirprod, n, m
  <2> HIDE DEF prod, p
  <2> QED
    BY <1>5, <2>1, KeepsLabels
<1>9. ASSUME Dirsum(x, p) PROVE LInv'
  <2>1. PICK may : Result(sum, blab, may)
    BY <1>3, <1>6, <1>7, <1>9 DEF Dirsum, n, m
  <2> HIDE DEF sum, p
  <2> QED
    BY <1>5, <2>1, KeepsLabels
<1> QED
  BY <1>8, <1>9 DEF n, m

(* LabelsKept is what the invariant says of each element.                  *)
LEMMA LabelsFollow ==
    ASSUME LInv
    PROVE  LabelsKept
<1> SUFFICES ASSUME NEW id \in DOMAIN t.sym, NEW e \in DOMAIN t.sym[id]
             PROVE  /\ {} \notin t.sym[id][e].rule
                    /\ \A i \in 0..(Order - 1) : Of(t.sym[id][e].bl, i) = t.lab[id][i]
  BY DEF LabelsKept, Of
<1>1. ElementsOK(t.sym[id], DimsOf(t.lab), t.lab[id]) /\ DOMAIN DimsOf(t.lab) = 0..(Order - 1)
  BY DEF LInv, TensorOK, LabelsOK
<1>2. ElementOK(t.sym[id][e], DimsOf(t.lab), t.lab[id])
  BY <1>1 DEF ElementsOK
<1> QED
  BY <1>1, <1>2 DEF ElementOK, RuleOK

(* Whatever is done to a labelled tensor, every index keeps the labels of  *)
(* its blocks and no product of a rule is empty (block_labeling and the    *)
(* operations on se_label), for any product tables, any numbers of indexes *)
(* and blocks, and any number of calls.                                    *)
THEOREM LabelsAlwaysKept == StartsOK => (LabelSpec => []LabelsKept)
<1> SUFFICES ASSUME StartsOK PROVE LabelSpec => []LabelsKept
  OBVIOUS
<1>1. LabelInit => LInv
  <2> SUFFICES ASSUME LabelInit PROVE LInv
    OBVIOUS
  <2>1. PICK x \in Starts : t = Start(x)
    BY DEF LabelInit
  <2>2. t.sym = StartSymmetry(x) /\ t.lab = x.labels
    BY <2>1 DEF Start
  <2>3. TensorOK(StartSymmetry(x), x.labels, OrderOf(x.labels), DimsOf(x.labels))
    BY StartRight
  <2> QED
    BY <2>2, <2>3 DEF LInv, Order
<1>2. LInv /\ [LabelNext]_t => LInv'
  <2> SUFFICES ASSUME LInv, [LabelNext]_t PROVE LInv'
    OBVIOUS
  <2>1. CASE \E p \in Perms(Order) : Permute1(p) \/ \E kz \in BOOLEAN : Apply1(p, kz)
    BY <2>1, CallsKeep
  <2>2. CASE \E x \in Starts : Order + OrderOf(x.labels) <= MaxOrder /\
                LET p == Cycle(Order + OrderOf(x.labels)) IN Dirprod(x, p) \/ Dirsum(x, p)
    BY <2>2, DirectKeeps
  <2>3. CASE \E seq \in Steps(Order) : EqualDims(seq) /\ (Merge(seq) \/ \E r \in Ranges(seq) : Reduce(seq, r))
    BY <2>3, CallsKeep
  <2>4. CASE \E seq \in Fixed(Order) : Order > 1 /\ \E r \in Ranges(seq) : Reduce(seq, r)
    BY <2>4, CallsKeep
  <2>5. CASE \E g \in Groups(Order) : Symmetrize(g[1], g[2])
    BY <2>5, CallsKeep
  <2>6. CASE UNCHANGED t
    BY <2>6 DEF LInv, Order
  <2> QED
    BY <2>1, <2>2, <2>3, <2>4, <2>5, <2>6 DEF LabelNext
<1>3. LInv => LabelsKept
  BY LabelsFollow
<1> QED
  BY <1>1, <1>2, <1>3, PTL DEF LabelSpec
==============================================================================
