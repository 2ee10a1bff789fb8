--------------------------- MODULE ServicesProofs ---------------------------
(***************************************************************************)
(* Theorems about RateLimit, for any windows, costs and sizes of a bucket, *)
(* and about the services together.                                        *)
(*                                                                         *)
(* WindowBounded is not inductive: it says nothing of the buckets that the *)
(* next request is judged by.  Tells relates them to the hits: what a      *)
(* window still reaches of a bucket is counted, nothing is counted twice,  *)
(* and a stamp is not older than the last hit that a window reaches, which *)
(* is why a cleanup may delete by stamps.  What a window counts then lies  *)
(* between the hits in it and those in it and one bucket more              *)
(* (CountBounds): the first bounds what is accepted, the second justifies  *)
(* what is refused.                                                        *)
(*                                                                         *)
(* The sums are those of the model: Total is a fold over a set in an order *)
(* that CHOOSE fixes.  Facts about it are proved by induction over the     *)
(* subsets of a finite set, as the absence of a smallest counterexample.   *)
(***************************************************************************)
EXTENDS MCServices, MonitorProofs, VaultProofs, ConnectionProofs, FiniteSetTheorems,
        WellFoundedInduction, TLAPS

-----------------------------------------------------------------------------
(* Sums over finite sets                                                   *)

(* Numbers have a least one.                                               *)
LEMMA LeastOf ==
  ASSUME NEW N \in SUBSET Nat, N # {}
  PROVE  \E n \in N : \A m \in N : n <= m
<1> DEFINE R == {ss \in Nat \X Nat : ss[1] < ss[2]}
<1>1. IsWellFoundedOn(R, Nat)
  BY NatLessThanWellFounded DEF OpToRel
<1> HIDE DEF R
<1>2. PICK n \in N : \A m \in N : <<m, n>> \notin R
  BY <1>1, WFMin
<1>3. ASSUME NEW m \in N PROVE n <= m
  <2>1. m \in Nat /\ n \in Nat /\ ~(<<m, n>> \in Nat \X Nat /\ m < n)
    BY <1>2 DEF R
  <2> QED
    BY <2>1
<1> QED
  BY <1>3

(* A family that holds a set as soon as it holds its proper subsets holds  *)
(* every subset of a finite set: else there is a smallest one without it.  *)
LEMMA SubsetInduction ==
  ASSUME NEW S, IsFiniteSet(S), NEW P,
         \A T \in SUBSET S : (\A U \in SUBSET T : U # T => U \in P) => T \in P
  PROVE  \A T \in SUBSET S : T \in P
<1> SUFFICES ASSUME NEW T0 \in SUBSET S, T0 \notin P PROVE FALSE
  OBVIOUS
<1>1. \A T \in SUBSET S : IsFiniteSet(T) /\ Cardinality(T) \in Nat
  BY FS_Subset, FS_CardinalityType
<1> DEFINE Sizes == {n \in Nat : \E T \in SUBSET S : T \notin P /\ Cardinality(T) = n}
<1>2. Cardinality(T0) \in Sizes
  BY <1>1
<1>3. PICK n \in Sizes : \A m \in Sizes : n <= m
  BY <1>2, LeastOf
<1>4. PICK T \in SUBSET S : T \notin P /\ Cardinality(T) = n
  BY <1>3
<1>5. PICK U \in SUBSET T : U # T /\ U \notin P
  BY <1>4
<1>6. Cardinality(U) \in Sizes /\ n <= Cardinality(U)
  BY <1>1, <1>3, <1>5
<1>7. Cardinality(U) <= Cardinality(T) /\ Cardinality(U) # Cardinality(T)
  BY <1>1, <1>5, FS_Subset
<1> QED
  BY <1>1, <1>4, <1>5, <1>6, <1>7

(* The first element that a sum over S adds.                               *)
PickOf(S) == CHOOSE x \in S : TRUE

(* A sum follows its recursion: the function that the definition chooses   *)
(* exists, and there is only one.                                          *)
LEMMA SumRecursion ==
  ASSUME NEW f, NEW S, IsFiniteSet(S)
  PROVE  \A T \in SUBSET S :
           Total(f, T) = IF T = {} THEN 0 ELSE f[PickOf(T)] + Total(f, T \ {PickOf(T)})
<1> DEFINE Rhs(T) == IF T = {} THEN 0 ELSE f[PickOf(T)] + Total(f, T \ {PickOf(T)})
           P == {T \in SUBSET S : Total(f, T) = Rhs(T)}
<1>1. ASSUME NEW T \in SUBSET S, \A U \in SUBSET T : U # T => U \in P PROVE T \in P
  <2> DEFINE Solves(h) == h = [s \in SUBSET T |->
               IF s = {} THEN 0 ELSE f[PickOf(s)] + h[s \ {PickOf(s)}]]
             g == [s \in SUBSET T |-> Rhs(s)]
             it == CHOOSE h : Solves(h)
  <2>1. \A s \in SUBSET T : s # {} => PickOf(s) \in s
    BY DEF PickOf
  <2>2. \A s \in SUBSET T : s # T => Total(f, s) = Rhs(s)
    BY <1>1
  <2>3. Total(f, T) = it[T]
    BY DEF Total, MapThenSumSet, MapThenFoldSet, PickOf
  <2>4. Solves(g)
    <3>1. ASSUME NEW s \in SUBSET T, s # {} PROVE g[s \ {PickOf(s)}] = Total(f, s \ {PickOf(s)})
      <4>1. s \ {PickOf(s)} \in SUBSET T /\ s \ {PickOf(s)} # T
        BY <2>1, <3>1
      <4> HIDE DEF Rhs
      <4> QED
        BY <4>1, <2>2
    <3> QED
      BY <3>1
  <2> HIDE DEF g
  <2>5. Solves(it)
    BY <2>4
  <2> HIDE DEF it
  <2>6. ASSUME NEW s \in SUBSET T PROVE it[s] = g[s]
    <3> DEFINE Q == {u \in SUBSET T : it[u] = g[u]}
    <3>1. IsFiniteSet(T)
      BY FS_Subset
    <3>2. ASSUME NEW u \in SUBSET T, \A v \in SUBSET u : v # u => v \in Q PROVE u \in Q
      <4>1. CASE u = {}
        BY <4>1, <2>4, <2>5
      <4>2. CASE u # {}
        <5>1. u \ {PickOf(u)} \in Q
          BY <2>1, <3>2, <4>2
        <5> QED
          BY <4>2, <5>1, <2>4, <2>5
      <4> QED
        BY <4>1, <4>2
    <3>3. \A u \in SUBSET T : u \in Q
      <4> HIDE DEF Q
      <4> QED
        BY <3>1, <3>2, SubsetInduction
    <3> QED
      BY <3>3
  <2>7. g[T] = Rhs(T)
    BY DEF g
  <2> QED
    BY <2>3, <2>6, <2>7
<1>2. \A T \in SUBSET S : T \in P
  <2> HIDE DEF P
  <2> QED
    BY <1>1, SubsetInduction
<1> QED
  BY <1>2

(* Nothing adds up to zero, and counts to a count.                         *)
LEMMA SumType ==
  ASSUME NEW f, NEW S, IsFiniteSet(S), \A x \in S : f[x] \in Nat
  PROVE  Total(f, {}) = 0 /\ \A T \in SUBSET S : Total(f, T) \in Nat
<1> DEFINE P == {T \in SUBSET S : Total(f, T) \in Nat}
<1>1. ASSUME NEW T \in SUBSET S, \A U \in SUBSET T : U # T => U \in P PROVE T \in P
  <2>1. Total(f, T) = IF T = {} THEN 0 ELSE f[PickOf(T)] + Total(f, T \ {PickOf(T)})
    BY SumRecursion
  <2>2. CASE T # {}
    <3>1. PickOf(T) \in T
      BY <2>2 DEF PickOf
    <3>2. T \ {PickOf(T)} \in P
      BY <1>1, <3>1
    <3> QED
      BY <2>1, <2>2, <3>1, <3>2
  <2> QED
    BY <2>1, <2>2
<1>2. \A T \in SUBSET S : T \in P
  <2> HIDE DEF P
  <2> QED
    BY <1>1, SubsetInduction
<1>3. Total(f, {}) = 0
  BY SumRecursion
<1> QED
  BY <1>2, <1>3

(* A sum does not depend on the order: any element may be taken out first. *)
LEMMA SumRemove ==
  ASSUME NEW f, NEW S, IsFiniteSet(S), \A x \in S : f[x] \in Nat
  PROVE  \A T \in SUBSET S : \A x \in T : Total(f, T) = f[x] + Total(f, T \ {x})
<1> DEFINE P == {T \in SUBSET S : \A x \in T : Total(f, T) = f[x] + Total(f, T \ {x})}
<1>0. \A T \in SUBSET S : Total(f, T) \in Nat
  BY SumType
<1>1. ASSUME NEW T \in SUBSET S, \A U \in SUBSET T : U # T => U \in P PROVE T \in P
  <2> SUFFICES ASSUME NEW x \in T PROVE Total(f, T) = f[x] + Total(f, T \ {x})
    OBVIOUS
  <2> DEFINE y == PickOf(T)
  <2>1. y \in T
    BY DEF PickOf
  <2>2. Total(f, T) = f[y] + Total(f, T \ {y})
    BY SumRecursion
  <2> HIDE DEF y
  <2>3. CASE x # y
    <3>1. /\ T \ {x} \in P /\ T \ {y} \in P /\ y \in T \ {x} /\ x \in T \ {y}
          /\ (T \ {x}) \ {y} = (T \ {y}) \ {x}
      BY <1>1, <2>1, <2>3
    <3>2. /\ Total(f, T \ {y}) = f[x] + Total(f, (T \ {y}) \ {x})
          /\ Total(f, T \ {x}) = f[y] + Total(f, (T \ {x}) \ {y})
      BY <3>1
    <3> DEFINE rest == Total(f, (T \ {y}) \ {x})
    <3>3. rest \in Nat /\ f[x] \in Nat /\ f[y] \in Nat
      BY <1>0, <2>1
    <3> QED
      BY <2>2, <3>1, <3>2, <3>3
  <2> QED
    BY <2>2, <2>3
<1>2. \A T \in SUBSET S : T \in P
  <2> HIDE DEF P
  <2> QED
    BY <1>1, SubsetInduction
<1> QED
  BY <1>2

(* A sum is at most another one that counts as much of everything it       *)
(* counts at all.                                                          *)
LEMMA SumOrder ==
  ASSUME NEW f, NEW g, NEW S, IsFiniteSet(S),
         \A x \in S : f[x] \in Nat /\ g[x] \in Nat
  PROVE  \A T \in SUBSET S, U \in SUBSET S :
           (\A x \in T : f[x] # 0 => x \in U /\ f[x] <= g[x]) => Total(f, T) <= Total(g, U)
<1> DEFINE Below(T, U) == \A x \in T : f[x] # 0 => x \in U /\ f[x] <= g[x]
           P == {T \in SUBSET S : \A U \in SUBSET S : Below(T, U) => Total(f, T) <= Total(g, U)}
<1>0. \A T \in SUBSET S : Total(f, T) \in Nat /\ Total(g, T) \in Nat
  BY SumType
<1>1. ASSUME NEW T \in SUBSET S, \A V \in SUBSET T : V # T => V \in P PROVE T \in P
  <2> SUFFICES ASSUME NEW U \in SUBSET S, Below(T, U) PROVE Total(f, T) <= Total(g, U)
    OBVIOUS
  <2>1. CASE T = {}
    BY <1>0, <2>1, SumType
  <2>2. CASE T # {}
    <3>1. PICK x \in T : TRUE
      BY <2>2
    <3>2. Total(f, T) = f[x] + Total(f, T \ {x}) /\ T \ {x} \in P
      BY <1>1, SumRemove
    <3>3. CASE f[x] = 0
      <4>1. Below(T \ {x}, U)
        OBVIOUS
      <4>2. Total(f, T \ {x}) <= Total(g, U)
        BY <3>2, <4>1
      <4> QED
        BY <1>0, <3>2, <3>3, <4>2
    <3>4. CASE f[x] # 0
      <4>1. x \in U /\ f[x] <= g[x] /\ Below(T \ {x}, U \ {x})
        BY <3>4
      <4>2. Total(g, U) = g[x] + Total(g, U \ {x})
        BY <4>1, SumRemove
      <4>3. Total(f, T \ {x}) <= Total(g, U \ {x})
        BY <3>2, <4>1
      <4>4. /\ Total(f, T \ {x}) \in Nat /\ Total(g, U \ {x}) \in Nat
            /\ f[x] \in Nat /\ g[x] \in Nat
        BY <1>0, <4>1
      <4> QED
        BY <3>2, <4>1, <4>2, <4>3, <4>4
    <3> QED
      BY <3>3, <3>4
  <2> QED
    BY <2>1, <2>2
<1>2. \A T \in SUBSET S : T \in P
  <2> HIDE DEF P
  <2> QED
    BY <1>1, SubsetInduction
<1> QED
  BY <1>2

(* The sum over two disjoint sets is that of the sums.                     *)
LEMMA SumUnion ==
  ASSUME NEW f, NEW S, IsFiniteSet(S), \A x \in S : f[x] \in Nat
  PROVE  \A T \in SUBSET S, U \in SUBSET S :
           T \cap U = {} => Total(f, T \cup U) = Total(f, T) + Total(f, U)
<1> DEFINE P == {T \in SUBSET S : \A U \in SUBSET S :
                   T \cap U = {} => Total(f, T \cup U) = Total(f, T) + Total(f, U)}
<1>0. \A T \in SUBSET S : Total(f, T) \in Nat
  BY SumType
<1>1. ASSUME NEW T \in SUBSET S, \A V \in SUBSET T : V # T => V \in P PROVE T \in P
  <2> SUFFICES ASSUME NEW U \in SUBSET S, T \cap U = {}
               PROVE  Total(f, T \cup U) = Total(f, T) + Total(f, U)
    OBVIOUS
  <2>1. CASE T = {}
    <3>1. T \cup U = U /\ Total(f, T) = 0
      BY <2>1, SumType
    <3> QED
      BY <1>0, <3>1
  <2>2. CASE T # {}
    <3>1. PICK x \in T : TRUE
      BY <2>2
    <3>2. /\ T \ {x} \in P /\ (T \ {x}) \cap U = {} /\ T \cup U \in SUBSET S /\ x \in T \cup U
          /\ (T \cup U) \ {x} = (T \ {x}) \cup U
      BY <1>1
    <3>3. /\ Total(f, T) = f[x] + Total(f, T \ {x})
          /\ Total(f, T \cup U) = f[x] + Total(f, (T \cup U) \ {x})
      BY <3>2, SumRemove
    <3>4. Total(f, (T \ {x}) \cup U) = Total(f, T \ {x}) + Total(f, U)
      BY <3>2
    <3>5. f[x] \in Nat /\ Total(f, T \ {x}) \in Nat /\ Total(f, U) \in Nat
      BY <1>0
    <3> QED
      BY <3>2, <3>3, <3>4, <3>5
  <2> QED
    BY <2>1, <2>2
<1>2. \A T \in SUBSET S : T \in P
  <2> HIDE DEF P
  <2> QED
    BY <1>1, SubsetInduction
<1> QED
  BY <1>2

(* On S, g is f with c more at y.                                          *)
Adds(g, f, S, y, c) ==
  /\ y \in S /\ c \in Nat /\ \A x \in S : f[x] \in Nat
  /\ g[y] = f[y] + c /\ \A x \in S \ {y} : g[x] = f[x]

(* The cost c more for one element is c more in all.                       *)
LEMMA SumMore ==
  ASSUME NEW S, IsFiniteSet(S), NEW f, NEW g, NEW y, NEW c, Adds(g, f, S, y, c)
  PROVE  \A T \in SUBSET S : Total(g, T) = Total(f, T) + (IF y \in T THEN c ELSE 0)
<1>0. /\ y \in S /\ c \in Nat /\ \A x \in S : f[x] \in Nat
      /\ g[y] = f[y] + c /\ \A x \in S \ {y} : g[x] = f[x]
  BY DEF Adds
<1> SUFFICES ASSUME NEW T \in SUBSET S
             PROVE  Total(g, T) = Total(f, T) + (IF y \in T THEN c ELSE 0)
  OBVIOUS
<1>1. \A x \in S : g[x] \in Nat
  <2>1. f[y] \in Nat
    BY <1>0
  <2> QED
    BY <1>0, <2>1
<1>2. \A U \in SUBSET S : Total(f, U) \in Nat /\ Total(g, U) \in Nat
  BY <1>0, <1>1, SumType
<1>3. \A U \in SUBSET S : y \notin U => Total(f, U) = Total(g, U)
  <2>1. \A x \in S : f[x] \in Nat /\ g[x] \in Nat
    BY <1>0, <1>1
  <2>2. ASSUME NEW U \in SUBSET S, y \notin U
        PROVE  Total(f, U) <= Total(g, U) /\ Total(g, U) <= Total(f, U)
    <3>1. \A x \in U : f[x] # 0 => x \in U /\ f[x] <= g[x]
      BY <1>0, <1>1, <2>2
    <3>2. \A x \in U : g[x] # 0 => x \in U /\ g[x] <= f[x]
      BY <1>0, <1>1, <2>2
    <3>3. Total(f, U) <= Total(g, U)
      BY <2>1, <3>1, SumOrder
    <3>4. Total(g, U) <= Total(f, U)
      BY <2>1, <3>2, SumOrder
    <3> QED
      BY <3>3, <3>4
  <2> QED
    BY <1>2, <2>2
<1>4. CASE y \in T
  <2>1. Total(f, T) = f[y] + Total(f, T \ {y})
    BY <1>0, <1>4, SumRemove
  <2>2. Total(g, T) = g[y] + Total(g, T \ {y})
    BY <1>1, <1>4, SumRemove
  <2>3. Total(f, T \ {y}) = Total(g, T \ {y}) /\ Total(f, T \ {y}) \in Nat /\ f[y] \in Nat
    BY <1>0, <1>2, <1>3
  <2>4. Total(g, T) = Total(f, T) + c
    BY <1>0, <1>1, <2>1, <2>2, <2>3
  <2> QED
    BY <1>4, <2>4
<1>5. CASE y \notin T
  <2>1. Total(g, T) = Total(f, T) + 0
    BY <1>2, <1>3, <1>5
  <2> QED
    BY <1>5, <2>1
<1> QED
  BY <1>4, <1>5

(* The instants of S that are in one of the buckets B.                     *)
InBuckets(S, B) == {t \in S : BucketOf(t) \in B}
InBucket(S, b) == {t \in S : BucketOf(t) = b}

(* Adding up what each bucket holds is adding up what all of them hold.    *)
LEMMA SumByBucket ==
  ASSUME NEW f, NEW S, IsFiniteSet(S), \A x \in S : f[x] \in Nat,
         NEW g, NEW B, IsFiniteSet(B),
         \A b \in B : g[b] = Total(f, InBucket(S, b))
  PROVE  Total(g, B) = Total(f, InBuckets(S, B))
<1> DEFINE In(C) == InBuckets(S, C)
           One(b) == InBucket(S, b)
           P == {C \in SUBSET B : Total(g, C) = Total(f, In(C))}
<1>0. /\ \A T \in SUBSET S : Total(f, T) \in Nat
      /\ \A b \in B : g[b] \in Nat
  <2>1. \A T \in SUBSET S : Total(f, T) \in Nat
    BY SumType
  <2>2. \A b \in B : InBucket(S, b) \in SUBSET S
    BY DEF InBuckets, InBucket
  <2> QED
    BY <2>1, <2>2
<1>1. ASSUME NEW C \in SUBSET B, \A D \in SUBSET C : D # C => D \in P PROVE C \in P
  <2>1. CASE C = {}
    <3>1. In(C) = {} /\ Total(f, {}) = 0 /\ Total(g, {}) = 0
      BY <1>0, <2>1, SumType DEF InBuckets, InBucket
    <3> QED
      BY <2>1, <3>1
  <2>2. CASE C # {}
    <3>1. PICK b \in C : TRUE
      BY <2>2
    <3>2. /\ In(C) = One(b) \cup In(C \ {b}) /\ One(b) \cap In(C \ {b}) = {}
          /\ One(b) \in SUBSET S /\ In(C \ {b}) \in SUBSET S
      BY <3>1 DEF InBuckets, InBucket
    <3>3. Total(g, C \ {b}) = Total(f, In(C \ {b}))
      BY <1>1, <3>1
    <3>4. Total(g, C) = g[b] + Total(g, C \ {b})
      BY <1>0, <3>1, SumRemove
    <3>5. g[b] = Total(f, One(b))
      BY <3>1
    <3> HIDE DEF In, One
    <3>6. \A T \in SUBSET S, U \in SUBSET S :
            T \cap U = {} => Total(f, T \cup U) = Total(f, T) + Total(f, U)
      BY SumUnion
    <3>7. Total(f, In(C)) = Total(f, One(b)) + Total(f, In(C \ {b}))
      BY <3>2, <3>6
    <3>8. Total(g, C) = Total(f, In(C))
      BY <3>3, <3>4, <3>5, <3>7
    <3> QED
      BY <3>8 DEF In
  <2> QED
    BY <2>1, <2>2
<1>2. \A C \in SUBSET B : C \in P
  <2> HIDE DEF P
  <2> QED
    BY <1>1, SubsetInduction
<1> QED
  BY <1>2

-----------------------------------------------------------------------------
(* Buckets and the widest window                                           *)

(* A bucket begins at or before its instants, and ends after them.         *)
LEMMA BucketRange ==
  ASSUME NEW t \in Int
  PROVE  BucketOf(t) \in Int /\ BucketOf(t) <= t /\ t < BucketOf(t) + BucketSize
<1>1. BucketSize \in Nat /\ BucketSize > 0
  BY LimitAssumption
<1> QED
  BY <1>1 DEF BucketOf

(* Later instants are not in earlier buckets.                              *)
LEMMA BucketOrder ==
  ASSUME NEW t \in Int, NEW u \in Int, t <= u
  PROVE  BucketOf(t) <= BucketOf(u)
<1>1. BucketSize \in Nat /\ BucketSize > 0
  BY LimitAssumption
<1>2. t \div BucketSize \in Int /\ u \div BucketSize \in Int
  BY <1>1
<1>3. t \div BucketSize <= u \div BucketSize
  BY <1>1
<1> QED
  BY <1>1, <1>2, <1>3 DEF BucketOf

(* Finite sets of numbers have a largest element.                          *)
LEMMA MaxOf ==
  ASSUME NEW S \in SUBSET Nat, IsFiniteSet(S), S # {}
  PROVE  Max(S) \in S /\ \A x \in S : x <= Max(S)
<1> DEFINE P == {T \in SUBSET S : T = {} \/ \E m \in T : \A x \in T : x <= m}
<1>1. ASSUME NEW T \in SUBSET S, \A U \in SUBSET T : U # T => U \in P PROVE T \in P
  <2> SUFFICES ASSUME NEW y \in T PROVE \E m \in T : \A x \in T : x <= m
    OBVIOUS
  <2>1. T \ {y} \in P
    BY <1>1
  <2>2. CASE T \ {y} = {}
    BY <2>2
  <2>3. CASE T \ {y} # {}
    <3>1. PICK m \in T \ {y} : \A x \in T \ {y} : x <= m
      BY <2>1, <2>3
    <3>2. m \in Nat /\ y \in Nat /\ \A x \in T : x \in Nat
      OBVIOUS
    <3>3. CASE y <= m
      BY <3>1, <3>3
    <3>4. CASE ~(y <= m)
      BY <3>1, <3>2, <3>4
    <3> QED
      BY <3>3, <3>4
  <2> QED
    BY <2>2, <2>3
<1>2. S \in P
  <2> HIDE DEF P
  <2> QED
    BY <1>1, SubsetInduction
<1>3. \E m \in S : \A x \in S : m >= x
  <2>1. PICK m \in S : \A x \in S : x <= m
    BY <1>2
  <2>2. \A x \in S : m >= x
    BY <2>1
  <2> QED
    BY <2>2
<1>4. Max(S) \in S /\ \A x \in S : Max(S) >= x
  BY <1>3 DEF Max
<1> QED
  BY <1>4

(* The widest window is as wide as any, and no request costs more than the *)
(* largest cost.                                                           *)
LEMMA Widest ==
  /\ \A w \in Windows : MaxWindow \in Nat /\ w.size <= MaxWindow
  /\ MaxCost \in Nat /\ \A c \in Costs : c <= MaxCost
<1>1. \A w \in Windows : w.size \in Nat /\ w.limit \in Nat
  BY LimitAssumption
<1>2. ASSUME NEW w \in Windows PROVE MaxWindow \in Nat /\ w.size <= MaxWindow
  <2> DEFINE sizes == {v.size : v \in Windows}
             size == [v \in Windows |-> v.size]
  <2>1. size \in Surjection(Windows, sizes)
    BY DEF Surjection
  <2>2. IsFiniteSet(sizes)
    BY <2>1, FS_Surjection, LimitAssumption
  <2>3. sizes \subseteq Nat /\ w.size \in sizes
    BY <1>1
  <2>4. MaxWindow = Max(sizes)
    BY DEF MaxWindow
  <2> HIDE DEF sizes
  <2> QED
    BY <2>2, <2>3, <2>4, MaxOf
<1>3. MaxCost \in Nat /\ \A c \in Costs : c <= MaxCost
  <2>1. Costs \in SUBSET Nat /\ IsFiniteSet(Costs) /\ Costs # {}
    BY LimitAssumption
  <2> QED
    BY <2>1, MaxOf DEF MaxCost
<1> QED
  BY <1>2, <1>3

(* The instants have buckets, finitely many, and none is counted at first. *)
LEMMA BucketTypes ==
  /\ \A t \in Times : BucketOf(t) \in Buckets
  /\ 0 \in Times /\ Nothing \in [Buckets -> [count : Nat, stamp : Times]]
  /\ Times \subseteq Nat /\ Buckets \subseteq Nat
  /\ IsFiniteSet(Times) /\ IsFiniteSet(Buckets)
<1>1. 0 \in Times /\ Times \subseteq Nat /\ IsFiniteSet(Times)
  BY LimitAssumption, FS_Interval DEF Times
<1>2. ASSUME NEW t \in Times PROVE BucketOf(t) \in Times
  <2>1. t \in Int /\ 0 <= t /\ t <= MaxTime /\ MaxTime \in Int
    BY LimitAssumption DEF Times
  <2>2. BucketOf(0) = 0
    BY LimitAssumption DEF BucketOf
  <2>3. BucketOf(0) <= BucketOf(t) /\ BucketOf(t) \in Int /\ BucketOf(t) <= t
    BY <2>1, BucketOrder, BucketRange
  <2> QED
    BY <2>1, <2>2, <2>3 DEF Times
<1>3. Buckets \subseteq Times
  BY <1>2 DEF Buckets
<1>4. IsFiniteSet(Buckets)
  BY <1>1, <1>3, FS_Subset
<1> QED
  BY <1>1, <1>3, <1>4 DEF Buckets, Nothing, NoBucket

-----------------------------------------------------------------------------
(* What the buckets tell of the hits                                       *)

Since(s) == {t \in Times : s <= t}
Hits(b) == InBucket(Times, b)
HitsSince(b, s) == InBucket(Since(s), b)

(* Buckets bk tell of the hits u at the instant n: a bucket counts at most *)
(* the hits in it, at least those that a window still reaches, and bears   *)
(* the time of the last of these.                                          *)
Tells(bk, u, n) ==
  /\ \A t \in Times : n < t => u[t] = 0
  /\ \A b \in Buckets : bk[b].count <= Total(u, Hits(b))
  /\ \A b \in Buckets, w \in Windows : Total(u, HitsSince(b, n - w.size)) <= bk[b].count
  /\ \A t \in Times, w \in Windows :
       u[t] # 0 /\ n - w.size <= t => t <= bk[BucketOf(t)].stamp

(* What a bucket, an instant and a window are.                             *)
LEMMA BucketsAndWindows ==
  /\ \A st \in StateType, b \in Buckets :
       st.buckets[b].count \in Nat /\ st.buckets[b].stamp \in Times
  /\ \A w \in Windows : w.size \in Nat /\ w.limit \in Nat /\ w.limit >= 1
  /\ \A b, s : Hits(b) \in SUBSET Times /\ HitsSince(b, s) \in SUBSET Times
<1>1. ASSUME NEW st \in StateType, NEW b \in Buckets
      PROVE  st.buckets[b].count \in Nat /\ st.buckets[b].stamp \in Times
  <2>1. st.buckets \in [Buckets -> [count : Nat, stamp : Times]]
    BY DEF StateType
  <2>2. st.buckets[b] \in [count : Nat, stamp : Times]
    BY <2>1
  <2> QED
    BY <2>2
<1> QED
  BY <1>1, LimitAssumption DEF Hits, HitsSince, Since, InBucket

(* A cleanup drops no hit that a window still reaches: those of a bucket   *)
(* it deletes are older than the bucket's stamp.                           *)
LEMMA CleanupTells ==
  ASSUME now \in Times, NEW st \in StateType, NEW u \in [Times -> Nat],
         Tells(st.buckets, u, now)
  PROVE  Tells(Cleanup(st).buckets, u, now)
<1> DEFINE old == {b \in Buckets : /\ st.buckets[b] # NoBucket
                                   /\ st.buckets[b].stamp < now - MaxWindow}
           bk == [b \in Buckets |-> IF b \in old THEN NoBucket ELSE st.buckets[b]]
<1>1. Cleanup(st) = st \/ Cleanup(st).buckets = bk
  BY DEF Cleanup
<1>2. /\ \A t \in Times : t \in Int /\ u[t] \in Nat /\ BucketOf(t) \in Buckets
      /\ now \in Int
  BY BucketTypes
<1>3. ASSUME NEW t \in Times, NEW w \in Windows, u[t] # 0, now - w.size <= t
      PROVE  BucketOf(t) \notin old
  <2>1. t <= st.buckets[BucketOf(t)].stamp
    BY <1>3 DEF Tells
  <2>2. st.buckets[BucketOf(t)].stamp \in Int
    BY <1>2, BucketTypes, BucketsAndWindows
  <2>3. w.size \in Nat /\ MaxWindow \in Nat /\ w.size <= MaxWindow
    BY Widest, BucketsAndWindows
  <2> QED
    BY <1>2, <1>3, <2>1, <2>2, <2>3
<1>4. \A b \in old : bk[b].count = 0
  BY DEF NoBucket
<1>5. \A b \in Buckets \ old : bk[b] = st.buckets[b]
  OBVIOUS
<1> HIDE DEF old, bk
<1>6. ASSUME NEW b \in Buckets PROVE bk[b].count <= Total(u, Hits(b))
  <2>1. Total(u, Hits(b)) \in Nat
    BY <1>2, BucketTypes, BucketsAndWindows, SumType
  <2>2. CASE b \in old
    BY <1>4, <2>1, <2>2
  <2>3. CASE b \notin old
    BY <1>5, <2>3 DEF Tells
  <2> QED
    BY <2>2, <2>3
<1>7. ASSUME NEW b \in Buckets, NEW w \in Windows
      PROVE  Total(u, HitsSince(b, now - w.size)) <= bk[b].count
  <2>1. CASE b \in old
    <3>1. \A t \in HitsSince(b, now - w.size) : u[t] = 0
      BY <1>3, <2>1 DEF HitsSince, Hits, Since, InBucket
    <3>2. Total(u, HitsSince(b, now - w.size)) <= Total(u, {})
      BY <1>2, <3>1, BucketTypes, BucketsAndWindows, SumOrder
    <3>3. Total(u, {}) = 0
      BY <1>2, BucketTypes, SumType
    <3> QED
      BY <1>4, <2>1, <3>2, <3>3
  <2>2. CASE b \notin old
    BY <1>5, <2>2 DEF Tells
  <2> QED
    BY <2>1, <2>2
<1>8. ASSUME NEW t \in Times, NEW w \in Windows, u[t] # 0, now - w.size <= t
      PROVE  t <= bk[BucketOf(t)].stamp
  BY <1>2, <1>3, <1>5, <1>8 DEF Tells
<1>9. Tells(bk, u, now)
  BY <1>6, <1>7, <1>8 DEF Tells
<1> QED
  BY <1>1, <1>9

(* A hit is counted in the bucket of its instant.                          *)
LEMMA HitTells ==
  ASSUME now \in Times, NEW st \in StateType, NEW u \in [Times -> Nat], NEW cost \in Costs,
         Tells(st.buckets, u, now)
  PROVE  Tells(Hit(st, cost).buckets, [u EXCEPT ![now] = @ + cost], now)
<1> DEFINE v == [u EXCEPT ![now] = @ + cost]
           bk == Hit(st, cost).buckets
           home == BucketOf(now)
<1>1. /\ \A t \in Times : t \in Int /\ u[t] \in Nat /\ BucketOf(t) \in Buckets
      /\ now \in Int /\ cost \in Nat /\ home \in Buckets
  BY BucketTypes, LimitAssumption
<1>2. /\ bk[home].count = st.buckets[home].count + cost /\ bk[home].stamp = now
      /\ \A b \in Buckets \ {home} : bk[b] = st.buckets[b]
  <2>1. st.buckets \in [Buckets -> [count : Nat, stamp : Times]]
    BY DEF StateType
  <2>2. bk = [st.buckets EXCEPT ![home] = [count |-> @.count + cost, stamp |-> now]]
    BY DEF Hit, StateType
  <2> HIDE DEF bk, home
  <2> QED
    BY <1>1, <2>1, <2>2
<1>3. /\ v[now] = u[now] + cost /\ \A t \in Times \ {now} : v[t] = u[t]
  OBVIOUS
<1>4. \A T \in SUBSET Times : Total(v, T) = Total(u, T) + (IF now \in T THEN cost ELSE 0)
  <2>1. IsFiniteSet(Times)
    BY BucketTypes
  <2>2. Adds(v, u, Times, now, cost)
    BY <1>1, <1>3 DEF Adds
  <2> HIDE DEF v
  <2> QED
    BY <2>1, <2>2, SumMore
<1>5. \A T \in SUBSET Times : Total(u, T) \in Nat
  BY <1>1, BucketTypes, SumType
<1> HIDE DEF v, bk
<1>6. ASSUME NEW b \in Buckets PROVE bk[b].count <= Total(v, Hits(b))
  <2>1. Hits(b) \in SUBSET Times /\ (now \in Hits(b) <=> b = home)
    BY DEF Hits, InBucket
  <2>2. st.buckets[b].count <= Total(u, Hits(b)) /\ st.buckets[b].count \in Nat
    BY BucketsAndWindows DEF Tells
  <2>3. Total(v, Hits(b)) = Total(u, Hits(b)) + (IF b = home THEN cost ELSE 0)
    BY <1>4, <2>1
  <2>4. bk[b].count = st.buckets[b].count + (IF b = home THEN cost ELSE 0)
    BY <1>2, <2>2
  <2> HIDE DEF home
  <2> QED
    BY <1>1, <1>5, <2>1, <2>2, <2>3, <2>4
<1>7. ASSUME NEW b \in Buckets, NEW w \in Windows
      PROVE  Total(v, HitsSince(b, now - w.size)) <= bk[b].count
  <2> DEFINE T == HitsSince(b, now - w.size)
  <2>1. w.size \in Nat
    BY BucketsAndWindows
  <2>2. T \in SUBSET Times /\ (now \in T <=> b = home)
    BY <1>1, <2>1 DEF HitsSince, Hits, Since, InBucket
  <2>3. Total(u, T) <= st.buckets[b].count /\ st.buckets[b].count \in Nat
    BY BucketsAndWindows DEF Tells
  <2>4. Total(v, T) = Total(u, T) + (IF b = home THEN cost ELSE 0)
    BY <1>4, <2>2
  <2>5. bk[b].count = st.buckets[b].count + (IF b = home THEN cost ELSE 0)
    BY <1>2, <2>3
  <2>6. Total(u, T) \in Nat
    BY <1>5, <2>2
  <2> HIDE DEF T, home
  <2>7. Total(v, T) <= bk[b].count
    BY <1>1, <2>3, <2>4, <2>5, <2>6
  <2> QED
    BY <2>7 DEF T
<1>8. ASSUME NEW t \in Times, NEW w \in Windows, v[t] # 0, now - w.size <= t
      PROVE  t <= bk[BucketOf(t)].stamp
  <2>1. t <= now
    BY <1>1, <1>3, <1>8 DEF Tells
  <2>2. CASE BucketOf(t) = home
    BY <1>2, <2>1, <2>2
  <2>3. CASE BucketOf(t) # home
    BY <1>1, <1>2, <1>3, <1>8, <2>3 DEF Tells
  <2> QED
    BY <2>2, <2>3
<1>9. \A t \in Times : now < t => v[t] = 0
  BY <1>1, <1>3 DEF Tells
<1>10. Tells(bk, v, now)
  BY <1>6, <1>7, <1>8, <1>9 DEF Tells
<1> QED
  BY <1>10 DEF v, bk

(* Time leaves fewer hits that a window reaches.                           *)
LEMMA TimeTells ==
  ASSUME NEW n \in Times, NEW m \in Times, m = n + 1, NEW st \in StateType,
         NEW u \in [Times -> Nat], Tells(st.buckets, u, n)
  PROVE  Tells(st.buckets, u, m)
<1>1. \A t \in Times : t \in Int /\ u[t] \in Nat
  BY BucketTypes
<1>2. n \in Int /\ \A w \in Windows : w.size \in Nat
  <2>1. \A w \in Windows : w.size \in Nat
    BY BucketsAndWindows
  <2> QED
    BY <1>1, <2>1
<1>3. ASSUME NEW b \in Buckets, NEW w \in Windows
      PROVE  Total(u, HitsSince(b, m - w.size)) <= st.buckets[b].count
  <2> DEFINE T == HitsSince(b, m - w.size)
             U == HitsSince(b, n - w.size)
  <2>1. T \in SUBSET Times /\ U \in SUBSET Times
    BY DEF HitsSince, Hits, Since, InBucket
  <2>2. ASSUME NEW t \in T PROVE t \in U
    <3>1. t \in Hits(b) /\ t \in Times /\ m - w.size <= t
      BY DEF HitsSince, Hits, Since, InBucket
    <3>2. n - w.size <= t
      BY <1>1, <1>2, <3>1
    <3> QED
      BY <3>1, <3>2 DEF HitsSince, Hits, Since, InBucket
  <2>3. Total(u, U) <= st.buckets[b].count /\ st.buckets[b].count \in Nat
    BY BucketsAndWindows DEF Tells
  <2> HIDE DEF T, U
  <2>4. \A t \in T : u[t] # 0 => t \in U /\ u[t] <= u[t]
    BY <1>1, <2>1, <2>2
  <2>5. IsFiniteSet(Times)
    BY BucketTypes
  <2>6. Total(u, T) <= Total(u, U)
    BY <1>1, <2>1, <2>4, <2>5, SumOrder
  <2>7. Total(u, T) \in Nat /\ Total(u, U) \in Nat
    BY <1>1, <2>1, <2>5, SumType
  <2>8. Total(u, T) <= st.buckets[b].count
    BY <2>3, <2>6, <2>7
  <2> QED
    BY <2>8 DEF T
<1>4. ASSUME NEW t \in Times, NEW w \in Windows, u[t] # 0, m - w.size <= t
      PROVE  t <= st.buckets[BucketOf(t)].stamp
  <2>1. n - w.size <= t
    BY <1>1, <1>2, <1>4
  <2> QED
    BY <1>4, <2>1 DEF Tells
<1>5. \A t \in Times : m < t => u[t] = 0
  BY <1>1, <1>2 DEF Tells
<1>6. \A b \in Buckets : st.buckets[b].count <= Total(u, Hits(b))
  BY DEF Tells
<1> QED
  BY <1>3, <1>4, <1>5, <1>6 DEF Tells

(* What a window counts: all that was used in it, and nothing older than   *)
(* it by a whole bucket.                                                   *)
LEMMA CountBounds ==
  ASSUME now \in Times, NEW st \in StateType, NEW u \in [Times -> Nat],
         Tells(st.buckets, u, now), NEW w \in Windows
  PROVE  /\ Total(u, (now - w.size .. now) \cap Times) <= CountIn(st, w)
         /\ CountIn(st, w) <= Total(u, ((now - w.size - BucketSize + 1) .. now) \cap Times)
         /\ CountIn(st, w) \in Nat
<1> DEFINE s == now - w.size
           B == {b \in Buckets : BucketOf(s) <= b /\ b <= now}
           c == [b \in Buckets |-> st.buckets[b].count]
           all == [b \in Buckets |-> Total(u, Hits(b))]
           since == [b \in Buckets |-> Total(u, HitsSince(b, s))]
<1>1. /\ \A t \in Times : t \in Int /\ u[t] \in Nat
      /\ s \in Int /\ now \in Int /\ s <= now /\ BucketSize \in Int
  <2>1. w.size \in Nat
    BY BucketsAndWindows
  <2>2. Times \subseteq Nat
    BY BucketTypes
  <2> QED
    BY <2>1, <2>2, LimitAssumption
<1>2. IsFiniteSet(Times) /\ IsFiniteSet(Buckets) /\ IsFiniteSet(B) /\ B \in SUBSET Buckets
  BY BucketTypes, FS_Subset
<1>3. IsFiniteSet(Since(s)) /\ Since(s) \in SUBSET Times
  BY <1>2, FS_Subset DEF Since
<1>4. \A T \in SUBSET Times : Total(u, T) \in Nat
  BY <1>1, <1>2, SumType
<1>5. \A b \in Buckets : /\ c[b] = st.buckets[b].count /\ c[b] \in Nat
                         /\ all[b] = Total(u, Hits(b)) /\ all[b] \in Nat
                         /\ since[b] = Total(u, HitsSince(b, s)) /\ since[b] \in Nat
                         /\ since[b] <= c[b] /\ c[b] <= all[b]
  BY <1>4, BucketsAndWindows DEF Tells
<1>6. CountIn(st, w) = Total(c, B)
  BY DEF CountIn
<1>7. Total(since, B) = Total(u, InBuckets(Since(s), B))
  <2>1. \A b \in B : since[b] = Total(u, InBucket(Since(s), b))
    BY <1>2, <1>5 DEF HitsSince
  <2>2. \A t \in Since(s) : u[t] \in Nat
    BY <1>1, <1>3
  <2> HIDE DEF B, since
  <2> QED
    BY <1>2, <1>3, <2>1, <2>2, SumByBucket
<1>8. Total(all, B) = Total(u, InBuckets(Times, B))
  <2>1. \A b \in B : all[b] = Total(u, InBucket(Times, b))
    BY <1>2, <1>5 DEF Hits
  <2>2. \A t \in Times : u[t] \in Nat
    BY <1>1
  <2> HIDE DEF B, all
  <2> QED
    BY <1>2, <2>1, <2>2, SumByBucket
<1>9. Total(since, B) <= Total(c, B) /\ Total(c, B) <= Total(all, B)
  <2>1. /\ \A b \in Buckets : since[b] \in Nat /\ c[b] \in Nat
        /\ \A b \in B : since[b] # 0 => b \in B /\ since[b] <= c[b]
    BY <1>2, <1>5
  <2>2. /\ \A b \in Buckets : c[b] \in Nat /\ all[b] \in Nat
        /\ \A b \in B : c[b] # 0 => b \in B /\ c[b] <= all[b]
    BY <1>2, <1>5
  <2> HIDE DEF B, since, c, all
  <2>3. Total(since, B) <= Total(c, B)
    BY <1>2, <2>1, SumOrder
  <2>4. Total(c, B) <= Total(all, B)
    BY <1>2, <2>2, SumOrder
  <2> QED
    BY <2>3, <2>4
<1>10. Total(c, B) \in Nat
  <2> HIDE DEF B, c
  <2> QED
    BY <1>2, <1>5, SumType
<1>11. Total(u, (s .. now) \cap Times) <= Total(u, InBuckets(Since(s), B))
  <2> DEFINE T == (s .. now) \cap Times
             U == InBuckets(Since(s), B)
  <2>1. ASSUME NEW t \in T PROVE t \in U /\ u[t] <= u[t]
    <3>1. t \in Times /\ t \in Int /\ s <= t /\ t <= now
      BY <1>1
    <3>2. BucketOf(t) \in Buckets
      BY <3>1, BucketTypes
    <3>3. /\ BucketOf(s) <= BucketOf(t) /\ BucketOf(t) <= t
          /\ BucketOf(s) \in Int /\ BucketOf(t) \in Int
      BY <1>1, <3>1, BucketOrder, BucketRange
    <3>4. BucketOf(t) <= now
      BY <1>1, <3>1, <3>3
    <3> QED
      BY <1>1, <3>1, <3>2, <3>3, <3>4 DEF InBuckets, Since
  <2>2. T \in SUBSET Times /\ U \in SUBSET Times
    BY DEF InBuckets, Since
  <2>3. \A t \in T : u[t] # 0 => t \in U /\ u[t] <= u[t]
    BY <2>1
  <2> HIDE DEF T, U
  <2>4. Total(u, T) <= Total(u, U)
    BY <1>1, <1>2, <2>2, <2>3, SumOrder
  <2> QED
    BY <2>4 DEF T, U
<1>12. Total(u, InBuckets(Times, B))
         <= Total(u, ((s - BucketSize + 1) .. now) \cap Times)
  <2> DEFINE T == InBuckets(Times, B)
             U == ((s - BucketSize + 1) .. now) \cap Times
  <2>1. ASSUME NEW t \in T, u[t] # 0 PROVE t \in U /\ u[t] <= u[t]
    <3>1. t \in Times /\ t \in Int /\ t <= now /\ BucketOf(s) <= BucketOf(t) /\ u[t] \in Nat
      BY <1>1, <2>1 DEF Tells, InBuckets
    <3>2. /\ BucketOf(t) <= t /\ s < BucketOf(s) + BucketSize
          /\ BucketOf(s) \in Int /\ BucketOf(t) \in Int
      BY <1>1, <3>1, BucketRange
    <3>3. s - BucketSize + 1 <= t
      BY <1>1, <3>1, <3>2
    <3> QED
      BY <1>1, <3>1, <3>3
  <2>2. T \in SUBSET Times /\ U \in SUBSET Times
    BY DEF InBuckets, Since
  <2>3. \A t \in T : u[t] # 0 => t \in U /\ u[t] <= u[t]
    BY <2>1
  <2> HIDE DEF T, U
  <2>4. Total(u, T) <= Total(u, U)
    BY <1>1, <1>2, <2>2, <2>3, SumOrder
  <2> QED
    BY <2>4 DEF T, U
<1> DEFINE low == Total(u, (s .. now) \cap Times)
           lowB == Total(u, InBuckets(Since(s), B))
           highB == Total(u, InBuckets(Times, B))
           high == Total(u, ((s - BucketSize + 1) .. now) \cap Times)
<1>13. low \in Nat /\ lowB \in Nat /\ highB \in Nat /\ high \in Nat
  <2>1. /\ (s .. now) \cap Times \in SUBSET Times
        /\ InBuckets(Since(s), B) \in SUBSET Times
        /\ InBuckets(Times, B) \in SUBSET Times
        /\ ((s - BucketSize + 1) .. now) \cap Times \in SUBSET Times
    BY DEF InBuckets, Since
  <2> QED
    BY <1>4, <2>1
<1>14. /\ low <= lowB /\ highB <= high /\ Total(since, B) = lowB /\ Total(all, B) = highB
  BY <1>7, <1>8, <1>11, <1>12
<1>15. CountIn(st, w) \in Nat /\ low <= CountIn(st, w) /\ CountIn(st, w) <= high
  <2> HIDE DEF low, lowB, highB, high, since, all, B, c
  <2> QED
    BY <1>6, <1>9, <1>10, <1>13, <1>14
<1> QED
  BY <1>15

-----------------------------------------------------------------------------
(* The invariant                                                           *)

(* What storage would give back is what memory holds.                      *)
Recoverable ==
  /\ stored = {} \/ stored = {kept}
  /\ stored = {} => kept.buckets = Nothing

Counted == Tells(kept.buckets, used, now)

ILimit == LimitTypeOK /\ Recoverable /\ Counted /\ WindowBounded /\ RefusalJustified

(* What a call finds: the state in memory, or the stored one, or none.     *)
LEMMA StateRead ==
  ASSUME ILimit
  PROVE  /\ State \in StateType /\ State.buckets = kept.buckets
         /\ stored # {} => State = kept
         /\ stored = {} => State.buckets = Nothing
<1>1. LimitTypeOK /\ Recoverable /\ now \in Times
  BY DEF ILimit, LimitTypeOK
<1>2. [buckets |-> Nothing, cleaned |-> now] \in StateType
  BY <1>1, BucketTypes DEF StateType
<1>3. stored = {kept} => (CHOOSE st \in stored : TRUE) = kept
  OBVIOUS
<1> QED
  BY <1>1, <1>2, <1>3 DEF State, Recoverable, LimitTypeOK

(* A cleanup keeps the type, and has nothing to do without buckets.        *)
LEMMA CleanupType ==
  ASSUME now \in Times, NEW st \in StateType
  PROVE  /\ Cleanup(st) \in StateType
         /\ st.buckets = Nothing => Cleanup(st) = st
<1> DEFINE old == {b \in Buckets : /\ st.buckets[b] # NoBucket
                                   /\ st.buckets[b].stamp < now - MaxWindow}
           cleaned == [buckets |-> [b \in Buckets |-> IF b \in old THEN NoBucket
                                                      ELSE st.buckets[b]],
                       cleaned |-> now]
<1>1. Cleanup(st) = st \/ (old # {} /\ Cleanup(st) = cleaned)
  BY DEF Cleanup
<1>2. NoBucket \in [count : Nat, stamp : Times]
  BY BucketTypes DEF NoBucket
<1>3. \A b \in Buckets : st.buckets[b] \in [count : Nat, stamp : Times]
  BY DEF StateType
<1>4. cleaned \in StateType
  BY <1>2, <1>3 DEF StateType
<1>5. st.buckets = Nothing => old = {}
  BY DEF Nothing
<1> HIDE DEF old, cleaned
<1> QED
  BY <1>1, <1>4, <1>5

(* A hit keeps the type.                                                   *)
LEMMA HitType ==
  ASSUME now \in Times, NEW st \in StateType, NEW cost \in Costs
  PROVE  Hit(st, cost) \in StateType
<1> DEFINE b == BucketOf(now)
<1>1. b \in Buckets /\ cost \in Nat
  BY BucketTypes, LimitAssumption
<1>2. st.buckets[b].count + cost \in Nat
  <2>1. st.buckets[b] \in [count : Nat, stamp : Times]
    BY <1>1 DEF StateType
  <2> QED
    BY <1>1, <2>1
<1> DEFINE e == [count |-> st.buckets[b].count + cost, stamp |-> now]
<1>3. e \in [count : Nat, stamp : Times]
  BY <1>2
<1>4. Hit(st, cost) = [st EXCEPT !.buckets = [st.buckets EXCEPT ![b] = e]]
  BY DEF Hit, StateType
<1> HIDE DEF e, b
<1>5. [st.buckets EXCEPT ![b] = e] \in [Buckets -> [count : Nat, stamp : Times]]
  BY <1>1, <1>3 DEF StateType
<1> QED
  BY <1>4, <1>5 DEF StateType

(* A call that stores its state, or leaves storage as it was, keeps what   *)
(* it read when its buckets tell of the hits and its answer is right.      *)
LEMMA WriteKeeps ==
  ASSUME ILimit, kept' \in StateType, now' = now, loaded' = TRUE,
         answer' \in {"none", "accepted", "refused"}, used' \in [Times -> Nat],
         \/ stored' = {kept'}
         \/ kept' = State /\ stored' = stored,
         Counted', WindowBounded', RefusalJustified'
  PROVE  ILimit'
<1>1. LimitTypeOK /\ Recoverable
  BY DEF ILimit
<1>2. CASE stored' = {kept'}
  <2>1. Cardinality(stored') = 1
    BY <1>2, FS_Singleton
  <2> QED
    BY <1>1, <1>2, <2>1 DEF ILimit, LimitTypeOK, Recoverable
<1>3. CASE kept' = State /\ stored' = stored
  BY <1>1, <1>3, StateRead DEF ILimit, LimitTypeOK, Recoverable
<1> QED
  BY <1>2, <1>3

(* A request that is accepted stays within every window: less than its     *)
(* limit was counted, so less was used, and one request is added.          *)
LEMMA AcceptedWithin ==
  ASSUME now \in Times, NEW st \in StateType, used \in [Times -> Nat],
         Tells(st.buckets, used, now), WindowBounded, ~Exceeded(st), NEW cost \in Costs,
         used' = [used EXCEPT ![now] = @ + cost]
  PROVE  WindowBounded'
<1> SUFFICES ASSUME NEW w \in Windows, NEW t \in Times
             PROVE  Total(used', (t - w.size .. t) \cap Times) <= w.limit - 1 + MaxCost
  BY DEF WindowBounded
<1> DEFINE T == (t - w.size .. t) \cap Times
           U == (now - w.size .. now) \cap Times
<1>1. \A x \in Times : x \in Int /\ used[x] \in Nat
  BY BucketTypes
<1>2. now \in Int /\ t \in Int /\ cost \in Nat /\ w.size \in Nat /\ w.limit \in Nat
  BY <1>1, BucketsAndWindows, LimitAssumption
<1>3. MaxCost \in Nat /\ cost <= MaxCost
  BY Widest
<1>4. T \in SUBSET Times /\ U \in SUBSET Times /\ IsFiniteSet(Times)
  BY BucketTypes
<1>5. Total(used', T) = Total(used, T) + (IF now \in T THEN cost ELSE 0)
  <2>1. Adds(used', used, Times, now, cost)
    BY <1>1, <1>2 DEF Adds
  <2> HIDE DEF T
  <2> QED
    BY <1>4, <2>1, SumMore
<1>6. Total(used, T) <= w.limit - 1 + MaxCost
  BY DEF WindowBounded
<1>7. now \in T => Total(used, T) <= w.limit - 1
  <2> SUFFICES ASSUME now \in T PROVE Total(used, T) <= w.limit - 1
    OBVIOUS
  <2>1. ASSUME NEW x \in T, used[x] # 0 PROVE x \in U
    <3>1. x \in Times /\ t - w.size <= x /\ now <= t
      BY <1>1, <1>2
    <3>2. x <= now
      BY <1>1, <1>2, <2>1, <3>1 DEF Tells
    <3> QED
      BY <1>1, <1>2, <3>1, <3>2
  <2>2. \A x \in T : used[x] # 0 => x \in U /\ used[x] <= used[x]
    BY <1>1, <1>4, <2>1
  <2>3. Total(used, T) <= Total(used, U)
    <3> HIDE DEF T, U
    <3> QED
      BY <1>1, <1>4, <2>2, SumOrder
  <2>4. Total(used, U) <= CountIn(st, w) /\ CountIn(st, w) \in Nat
    BY CountBounds
  <2>5. CountIn(st, w) < w.limit
    BY <1>2, <2>4 DEF Exceeded
  <2>6. Total(used, T) \in Nat /\ Total(used, U) \in Nat
    <3> HIDE DEF T, U
    <3> QED
      BY <1>1, <1>4, SumType
  <2> HIDE DEF T, U
  <2> QED
    BY <1>2, <2>3, <2>4, <2>5, <2>6
<1>8. Total(used, T) \in Nat
  <2> HIDE DEF T
  <2> QED
    BY <1>1, <1>4, SumType
<1> HIDE DEF T
<1>9. Total(used', T) <= w.limit - 1 + MaxCost
  BY <1>2, <1>3, <1>5, <1>6, <1>7, <1>8
<1> QED
  BY <1>9 DEF T

(* Empty buckets tell of no hits, and no hits fill no window.              *)
LEMMA NothingUsed ==
  ASSUME NEW n \in Times
  PROVE  /\ Tells(Nothing, [t \in Times |-> 0], n)
         /\ \A w \in Windows, t \in Times :
              Total([x \in Times |-> 0], (t - w.size .. t) \cap Times) <= w.limit - 1 + MaxCost
<1> DEFINE none == [t \in Times |-> 0]
<1>1. \A t \in Times : none[t] = 0
  OBVIOUS
<1> HIDE DEF none
<1>2. ASSUME NEW T \in SUBSET Times PROVE Total(none, T) = 0
  <2>1. \A t \in Times : none[t] \in Nat
    BY <1>1
  <2>2. IsFiniteSet(Times)
    BY BucketTypes
  <2>3. \A t \in T : none[t] # 0 => t \in {} /\ none[t] <= none[t]
    BY <1>1
  <2>4. Total(none, T) <= Total(none, {})
    BY <2>1, <2>2, <2>3, SumOrder
  <2>5. Total(none, {}) = 0 /\ Total(none, T) \in Nat
    BY <2>1, <2>2, SumType
  <2> QED
    BY <2>4, <2>5
<1>3. \A b \in Buckets : Nothing[b].count = 0
  BY DEF Nothing, NoBucket
<1>4. \A b \in Buckets : Total(none, Hits(b)) = 0
  BY <1>2, BucketsAndWindows
<1>5. \A b \in Buckets, w \in Windows : Total(none, HitsSince(b, n - w.size)) = 0
  BY <1>2, BucketsAndWindows
<1>6. Tells(Nothing, none, n)
  BY <1>1, <1>3, <1>4, <1>5 DEF Tells
<1>7. ASSUME NEW w \in Windows, NEW t \in Times
      PROVE  Total(none, (t - w.size .. t) \cap Times) <= w.limit - 1 + MaxCost
  <2>1. Total(none, (t - w.size .. t) \cap Times) = 0
    BY <1>2
  <2>2. w.limit \in Nat /\ w.limit >= 1 /\ MaxCost \in Nat
    BY BucketsAndWindows, Widest
  <2> QED
    BY <2>1, <2>2
<1> QED
  BY <1>6, <1>7 DEF none

(* Every step of the limiter keeps the invariant.                          *)
LEMMA LimitKeeps == ILimit /\ [LimitNext]_limitVars => ILimit'
<1> SUFFICES ASSUME ILimit, [LimitNext]_limitVars PROVE ILimit'
  OBVIOUS
<1>1. /\ LimitTypeOK /\ Recoverable /\ now \in Times /\ State \in StateType
      /\ used \in [Times -> Nat] /\ Tells(State.buckets, used, now)
      /\ WindowBounded /\ RefusalJustified /\ State.buckets = kept.buckets
  BY StateRead DEF ILimit, LimitTypeOK, Counted
<1>2. ASSUME NEW cost \in Costs, Increment(cost) PROVE ILimit'
  <2> DEFINE st == Cleanup(State)
  <2>1. st \in StateType /\ Tells(st.buckets, used, now)
    BY <1>1, CleanupType, CleanupTells
  <2>2. /\ loaded' = TRUE /\ now' = now
        /\ stored' = IF kept' = State THEN stored ELSE {kept'}
    BY <1>2 DEF Increment
  <2>3. \/ Exceeded(st) /\ kept' = st /\ used' = used /\ answer' = "refused"
        \/ /\ ~Exceeded(st) /\ kept' = Hit(st, cost) /\ answer' = "accepted"
           /\ used' = [used EXCEPT ![now] = @ + cost]
    BY <1>2 DEF Increment
  <2> HIDE DEF st
  <2>4. CASE Exceeded(st) /\ kept' = st /\ used' = used /\ answer' = "refused"
    <3>1. Counted' /\ WindowBounded'
      BY <1>1, <2>1, <2>2, <2>4 DEF Counted, WindowBounded
    <3>2. RefusalJustified'
      <4>1. PICK w \in Windows : CountIn(st, w) >= w.limit
        BY <2>4 DEF Exceeded
      <4> DEFINE U == ((now - w.size - BucketSize + 1) .. now) \cap Times
      <4>2. CountIn(st, w) \in Nat /\ CountIn(st, w) <= Total(used, U)
        BY <1>1, <2>1, CountBounds
      <4>3. Total(used, U) \in Nat /\ w.limit \in Nat
        <5>1. U \in SUBSET Times /\ IsFiniteSet(Times) /\ \A x \in Times : used[x] \in Nat
          BY <1>1, BucketTypes
        <5> HIDE DEF U
        <5> QED
          BY <5>1, BucketsAndWindows, SumType
      <4>4. Total(used, U) >= w.limit
        <5> HIDE DEF U
        <5> QED
          BY <4>1, <4>2, <4>3
      <4> QED
        BY <2>2, <2>4, <4>4 DEF RefusalJustified
    <3> QED
      BY <1>1, <2>1, <2>2, <2>4, <3>1, <3>2, WriteKeeps
  <2>5. CASE /\ ~Exceeded(st) /\ kept' = Hit(st, cost) /\ answer' = "accepted"
             /\ used' = [used EXCEPT ![now] = @ + cost]
    <3>1. Counted'
      <4>1. Tells(Hit(st, cost).buckets, [used EXCEPT ![now] = @ + cost], now)
        BY <1>1, <2>1, HitTells
      <4> QED
        BY <2>2, <2>5, <4>1 DEF Counted
    <3>2. WindowBounded'
      BY <1>1, <2>1, <2>5, AcceptedWithin
    <3>3. RefusalJustified'
      BY <2>5 DEF RefusalJustified
    <3>4. kept' \in StateType
      BY <1>1, <2>1, <2>5, HitType
    <3>5. used' \in [Times -> Nat]
      BY <1>1, <2>5, LimitAssumption
    <3> QED
      BY <2>2, <2>5, <3>1, <3>2, <3>3, <3>4, <3>5, WriteKeeps
  <2> QED
    BY <2>3, <2>4, <2>5
<1>3. CASE ResetLimit
  <2> DEFINE st == [State EXCEPT !.buckets = Nothing]
             none == [t \in Times |-> 0]
  <2>1. st \in StateType /\ st.buckets = Nothing
    BY <1>1, BucketTypes DEF StateType
  <2>2. /\ kept' = st /\ stored' = {kept'} /\ loaded' = TRUE /\ now' = now
        /\ used' = none /\ answer' = "none"
    BY <1>3 DEF ResetLimit
  <2>3. Tells(Nothing, none, now)
    BY <1>1, NothingUsed
  <2>4. Counted' /\ RefusalJustified'
    BY <2>1, <2>2, <2>3 DEF Counted, RefusalJustified
  <2>5. WindowBounded'
    BY <1>1, <2>2, NothingUsed DEF WindowBounded
  <2>6. used' \in [Times -> Nat]
    BY <2>2
  <2> HIDE DEF st, none
  <2> QED
    BY <2>1, <2>2, <2>4, <2>5, <2>6, WriteKeeps
<1>4. CASE GetRemaining
  <2>1. Counted' /\ WindowBounded' /\ RefusalJustified'
    BY <1>1, <1>4 DEF GetRemaining, Counted, WindowBounded, RefusalJustified
  <2> QED
    BY <1>1, <1>4, <2>1, WriteKeeps DEF GetRemaining, LimitTypeOK
<1>5. CASE Evict
  BY <1>1, <1>5 DEF Evict, ILimit, LimitTypeOK, Recoverable, Counted, WindowBounded,
                    RefusalJustified
<1>6. CASE TimePasses
  <2>1. now' \in Times /\ now' = now + 1
    BY <1>1, <1>6, LimitAssumption DEF TimePasses, Times
  <2>2. kept \in StateType
    BY <1>1 DEF LimitTypeOK
  <2>3. Counted'
    <3>1. PICK m \in Times : m = now'
      BY <2>1
    <3>2. Tells(kept.buckets, used, m)
      BY <1>1, <2>1, <2>2, <3>1, TimeTells
    <3> QED
      BY <1>6, <3>1, <3>2 DEF Counted, TimePasses
  <2>4. WindowBounded' /\ RefusalJustified'
    BY <1>1, <1>6 DEF TimePasses, WindowBounded, RefusalJustified
  <2> QED
    BY <1>1, <1>6, <2>1, <2>3, <2>4 DEF TimePasses, ILimit, LimitTypeOK, Recoverable
<1>7. CASE UNCHANGED limitVars
  BY <1>1, <1>7 DEF limitVars, ILimit, LimitTypeOK, Recoverable, Counted, WindowBounded,
                    RefusalJustified
<1> QED
  BY <1>2, <1>3, <1>4, <1>5, <1>6, <1>7 DEF LimitNext

(* Nothing was counted.                                                    *)
LEMMA LimitStarts == LimitInit => ILimit
<1> SUFFICES ASSUME LimitInit PROVE ILimit
  OBVIOUS
<1> DEFINE none == [t \in Times |-> 0]
<1>1. [buckets |-> Nothing, cleaned |-> 0] \in StateType /\ 0 \in Times
  BY BucketTypes DEF StateType
<1>2. Cardinality({}) = 0
  BY FS_EmptySet
<1>3. LimitTypeOK /\ Recoverable
  BY <1>1, <1>2 DEF LimitInit, LimitTypeOK, Recoverable
<1>4. kept.buckets = Nothing /\ used = none /\ now \in Times /\ answer = "none"
  BY <1>1 DEF LimitInit
<1>5. Tells(Nothing, none, now)
  BY <1>4, NothingUsed
<1>6. Counted /\ WindowBounded /\ RefusalJustified
  BY <1>4, <1>5, NothingUsed DEF Counted, WindowBounded, RefusalJustified
<1> QED
  BY <1>3, <1>6 DEF ILimit

(* The limiter keeps its types, and stores at most one state.              *)
THEOREM LimitTypeCorrect == LimitSpec => []LimitTypeOK
<1>1. ILimit => LimitTypeOK
  BY DEF ILimit
<1> QED
  BY <1>1, LimitStarts, LimitKeeps, PTL DEF LimitSpec

(* An eviction forgets no count: whenever the object is in memory, storage *)
(* holds just its state, or nothing while every bucket is empty.           *)
THEOREM EvictionForgetsNothing ==
  LimitSpec => [](loaded => stored = {kept} \/ (stored = {} /\ kept.buckets = Nothing))
<1>1. ILimit => (loaded => stored = {kept} \/ (stored = {} /\ kept.buckets = Nothing))
  BY DEF ILimit, Recoverable
<1> QED
  BY <1>1, LimitStarts, LimitKeeps, PTL DEF LimitSpec

(* Less than a window's limit and one request is used in any window.       *)
THEOREM WindowsAreBounded == LimitSpec => []WindowBounded
<1>1. ILimit => WindowBounded
  BY DEF ILimit
<1> QED
  BY <1>1, LimitStarts, LimitKeeps, PTL DEF LimitSpec

(* A refusal has requests within the window and one bucket to show.        *)
THEOREM RefusalsAreJustified == LimitSpec => []RefusalJustified
<1>1. ILimit => RefusalJustified
  BY DEF ILimit
<1> QED
  BY <1>1, LimitStarts, LimitKeeps, PTL DEF LimitSpec

-----------------------------------------------------------------------------
(* The services together                                                   *)

(* Each service moves as it would alone: the instance that TLC explores    *)
(* with one service moving at a time has only their behaviours.            *)
THEOREM ServicesRunAlone == ServicesSpec => MonSpec /\ VaultSpec /\ LimitSpec /\ ConnSpec
<1>1. ServicesInit => MonInit /\ VaultInit /\ LimitInit /\ ConnInit
  BY DEF ServicesInit
<1>2. [ServicesNext]_servicesVars =>
        [MonNext]_monVars /\ [VaultNext]_vaultVars /\ [LimitNext]_limitVars /\ [ConnNext]_connVars
  BY DEF ServicesNext, servicesVars
<1> QED
  BY <1>1, <1>2, PTL DEF ServicesSpec, MonSpec, VaultSpec, LimitSpec, ConnSpec

(* All the services keep their types.                                      *)
THEOREM ServicesTypeCorrect == ServicesSpec => []ServicesTypeOK
<1>1. MonTypeOK /\ VaultTypeOK /\ LimitTypeOK /\ ConnTypeOK => ServicesTypeOK
  BY DEF ServicesTypeOK
<1> QED
  BY <1>1, ServicesRunAlone, MonTypeCorrect, VaultTypeCorrect, LimitTypeCorrect,
     ConnTypeCorrect, PTL

=============================================================================
