-------------------------------- MODULE Sums --------------------------------
(***************************************************************************)
(* What SumFunction (module Functions) computes: sums of natural numbers   *)
(* over finite sets, for the counters of the cost guard and the bytes of a *)
(* run's images. The inductions are over the members of a set, so that no  *)
(* operator is a parameter; what they rest on, that a set of naturals has  *)
(* a least member, serves the other proofs too.                            *)
(***************************************************************************)
EXTENDS Integers, Functions, FiniteSetTheorems, WellFoundedInduction, NaturalsInduction, TLAPS

(* Induction over the natural numbers, for the members of a set.           *)
LEMMA Nats ==
  ASSUME NEW S, 0 \in S, \A n \in Nat : n \in S => n + 1 \in S
  PROVE  Nat \subseteq S
  <1> DEFINE T == Nat \ S
             R == {ss \in Nat \X Nat : ss[1] < ss[2]}
  <1> SUFFICES ASSUME T # {} PROVE FALSE
    OBVIOUS
  <1>1. IsWellFoundedOn(R, Nat)
    BY NatLessThanWellFounded, Zenon DEF OpToRel
  <1>2. PICK x \in T : \A y \in T : ~ (<<y, x>> \in R)
    <2> HIDE DEF T, R
    <2>1. T \subseteq Nat
      BY DEF T
    <2> QED BY <1>1, <2>1, WFMin
  <1>3. x \in Nat /\ x # 0 /\ x \notin S /\ x - 1 \in Nat
    OBVIOUS
  <1>4. CASE x - 1 \in S
    <2>1. (x - 1) + 1 \in S 
      BY <1>3, <1>4
    <2> QED BY <1>3, <2>1
  <1>5. CASE x - 1 \in T
    <2>1. <<x - 1, x>> \in R
      BY <1>3
    <2> QED BY <1>2, <1>5, <2>1
  <1> QED BY <1>3, <1>4, <1>5

(* A set of natural numbers that is not empty has a least member.          *)
LEMMA Least ==
  ASSUME NEW T \in SUBSET Nat, T # {}
  PROVE  \E x \in T : \A y \in T : x <= y
  <1> DEFINE R == {ss \in Nat \X Nat : ss[1] < ss[2]}
  <1>1. IsWellFoundedOn(R, Nat)
    BY NatLessThanWellFounded, Zenon DEF OpToRel
  <1>2. PICK x \in T : \A y \in T : ~ (<<y, x>> \in R)
    <2> HIDE DEF R
    <2> QED BY <1>1, WFMin
  <1>3. ASSUME NEW y \in T PROVE x <= y
    <2>1. x \in Nat /\ y \in Nat /\ ~ (<<y, x>> \in R)
      BY <1>2
    <2>2. ~ (y < x)
      BY <2>1
    <2> QED BY <2>1, <2>2
  <1> QED BY <1>3

(* Induction over the subsets of a finite set, the same way.               *)
LEMMA FinInd ==
  ASSUME NEW P, NEW S, IsFiniteSet(S), {} \in P,
         \A T \in SUBSET S : \A x \in S \ T : T \in P => T \cup {x} \in P
  PROVE  SUBSET S \subseteq P
  <1> DEFINE Q == {n \in Nat : \A T \in SUBSET S : Cardinality(T) = n => T \in P}
  <1>1. \A T \in SUBSET S : IsFiniteSet(T) /\ Cardinality(T) \in Nat
    BY FS_Subset, FS_CardinalityType
  <1>2. 0 \in Q
    BY <1>1, FS_EmptySet
  <1>3. ASSUME NEW n \in Nat, n \in Q PROVE n + 1 \in Q
    <2> SUFFICES ASSUME NEW T \in SUBSET S, Cardinality(T) = n + 1 PROVE T \in P
      OBVIOUS
    <2>1. PICK x : x \in T
      BY <1>1, FS_EmptySet
    <2>2. Cardinality(T \ {x}) = n
      <3>1. Cardinality(T \ {x}) = Cardinality(T) - 1
        BY <1>1, <2>1, FS_RemoveElement
      <3> QED BY <3>1
    <2>3. T \ {x} \in P
      BY <1>3, <2>2
    <2>4. (T \ {x}) \cup {x} = T
      BY <2>1
    <2> QED BY <2>1, <2>3, <2>4
  <1> HIDE DEF Q
  <1>4. Nat \subseteq Q
    BY <1>2, <1>3, Nats
  <1> QED BY <1>1, <1>4 DEF Q

(* g gives the sum of f over every subset of S.                            *)
IsSum(g, f, S) ==
  /\ g \in [SUBSET S -> Nat] /\ g[{}] = 0
  /\ \A T \in SUBSET S : \A x \in S \ T : g[T \cup {x}] = g[T] + f[x]

(* There is such a function.                                               *)
LEMMA HasSum ==
  ASSUME NEW S, IsFiniteSet(S), NEW f \in [S -> Nat]
  PROVE  \E g : IsSum(g, f, S)
  <1> DEFINE P == {T \in SUBSET S : \E g : IsSum(g, f, T)}
  <1>1. {} \in P
    <2> DEFINE g == [T \in {{}} |-> 0]
    <2>1. IsSum(g, f, {})
      BY DEF IsSum
    <2> QED BY <2>1
  <1>2. ASSUME NEW T \in SUBSET S, NEW x \in S \ T, T \in P PROVE T \cup {x} \in P
    <2>1. PICK g : IsSum(g, f, T)
      BY <1>2
    <2> DEFINE h == [U \in SUBSET (T \cup {x}) |-> g[U \ {x}] + (IF x \in U THEN f[x] ELSE 0)]
    <2>2. \A U \in SUBSET (T \cup {x}) : U \ {x} \in SUBSET T
      OBVIOUS
    <2>3. h \in [SUBSET (T \cup {x}) -> Nat]
      BY <2>1, <2>2 DEF IsSum
    <2>4. h[{}] = 0
      <3>1. {} \ {x} = {} /\ {} \in SUBSET (T \cup {x})
        OBVIOUS
      <3> QED BY <3>1, <2>1 DEF IsSum
    <2>5. ASSUME NEW U \in SUBSET (T \cup {x}), NEW y \in (T \cup {x}) \ U
          PROVE  h[U \cup {y}] = h[U] + f[y]
      <3>0. U \cup {y} \in SUBSET (T \cup {x}) /\ f[y] \in Nat /\ f[x] \in Nat /\ g[U \ {x}] \in Nat
        BY <2>1, <2>2 DEF IsSum
      <3>1. CASE y = x
        <4>1. (U \cup {y}) \ {x} = U \ {x} /\ x \in U \cup {y} /\ x \notin U
          BY <3>1
        <4>2. h[U \cup {y}] = g[U \ {x}] + f[x] /\ h[U] = g[U \ {x}] + 0
          BY <3>0, <4>1
        <4> QED BY <3>0, <3>1, <4>2
      <3>2. CASE y # x
        <4>1. (U \cup {y}) \ {x} = (U \ {x}) \cup {y} /\ y \in T \ (U \ {x})
          BY <3>2
        <4>2. g[(U \ {x}) \cup {y}] = g[U \ {x}] + f[y]
          BY <4>1, <2>1, <2>2 DEF IsSum
        <4>3. x \in U \cup {y} <=> x \in U
          BY <3>2
        <4> QED BY <3>0, <4>1, <4>2, <4>3
      <3> QED BY <3>1, <3>2
    <2> HIDE DEF h
    <2>6. IsSum(h, f, T \cup {x})
      BY <2>3, <2>4, <2>5 DEF IsSum
    <2> QED BY <2>6
  <1> HIDE DEF P
  <1>3. S \in P
    BY <1>1, <1>2, FinInd
  <1> QED BY <1>3 DEF P

(* Sums compare as their terms do, over any part of the set.               *)
LEMMA SumCompare ==
  ASSUME NEW S, IsFiniteSet(S), NEW f \in [S -> Nat], NEW e \in [S -> Nat],
         NEW g, NEW h, IsSum(g, f, S), IsSum(h, e, S), NEW V \in SUBSET S,
         \A x \in V : f[x] <= e[x]
  PROVE  g[V] <= h[V]
  <1> DEFINE P == {T \in SUBSET V : g[T] <= h[T]}
  <1>1. {} \in P
    BY DEF IsSum
  <1>2. ASSUME NEW T \in SUBSET V, NEW x \in V \ T, T \in P PROVE T \cup {x} \in P
    <2>1. T \in SUBSET S /\ x \in S \ T /\ T \cup {x} \in SUBSET V
      OBVIOUS
    <2>2. g[T \cup {x}] = g[T] + f[x] /\ h[T \cup {x}] = h[T] + e[x] 
      BY <2>1 DEF IsSum
    <2>3. g[T] \in Nat /\ h[T] \in Nat /\ f[x] \in Nat /\ e[x] \in Nat /\ f[x] <= e[x]
      BY <2>1 DEF IsSum
    <2>4. g[T] <= h[T]
      BY <1>2
    <2> QED BY <2>1, <2>2, <2>3, <2>4
  <1> HIDE DEF P
  <1>3. V \in P
    BY <1>1, <1>2, FinInd, FS_Subset
  <1> QED BY <1>3 DEF P

(* SumFunction, which folds over a set in an order of its choice, is the   *)
(* value of such a function.                                               *)
LEMMA SumIs ==
  ASSUME NEW S, IsFiniteSet(S), NEW f \in [S -> Nat]
  PROVE  \E g : IsSum(g, f, S) /\ SumFunction(f) = g[S]
  <1> DEFINE iter == CHOOSE v : v = [s \in SUBSET S |-> IF s = {} THEN 0
                          ELSE LET x == CHOOSE x \in s : TRUE IN f[x] + v[s \ {x}]]
  <1>1. SumFunction(f) = iter[S]
    BY DEF SumFunction, SumFunctionOnSet, FoldFunctionOnSet, MapThenFoldSet
  <1>2. PICK g : IsSum(g, f, S)
    BY HasSum
  <1>3. g = [s \in SUBSET S |-> IF s = {} THEN 0
                          ELSE LET x == CHOOSE x \in s : TRUE IN f[x] + g[s \ {x}]]
    <2>1. ASSUME NEW s \in SUBSET S, s # {} PROVE g[s] = f[CHOOSE x \in s : TRUE] + g[s \ {CHOOSE x \in s : TRUE}]
      <3> DEFINE x == CHOOSE x \in s : TRUE
      <3>1. x \in s
        BY <2>1
      <3> HIDE DEF x
      <3>2. s \ {x} \in SUBSET S /\ x \in S \ (s \ {x}) /\ (s \ {x}) \cup {x} = s
        BY <3>1
      <3>3. g[s] = g[s \ {x}] + f[x]
        BY <3>2, <1>2 DEF IsSum
      <3>4. g[s \ {x}] \in Nat /\ f[x] \in Nat
        BY <3>2, <1>2 DEF IsSum
      <3>5. g[s] = f[x] + g[s \ {x}]
        BY <3>3, <3>4
      <3> QED BY <3>5 DEF x
    <2> QED BY <1>2, <2>1 DEF IsSum
  <1>4. iter = [s \in SUBSET S |-> IF s = {} THEN 0
                          ELSE LET x == CHOOSE x \in s : TRUE IN f[x] + iter[s \ {x}]]
    <2> HIDE <1>2
    <2> QED BY <1>3
  <1>5. iter = g
    <2> DEFINE Q == {n \in Nat : \A T \in SUBSET S : Cardinality(T) = n => iter[T] = g[T]}
    <2> HIDE DEF iter
    <2>0. \A T \in SUBSET S : IsFiniteSet(T) /\ Cardinality(T) \in Nat
      BY FS_Subset, FS_CardinalityType
    <2>1. 0 \in Q
      <3> SUFFICES ASSUME NEW T \in SUBSET S, Cardinality(T) = 0 PROVE iter[T] = g[T]
        OBVIOUS
      <3>1. T = {}
        BY <2>0, FS_EmptySet
      <3> QED BY <3>1, <1>4, <1>2 DEF IsSum
    <2>2. ASSUME NEW n \in Nat, n \in Q PROVE n + 1 \in Q
      <3> SUFFICES ASSUME NEW T \in SUBSET S, Cardinality(T) = n + 1 PROVE iter[T] = g[T]
        OBVIOUS
      <3>1. T # {}
        BY FS_EmptySet
      <3> DEFINE x == CHOOSE x \in T : TRUE
      <3>2. x \in T
        BY <3>1
      <3>3. iter[T] = f[x] + iter[T \ {x}] /\ g[T] = f[x] + g[T \ {x}]
        BY <1>4, <1>3, <3>1
      <3> HIDE DEF x
      <3>4. Cardinality(T \ {x}) = Cardinality(T) - 1
        BY <2>0, <3>2, FS_RemoveElement
      <3>5. iter[T \ {x}] = g[T \ {x}]
        BY <2>2, <3>4
      <3> QED BY <3>3, <3>5
    <2> HIDE DEF Q
    <2>3. Nat \subseteq Q
      BY <2>1, <2>2, Nats
    <2>4. \A T \in SUBSET S : iter[T] = g[T]
      BY <2>0, <2>3 DEF Q
    <2>5. DOMAIN iter = SUBSET S /\ iter = [s \in DOMAIN iter |-> iter[s]]
      BY <1>4
    <2>6. g = [s \in SUBSET S |-> g[s]]
      BY <1>2 DEF IsSum
    <2> QED BY <2>4, <2>5, <2>6
  <1> HIDE DEF iter
  <1> QED BY <1>1, <1>2, <1>5

(* Any such function gives its value.                                      *)
LEMMA SumUnique ==
  ASSUME NEW S, IsFiniteSet(S), NEW f \in [S -> Nat], NEW g, IsSum(g, f, S)
  PROVE  SumFunction(f) = g[S] /\ SumFunction(f) \in Nat
  <1>1. PICK h : IsSum(h, f, S) /\ SumFunction(f) = h[S]
    BY SumIs
  <1>2. g[S] <= h[S] 
    BY <1>1, SumCompare
  <1>3. h[S] <= g[S] 
    BY <1>1, SumCompare
  <1>4. h[S] \in Nat /\ g[S] \in Nat
    BY <1>1 DEF IsSum
  <1> QED BY <1>1, <1>2, <1>3, <1>4

(* The sum of natural numbers is one,                                      *)
LEMMA SumType ==
  ASSUME NEW S, IsFiniteSet(S), NEW f \in [S -> Nat]
  PROVE  SumFunction(f) \in Nat
  <1>1. PICK g : IsSum(g, f, S) /\ SumFunction(f) = g[S]
    BY SumIs
  <1> QED BY <1>1 DEF IsSum

(* grows with its terms,                                                   *)
LEMMA SumMono ==
  ASSUME NEW S, IsFiniteSet(S), NEW f \in [S -> Nat], NEW e \in [S -> Nat],
         \A x \in S : f[x] <= e[x]
  PROVE  SumFunction(f) <= SumFunction(e)
  <1>1. PICK g : IsSum(g, f, S) /\ SumFunction(f) = g[S]
    BY SumIs
  <1>2. PICK h : IsSum(h, e, S) /\ SumFunction(e) = h[S]
    BY SumIs
  <1> QED BY <1>1, <1>2, SumCompare

(* is 0 when they are,                                                     *)
LEMMA SumZero ==
  ASSUME NEW S, IsFiniteSet(S)
  PROVE  SumFunction([x \in S |-> 0]) = 0
  <1> DEFINE f == [x \in S |-> 0]
             g == [T \in SUBSET S |-> 0]
  <1>1. IsSum(g, f, S) /\ f \in [S -> Nat] /\ g[S] = 0
    BY DEF IsSum
  <1> HIDE DEF f, g
  <1>2. SumFunction(f) = 0
    BY <1>1, SumUnique
  <1> QED BY <1>2 DEF f

(* changes as its only term that changes,                                  *)
LEMMA SumOne ==
  ASSUME NEW S, IsFiniteSet(S), NEW f \in [S -> Nat], NEW e \in [S -> Nat], NEW x \in S,
         \A y \in S \ {x} : f[y] = e[y]
  PROVE  SumFunction(f) + e[x] = SumFunction(e) + f[x]
  <1>1. PICK g : IsSum(g, f, S) /\ SumFunction(f) = g[S]
    BY SumIs
  <1>2. PICK h : IsSum(h, e, S) /\ SumFunction(e) = h[S]
    BY SumIs
  <1> DEFINE V == S \ {x}
  <1>3. V \in SUBSET S /\ x \in S \ V /\ V \cup {x} = S
    OBVIOUS
  <1>4. \A y \in V : f[y] <= e[y] /\ e[y] <= f[y]
    OBVIOUS
  <1> HIDE DEF V
  <1>5. g[V] <= h[V]
    BY <1>1, <1>2, <1>3, <1>4, SumCompare
  <1>6. h[V] <= g[V]
    BY <1>1, <1>2, <1>3, <1>4, SumCompare
  <1>7. g[S] = g[V] + f[x] /\ h[S] = h[V] + e[x] /\ g[V] \in Nat /\ h[V] \in Nat
    BY <1>1, <1>2, <1>3 DEF IsSum
  <1> QED BY <1>1, <1>2, <1>5, <1>6, <1>7

(* and adds term by term.                                                  *)
LEMMA SumAdd ==
  ASSUME NEW S, IsFiniteSet(S), NEW f \in [S -> Nat], NEW e \in [S -> Nat], NEW d \in [S -> Nat],
         \A x \in S : d[x] = f[x] + e[x]
  PROVE  SumFunction(d) = SumFunction(f) + SumFunction(e)
  <1>1. PICK g : IsSum(g, f, S) /\ SumFunction(f) = g[S]
    BY SumIs
  <1>2. PICK h : IsSum(h, e, S) /\ SumFunction(e) = h[S]
    BY SumIs
  <1> DEFINE b == [T \in SUBSET S |-> g[T] + h[T]]
  <1>3. b \in [SUBSET S -> Nat] /\ b[{}] = 0 /\ b[S] = g[S] + h[S]
    BY <1>1, <1>2 DEF IsSum
  <1>4. ASSUME NEW T \in SUBSET S, NEW x \in S \ T PROVE b[T \cup {x}] = b[T] + d[x]
    <2>1. T \cup {x} \in SUBSET S
      OBVIOUS
    <2>2. g[T \cup {x}] = g[T] + f[x] /\ h[T \cup {x}] = h[T] + e[x] /\ g[T] \in Nat /\ h[T] \in Nat
      BY <1>1, <1>2 DEF IsSum
    <2> QED BY <2>1, <2>2
  <1> HIDE DEF b
  <1>5. IsSum(b, d, S)
    BY <1>3, <1>4 DEF IsSum
  <1> QED BY <1>1, <1>2, <1>3, <1>5, SumUnique

(* Where no term is above B, it is no more than one term and B for every   *)
(* other.                                                                  *)
LEMMA SumOthers ==
  ASSUME NEW S, IsFiniteSet(S), NEW f \in [S -> Nat], NEW x \in S, NEW B \in Nat,
         \A y \in S : f[y] <= B
  PROVE  /\ SumFunction(f) <= f[x] + (Cardinality(S) - 1) * B
         /\ f[x] <= SumFunction(f)
  <1>1. PICK g : IsSum(g, f, S) /\ SumFunction(f) = g[S]
    BY SumIs
  <1> DEFINE V == S \ {x}
             P == {T \in SUBSET S : g[T] <= Cardinality(T) * B}
  <1>2. V \in SUBSET S /\ x \in S \ V /\ V \cup {x} = S
    OBVIOUS
  <1>3. \A T \in SUBSET S : IsFiniteSet(T) /\ Cardinality(T) \in Nat
    BY FS_Subset, FS_CardinalityType
  <1>4. {} \in P
    BY <1>1, FS_EmptySet DEF IsSum
  <1>5. ASSUME NEW T \in SUBSET S, NEW y \in S \ T, T \in P PROVE T \cup {y} \in P
    <2>1. T \cup {y} \in SUBSET S
      OBVIOUS
    <2>2. Cardinality(T \cup {y}) = Cardinality(T) + 1
      BY <1>3, FS_AddElement
    <2>3. g[T \cup {y}] = g[T] + f[y] /\ g[T] \in Nat /\ f[y] \in Nat /\ f[y] <= B
      BY <1>1 DEF IsSum
    <2> DEFINE n == Cardinality(T)
    <2>4. n \in Nat /\ g[T] <= n * B /\ n * B \in Nat
      BY <1>3, <1>5
    <2> HIDE DEF n
    <2>5. (n + 1) * B = n * B + B
      BY <2>4
    <2>6. g[T] + f[y] <= n * B + B
      BY <2>3, <2>4
    <2> QED BY <2>1, <2>2, <2>3, <2>5, <2>6 DEF n
  <1> HIDE DEF P, V
  <1>6. V \in P
    BY <1>2, <1>4, <1>5, FinInd
  <1>7. Cardinality(V) = Cardinality(S) - 1
    BY FS_RemoveElement DEF V
  <1>8. g[S] = g[V] + f[x] /\ g[V] \in Nat /\ f[x] \in Nat
    BY <1>1, <1>2 DEF IsSum
  <1>9. g[V] <= (Cardinality(S) - 1) * B
    BY <1>6, <1>7 DEF P
  <1>10. (Cardinality(S) - 1) * B \in Int
    BY <1>3
  <1> QED BY <1>1, <1>8, <1>9, <1>10
=============================================================================
