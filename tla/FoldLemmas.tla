----------------------------- MODULE FoldLemmas -----------------------------
(***************************************************************************)
(* Facts about sums and folds over finite data, of any size. The library's *)
(* induction theorems are about operators; here induction is about sets of *)
(* numbers, so that what the proofs say of all k is a set like any other.  *)
(***************************************************************************)
EXTENDS Integers, Sequences, SequencesExt, FiniteSetTheorems, TLAPS

-----------------------------------------------------------------------------
(* Induction.                                                              *)

Before == {ss \in Nat \X Nat : ss[1] < ss[2]}

LEMMA LeastNumber ==
  ASSUME NEW T \in SUBSET Nat, T # {}
  PROVE  \E n \in T : \A m \in T : n <= m
  <1>1. IsWellFoundedOn(Before, Nat)
    BY NatLessThanWellFounded DEF OpToRel, Before
  <1>2. PICK n \in T : \A m \in T : ~ (<<m, n>> \in Before)
    BY <1>1, WFMin
  <1>3. ASSUME NEW m \in T, m < n PROVE FALSE
    <2>1. <<m, n>> \in Nat \X Nat /\ <<m, n>>[1] < <<m, n>>[2]
      BY <1>3
    <2> QED BY <1>2, <2>1 DEF Before
  <1> QED BY <1>2, <1>3

LEMMA Induction ==
  ASSUME NEW T, 0 \in T, \A n \in Nat : n \in T => n + 1 \in T
  PROVE  Nat \subseteq T
  <1>1. SUFFICES ASSUME Nat \ T # {} PROVE FALSE
    OBVIOUS
  <1>2. PICK n \in Nat \ T : \A m \in Nat \ T : n <= m
    BY <1>1, LeastNumber
  <1>3. n # 0 /\ n - 1 \in Nat /\ n - 1 \in T
    BY <1>2
  <1>4. (n - 1) + 1 \in T
    BY <1>3
  <1> QED BY <1>2, <1>4

(* Induction up to a bound. *)
LEMMA BoundedInduction ==
  ASSUME NEW n \in Nat, NEW T, 0 \in T, \A k \in 0 .. n - 1 : k \in T => k + 1 \in T
  PROVE  \A k \in 0 .. n : k \in T
  <1> DEFINE U == {k \in Nat : k \in T \/ k > n}
  <1>1. 0 \in U /\ \A k \in Nat : k \in U => k + 1 \in U
    OBVIOUS
  <1>2. Nat \subseteq U
    BY <1>1, Induction
  <1> QED BY <1>2

(* The same over the subsets of a finite set. *)
LEMMA SubsetInduction ==
  ASSUME NEW S, IsFiniteSet(S), NEW F,
         {} \in F,
         \A s \in SUBSET S : s # {} /\ (\A x \in s : s \ {x} \in F) => s \in F
  PROVE  \A s \in SUBSET S : s \in F
  <1> DEFINE T == {k \in Nat : \A s \in SUBSET S : Cardinality(s) = k => s \in F}
  <1>1. 0 \in T
    <2>1. \A s \in SUBSET S : Cardinality(s) = 0 => s = {}
      BY FS_Subset, FS_EmptySet
    <2> QED BY <2>1
  <1>2. ASSUME NEW k \in Nat, k \in T PROVE k + 1 \in T
    <2>1. ASSUME NEW s \in SUBSET S, Cardinality(s) = k + 1 PROVE s \in F
      <3>1. IsFiniteSet(s) /\ s # {}
        BY <2>1, FS_Subset, FS_EmptySet
      <3>2. ASSUME NEW x \in s PROVE Cardinality(s \ {x}) = k /\ s \ {x} \in SUBSET S
        <4>1. Cardinality(s \ {x}) = Cardinality(s) - 1
          BY <3>1, FS_RemoveElement
        <4> QED BY <2>1, <4>1
      <3>3. \A x \in s : s \ {x} \in F
        BY <1>2, <3>2
      <3> QED BY <3>1, <3>3
    <2> QED BY <2>1
  <1>3. Nat \subseteq T
    <2> HIDE DEF T
    <2> QED BY <1>1, <1>2, Induction
  <1>4. \A s \in SUBSET S : Cardinality(s) \in Nat
    BY FS_Subset, FS_CardinalityType
  <1> QED BY <1>3, <1>4

-----------------------------------------------------------------------------
(* Recursion: a function on the subsets of a finite set S that is defined  *)
(* by taking out one element after another does exist. remove[s] is the    *)
(* element to take out, and step combines it with the value for the rest.  *)

IsRecursion(iter, S, V, base, remove, step) ==
    /\ iter \in [SUBSET S -> V]
    /\ iter[{}] = base
    /\ \A s \in (SUBSET S) \ {{}} : iter[s] = step[<<remove[s], iter[s \ {remove[s]}]>>]

LEMMA RecursionExists ==
  ASSUME NEW S, IsFiniteSet(S), NEW V, NEW base \in V,
         NEW remove \in [(SUBSET S) \ {{}} -> S],
         \A s \in (SUBSET S) \ {{}} : remove[s] \in s,
         NEW step \in [S \X V -> V]
  PROVE  \E iter : IsRecursion(iter, S, V, base, remove, step)
  <1> DEFINE Eq(h, s) == h[s] = IF s = {} THEN base
                                ELSE step[<<remove[s], h[s \ {remove[s]}]>>]
             T == {k \in Nat : \E h \in [SUBSET S -> V] :
                      \A s \in SUBSET S : Cardinality(s) <= k => Eq(h, s)}
  <1>1. \A s \in SUBSET S : IsFiniteSet(s) /\ Cardinality(s) \in Nat
    BY FS_Subset, FS_CardinalityType
  <1>2. 0 \in T
    <2>1. \A s \in SUBSET S : Cardinality(s) <= 0 => s = {}
      BY <1>1, FS_EmptySet
    <2>2. \A s \in SUBSET S : Cardinality(s) <= 0 => Eq([t \in SUBSET S |-> base], s)
      BY <2>1
    <2> QED BY <2>2
  <1>3. ASSUME NEW k \in Nat, k \in T PROVE k + 1 \in T
    <2>1. PICK h \in [SUBSET S -> V] : \A s \in SUBSET S : Cardinality(s) <= k => Eq(h, s)
      BY <1>3
    <2> DEFINE g == [s \in SUBSET S |-> IF s = {} THEN base
                                        ELSE step[<<remove[s], h[s \ {remove[s]}]>>]]
    <2>2. g \in [SUBSET S -> V]
      <3>1. ASSUME NEW s \in SUBSET S, s # {}
            PROVE  step[<<remove[s], h[s \ {remove[s]}]>>] \in V
        <4>1. remove[s] \in S /\ h[s \ {remove[s]}] \in V
          BY <3>1
        <4> QED BY <4>1
      <3> QED BY <3>1
    <2>3. \A s \in SUBSET S : Cardinality(s) <= k => g[s] = h[s]
      BY <2>1
    <2>4. ASSUME NEW s \in SUBSET S, s # {}, Cardinality(s) <= k + 1
          PROVE  g[s \ {remove[s]}] = h[s \ {remove[s]}]
      <3>1. remove[s] \in s /\ s \ {remove[s]} \in SUBSET S
        BY <2>4
      <3>2. Cardinality(s \ {remove[s]}) = Cardinality(s) - 1
        BY <1>1, <3>1, FS_RemoveElement
      <3>3. Cardinality(s \ {remove[s]}) <= k
        BY <1>1, <2>4, <3>2
      <3> QED BY <2>3, <3>1, <3>3
    <2>5. \A s \in SUBSET S : Cardinality(s) <= k + 1 => Eq(g, s)
      BY <2>4
    <2>6. \E f \in [SUBSET S -> V] : \A s \in SUBSET S : Cardinality(s) <= k + 1 => Eq(f, s)
      <3> HIDE DEF g, Eq
      <3> QED BY <2>2, <2>5
    <2> HIDE DEF Eq
    <2> QED BY <2>6
  <1>4. Nat \subseteq T
    <2> HIDE DEF T
    <2> QED BY <1>2, <1>3, Induction
  <1>5. PICK h \in [SUBSET S -> V] :
           \A s \in SUBSET S : Cardinality(s) <= Cardinality(S) => Eq(h, s)
    <2>1. Cardinality(S) \in T
      BY <1>1, <1>4
    <2> QED BY <2>1
  <1>6. \A s \in SUBSET S : Eq(h, s)
    BY <1>5, FS_Subset
  <1>7. IsRecursion(h, S, V, base, remove, step)
    BY <1>6 DEF IsRecursion
  <1> QED BY <1>7

-----------------------------------------------------------------------------
(* Sums. FoldFunction(+, 0, f) takes the elements of f's domain in an      *)
(* order of its own; in whatever order they are taken, the sum is the same.*)

Total(f) == FoldFunction(+, 0, f)

(* sum[s] is the sum of f over s, for every s that S includes. *)
IsSum(sum, f, S) ==
    /\ sum \in [SUBSET S -> Int]
    /\ sum[{}] = 0
    /\ \A s \in SUBSET S : \A x \in s : sum[s] = f[x] + sum[s \ {x}]

LEMMA FoldIsSum ==
  ASSUME NEW S, IsFiniteSet(S), NEW f, \A x \in S : f[x] \in Int
  PROVE  \E sum : IsSum(sum, f, S) /\ FoldFunctionOnSet(+, 0, f, S) = sum[S]
  <1> DEFINE Eq(h) == h = [s \in SUBSET S |->
                              IF s = {} THEN 0
                              ELSE f[CHOOSE x \in s : TRUE] + h[s \ {CHOOSE x \in s : TRUE}]]
             sum == CHOOSE h : Eq(h)
  <1>1. PICK any \in [(SUBSET S) \ {{}} -> S] :
           \A s \in (SUBSET S) \ {{}} : any[s] \in s /\ any[s] = CHOOSE x \in s : TRUE
    <2>1. [s \in (SUBSET S) \ {{}} |-> CHOOSE x \in s : TRUE] \in [(SUBSET S) \ {{}} -> S]
      OBVIOUS
    <2> QED BY <2>1
  <1>2. PICK add \in [S \X Int -> Int] : \A x \in S, n \in Int : add[<<x, n>>] = f[x] + n
    <2>1. [e \in S \X Int |-> f[e[1]] + e[2]] \in [S \X Int -> Int]
      OBVIOUS
    <2> QED BY <2>1
  <1>3. PICK h : IsRecursion(h, S, Int, 0, any, add)
    <2>1. 0 \in Int /\ \A s \in (SUBSET S) \ {{}} : any[s] \in s
      BY <1>1
    <2> QED BY <2>1, RecursionExists
  <1>4. Eq(h)
    <2>1. ASSUME NEW s \in SUBSET S, s # {}
          PROVE  h[s] = f[CHOOSE x \in s : TRUE] + h[s \ {CHOOSE x \in s : TRUE}]
      <3>1. any[s] \in S /\ h[s \ {any[s]}] \in Int /\ any[s] = CHOOSE x \in s : TRUE
        BY <1>1, <1>3, <2>1 DEF IsRecursion
      <3>2. h[s] = f[any[s]] + h[s \ {any[s]}]
        BY <1>2, <1>3, <2>1, <3>1 DEF IsRecursion
      <3> QED BY <3>1, <3>2
    <2>2. h \in [SUBSET S -> Int] /\ h[{}] = 0
      BY <1>3 DEF IsRecursion
    <2> QED BY <2>1, <2>2
  <1>5. Eq(sum)
    <2> HIDE DEF Eq
    <2> QED BY <1>4
  <1>6. FoldFunctionOnSet(+, 0, f, S) = sum[S]
    BY DEF FoldFunctionOnSet, MapThenFoldSet
  <1> HIDE DEF sum
  <1>7. /\ DOMAIN sum = SUBSET S /\ sum[{}] = 0
        /\ \A s \in (SUBSET S) \ {{}} : sum[s] = f[any[s]] + sum[s \ {any[s]}]
    <2>1. DOMAIN sum = SUBSET S /\ sum[{}] = 0
      BY <1>5
    <2>2. ASSUME NEW s \in (SUBSET S) \ {{}} PROVE sum[s] = f[any[s]] + sum[s \ {any[s]}]
      BY <1>1, <1>5
    <2> QED BY <2>1, <2>2
  <1> HIDE DEF Eq
  <1>8. \A s \in SUBSET S : sum[s] \in Int
    <2> DEFINE F == {s \in SUBSET S : sum[s] \in Int}
    <2>1. {} \in F
      BY <1>7
    <2>2. ASSUME NEW s \in SUBSET S, s # {}, \A x \in s : s \ {x} \in F PROVE s \in F
      <3>1. any[s] \in s /\ sum[s \ {any[s]}] \in Int
        BY <1>1, <2>2
      <3>2. sum[s] = f[any[s]] + sum[s \ {any[s]}] /\ f[any[s]] \in Int
        BY <1>7, <2>2, <3>1
      <3> QED BY <3>1, <3>2
    <2>3. \A s \in SUBSET S : s \in F
      <3> HIDE DEF F
      <3> QED BY <2>1, <2>2, SubsetInduction
    <2> QED BY <2>3
  <1>9. \A s \in SUBSET S : \A x \in s : sum[s] = f[x] + sum[s \ {x}]
    <2> DEFINE F == {s \in SUBSET S : \A x \in s : sum[s] = f[x] + sum[s \ {x}]}
    <2>1. {} \in F
      OBVIOUS
    <2>2. ASSUME NEW s \in SUBSET S, s # {}, \A x \in s : s \ {x} \in F PROVE s \in F
      <3>1. ASSUME NEW x \in s, x # any[s] PROVE sum[s] = f[x] + sum[s \ {x}]
        <4> DEFINE c == any[s]
        <4>1. c \in s /\ s \ {c} \in SUBSET S /\ s \ {x} \in SUBSET S /\ (s \ {c}) \ {x} \in SUBSET S
          BY <1>1, <2>2
        <4>2. sum[s] = f[c] + sum[s \ {c}]
          BY <1>7, <2>2
        <4>3. sum[s \ {c}] = f[x] + sum[(s \ {c}) \ {x}]
          BY <2>2, <3>1, <4>1
        <4>4. sum[s \ {x}] = f[c] + sum[(s \ {x}) \ {c}]
          BY <2>2, <3>1, <4>1
        <4>5. (s \ {c}) \ {x} = (s \ {x}) \ {c}
          OBVIOUS
        <4>6. /\ f[c] \in Int /\ f[x] \in Int
              /\ sum[(s \ {c}) \ {x}] \in Int
          BY <1>8, <4>1
        <4>7. sum[s] = f[c] + (f[x] + sum[(s \ {c}) \ {x}])
          BY <4>2, <4>3
        <4>8. sum[s \ {x}] = f[c] + sum[(s \ {c}) \ {x}]
          BY <4>4, <4>5
        <4> HIDE DEF c
        <4> QED BY <4>6, <4>7, <4>8
      <3> QED BY <1>7, <2>2, <3>1
    <2>3. \A s \in SUBSET S : s \in F
      <3> HIDE DEF F
      <3> QED BY <2>1, <2>2, SubsetInduction
    <2> QED BY <2>3
  <1>10. sum \in [SUBSET S -> Int]
    <2>1. sum = [s \in SUBSET S |-> sum[s]]
      BY <1>5 DEF Eq
    <2> QED BY <1>8, <2>1
  <1> QED BY <1>6, <1>7, <1>9, <1>10 DEF IsSum

LEMMA TotalIsSum ==
  ASSUME NEW S, IsFiniteSet(S), NEW f \in [S -> Int]
  PROVE  \E sum : IsSum(sum, f, S) /\ Total(f) = sum[S]
  <1>1. Total(f) = FoldFunctionOnSet(+, 0, f, S)
    BY DEF Total, FoldFunction
  <1>2. \A x \in S : f[x] \in Int
    OBVIOUS
  <1> QED BY <1>1, <1>2, FoldIsSum

LEMMA TotalInt ==
  ASSUME NEW S, IsFiniteSet(S), NEW f \in [S -> Int]
  PROVE  Total(f) \in Int
  <1>1. PICK sum : IsSum(sum, f, S) /\ Total(f) = sum[S]
    BY TotalIsSum
  <1> QED BY <1>1 DEF IsSum

(* Sums of functions that agree on s. *)
LEMMA SumAgrees ==
  ASSUME NEW S, IsFiniteSet(S), NEW f \in [S -> Int], NEW g \in [S -> Int],
         NEW sf, IsSum(sf, f, S), NEW sg, IsSum(sg, g, S)
  PROVE  \A s \in SUBSET S : (\A x \in s : f[x] = g[x]) => sf[s] = sg[s]
  <1> DEFINE F == {s \in SUBSET S : (\A x \in s : f[x] = g[x]) => sf[s] = sg[s]}
  <1>1. {} \in F
    BY DEF IsSum
  <1>2. ASSUME NEW s \in SUBSET S, s # {}, \A x \in s : s \ {x} \in F PROVE s \in F
    <2>1. SUFFICES ASSUME \A x \in s : f[x] = g[x] PROVE sf[s] = sg[s]
      OBVIOUS
    <2>2. PICK x \in s : TRUE
      BY <1>2
    <2>3. sf[s \ {x}] = sg[s \ {x}]
      BY <1>2, <2>1
    <2>4. sf[s] = f[x] + sf[s \ {x}] /\ sg[s] = g[x] + sg[s \ {x}]
      BY DEF IsSum
    <2> QED BY <2>1, <2>3, <2>4
  <1>3. \A s \in SUBSET S : s \in F
    <2> HIDE DEF F
    <2> QED BY <1>1, <1>2, SubsetInduction
  <1> QED BY <1>3

(* A sum over a part is the sum of what is zero elsewhere. *)
LEMMA FoldOnPart ==
  ASSUME NEW S, IsFiniteSet(S), NEW f \in [S -> Int], NEW T \in SUBSET S
  PROVE  FoldFunctionOnSet(+, 0, f, T) = Total([x \in S |-> IF x \in T THEN f[x] ELSE 0])
  <1> DEFINE g == [x \in S |-> IF x \in T THEN f[x] ELSE 0]
  <1>1. g \in [S -> Int] /\ \A x \in S : g[x] = IF x \in T THEN f[x] ELSE 0
    OBVIOUS
  <1> HIDE DEF g
  <1>2. PICK sf : IsSum(sf, f, T) /\ FoldFunctionOnSet(+, 0, f, T) = sf[T]
    BY FS_Subset, FoldIsSum
  <1>3. PICK sg : IsSum(sg, g, S) /\ Total(g) = sg[S]
    BY <1>1, TotalIsSum
  <1> DEFINE F == {s \in SUBSET S : sg[s] = sf[s \cap T]}
  <1>4. {} \in F
    <2>1. {} \cap T = {}
      OBVIOUS
    <2> QED BY <1>2, <1>3, <2>1 DEF IsSum
  <1>5. ASSUME NEW s \in SUBSET S, s # {}, \A x \in s : s \ {x} \in F PROVE s \in F
    <2>1. PICK x \in s : TRUE
      BY <1>5
    <2>2. sg[s] = g[x] + sg[s \ {x}] /\ sg[s \ {x}] = sf[(s \ {x}) \cap T]
      BY <1>3, <1>5 DEF IsSum
    <2>3. CASE x \in T
      <3>1. x \in s \cap T /\ s \cap T \in SUBSET T /\ (s \ {x}) \cap T = (s \cap T) \ {x}
        BY <2>3
      <3>2. sf[s \cap T] = f[x] + sf[(s \cap T) \ {x}]
        BY <1>2, <3>1 DEF IsSum
      <3> QED BY <1>1, <2>2, <2>3, <3>1, <3>2
    <2>4. CASE x \notin T
      <3>1. (s \ {x}) \cap T = s \cap T /\ sf[s \cap T] \in Int
        BY <1>2, <2>4 DEF IsSum
      <3> QED BY <1>1, <2>2, <2>4, <3>1
    <2> QED BY <2>3, <2>4
  <1>6. \A s \in SUBSET S : s \in F
    <2> HIDE DEF F
    <2> QED BY <1>4, <1>5, SubsetInduction
  <1>7. S \cap T = T
    OBVIOUS
  <1> QED BY <1>2, <1>3, <1>6, <1>7 DEF g

(* The sum of the sums. *)
LEMMA TotalAdds ==
  ASSUME NEW S, IsFiniteSet(S), NEW f \in [S -> Int], NEW g \in [S -> Int],
         NEW h \in [S -> Int], \A x \in S : h[x] = f[x] + g[x]
  PROVE  Total(h) = Total(f) + Total(g)
  <1>1. PICK sf : IsSum(sf, f, S) /\ Total(f) = sf[S]
    BY TotalIsSum
  <1>2. PICK sg : IsSum(sg, g, S) /\ Total(g) = sg[S]
    BY TotalIsSum
  <1>3. PICK sh : IsSum(sh, h, S) /\ Total(h) = sh[S]
    BY TotalIsSum
  <1> DEFINE F == {s \in SUBSET S : sh[s] = sf[s] + sg[s]}
  <1>4. {} \in F
    BY <1>1, <1>2, <1>3 DEF IsSum
  <1>5. ASSUME NEW s \in SUBSET S, s # {}, \A x \in s : s \ {x} \in F PROVE s \in F
    <2>1. PICK x \in s : TRUE
      BY <1>5
    <2>2. /\ sf[s] = f[x] + sf[s \ {x}] /\ sg[s] = g[x] + sg[s \ {x}]
          /\ sh[s] = h[x] + sh[s \ {x}]
      BY <1>1, <1>2, <1>3 DEF IsSum
    <2>3. sh[s \ {x}] = sf[s \ {x}] + sg[s \ {x}]
      BY <1>5
    <2>4. /\ f[x] \in Int /\ g[x] \in Int /\ h[x] = f[x] + g[x]
          /\ sf[s \ {x}] \in Int /\ sg[s \ {x}] \in Int
      BY <1>1, <1>2 DEF IsSum
    <2> QED BY <2>2, <2>3, <2>4
  <1>6. \A s \in SUBSET S : s \in F
    <2> HIDE DEF F
    <2> QED BY <1>4, <1>5, SubsetInduction
  <1> QED BY <1>1, <1>2, <1>3, <1>6

(* Changing one element changes the sum by as much. *)
LEMMA TotalUpdate ==
  ASSUME NEW S, IsFiniteSet(S), NEW f \in [S -> Int], NEW x \in S, NEW v \in Int
  PROVE  Total([f EXCEPT ![x] = v]) = Total(f) - f[x] + v
  <1> DEFINE g == [f EXCEPT ![x] = v]
  <1>1. g \in [S -> Int] /\ g[x] = v /\ \A y \in S \ {x} : g[y] = f[y]
    OBVIOUS
  <1> HIDE DEF g
  <1>2. PICK sf : IsSum(sf, f, S) /\ Total(f) = sf[S]
    BY TotalIsSum
  <1>3. PICK sg : IsSum(sg, g, S) /\ Total(g) = sg[S]
    BY <1>1, TotalIsSum
  <1>4. sf[S \ {x}] = sg[S \ {x}]
    BY <1>1, <1>2, <1>3, SumAgrees
  <1>5. /\ sf[S] = f[x] + sf[S \ {x}] /\ sg[S] = g[x] + sg[S \ {x}]
        /\ sf[S \ {x}] \in Int /\ f[x] \in Int
    BY <1>2, <1>3 DEF IsSum
  <1>6. Total(g) = Total(f) - f[x] + v
    BY <1>1, <1>2, <1>3, <1>4, <1>5
  <1> QED BY <1>6 DEF g

(* Larger elements have a larger sum, and the sums differ if one does. *)
LEMMA TotalMonotonic ==
  ASSUME NEW S, IsFiniteSet(S), NEW f \in [S -> Int], NEW g \in [S -> Int],
         \A x \in S : f[x] <= g[x]
  PROVE  /\ Total(f) <= Total(g)
         /\ Total(f) = Total(g) => f = g
  <1>1. PICK sf : IsSum(sf, f, S) /\ Total(f) = sf[S]
    BY TotalIsSum
  <1>2. PICK sg : IsSum(sg, g, S) /\ Total(g) = sg[S]
    BY TotalIsSum
  <1> DEFINE F == {s \in SUBSET S : /\ sf[s] <= sg[s]
                                    /\ sf[s] = sg[s] => \A x \in s : f[x] = g[x]}
  <1>3. {} \in F
    BY <1>1, <1>2 DEF IsSum
  <1>4. ASSUME NEW s \in SUBSET S, s # {}, \A x \in s : s \ {x} \in F PROVE s \in F
    <2>1. ASSUME NEW x \in s PROVE sf[s] <= sg[s] /\ (sf[s] = sg[s] => f[x] = g[x])
      <3>1. /\ sf[s] = f[x] + sf[s \ {x}] /\ sg[s] = g[x] + sg[s \ {x}]
            /\ sf[s \ {x}] \in Int /\ sg[s \ {x}] \in Int /\ f[x] \in Int /\ g[x] \in Int
        BY <1>1, <1>2 DEF IsSum
      <3>2. sf[s \ {x}] <= sg[s \ {x}]
        BY <1>4
      <3> QED BY <3>1, <3>2
    <2> QED BY <1>4, <2>1
  <1>5. \A s \in SUBSET S : s \in F
    <2> HIDE DEF F
    <2> QED BY <1>3, <1>4, SubsetInduction
  <1>6. sf[S] <= sg[S] /\ (sf[S] = sg[S] => \A x \in S : f[x] = g[x])
    BY <1>5
  <1> QED BY <1>1, <1>2, <1>6

LEMMA TotalZero ==
  ASSUME NEW S, IsFiniteSet(S), NEW f \in [S -> Int], \A x \in S : f[x] = 0
  PROVE  Total(f) = 0
  <1>1. Total(f) = Total(f) + Total(f)
    BY TotalAdds
  <1> QED BY <1>1, TotalInt

LEMMA TotalNat ==
  ASSUME NEW S, IsFiniteSet(S), NEW f \in [S -> Int], \A x \in S : f[x] >= 0
  PROVE  Total(f) >= 0
  <1> DEFINE z == [x \in S |-> 0]
  <1>1. z \in [S -> Int] /\ \A x \in S : z[x] = 0
    OBVIOUS
  <1> HIDE DEF z
  <1>2. Total(z) = 0 /\ \A x \in S : z[x] <= f[x]
    BY <1>1, TotalZero
  <1>3. Total(z) <= Total(f)
    BY <1>1, <1>2, TotalMonotonic
  <1> QED BY <1>2, <1>3, TotalInt

(* A sum is positive only if an element is. *)
LEMMA TotalPositive ==
  ASSUME NEW S, IsFiniteSet(S), NEW f \in [S -> Int], Total(f) > 0
  PROVE  \E x \in S : f[x] > 0
  <1> DEFINE z == [x \in S |-> 0]
  <1>1. SUFFICES ASSUME \A x \in S : f[x] <= 0 PROVE FALSE
    OBVIOUS
  <1>2. z \in [S -> Int] /\ \A x \in S : z[x] = 0
    OBVIOUS
  <1> HIDE DEF z
  <1>3. Total(z) = 0 /\ \A x \in S : f[x] <= z[x]
    BY <1>1, <1>2, TotalZero
  <1>4. Total(f) <= Total(z)
    BY <1>2, <1>3, TotalMonotonic
  <1> QED BY <1>3, <1>4, TotalInt

-----------------------------------------------------------------------------
(* Folds over sequences. FoldLeft is defined by taking out the largest     *)
(* index; its intermediate results form a run through the sequence.        *)

LEMMA LargestIndex ==
  ASSUME NEW n \in Nat, NEW s \in SUBSET (1 .. n), s # {}
  PROVE  Max(s) \in s /\ \A i \in s : i <= Max(s)
  <1> DEFINE T == {m \in Nat : n - m \in s}
  <1>1. T \in SUBSET Nat /\ T # {}
    <2>1. PICK i \in s : i \in 1 .. n
      OBVIOUS
    <2>2. n - i \in Nat /\ n - (n - i) = i
      BY <2>1
    <2>3. n - i \in T
      BY <2>2
    <2> QED BY <2>3
  <1>2. PICK m \in T : \A k \in T : m <= k
    <2> HIDE DEF T
    <2> QED BY <1>1, LeastNumber
  <1>3. m \in Nat /\ n - m \in s
    BY <1>2
  <1>4. ASSUME NEW j \in s PROVE n - m >= j
    <2>1. j \in 1 .. n
      OBVIOUS
    <2>2. n - j \in Nat /\ n - (n - j) = j
      BY <2>1
    <2>3. m <= n - j
      BY <1>2, <2>2
    <2> QED BY <1>3, <2>1, <2>3
  <1>5. Max(s) \in s /\ \A j \in s : Max(s) >= j
    BY <1>3, <1>4 DEF Max
  <1>6. s \subseteq Int
    OBVIOUS
  <1> QED BY <1>5, <1>6

LEMMA UpTo ==
  ASSUME NEW n \in Nat, NEW k \in 1 .. n
  PROVE  1 .. k \in (SUBSET (1 .. n)) \ {{}} /\ (1 .. k) \ {k} = 1 .. (k - 1)
  <1>1. k \in 1 .. k /\ \A i \in 1 .. k : i \in 1 .. n
    OBVIOUS
  <1>2. \A i \in Int : i \in (1 .. k) \ {k} <=> i \in 1 .. (k - 1)
    OBVIOUS
  <1>3. (1 .. k) \ {k} \subseteq Int /\ 1 .. (k - 1) \subseteq Int
    OBVIOUS
  <1>4. (1 .. k) \ {k} = 1 .. (k - 1)
    BY <1>2, <1>3
  <1> QED BY <1>1, <1>4

(* step combines the result so far with the next element. *)
IsRun(run, V, E, step, base, p) ==
    /\ step \in [V \X E -> V] /\ p \in Seq(E)
    /\ run \in [0 .. Len(p) -> V]
    /\ run[0] = base
    /\ \A k \in 1 .. Len(p) : run[k] = step[<<run[k - 1], p[k]>>]

(* FoldLeft's own recursion: fold[k] is the result for the indices in k.   *)
IsFold(fold, V, E, step, base, p) ==
    /\ step \in [V \X E -> V] /\ p \in Seq(E)
    /\ fold \in [SUBSET DOMAIN p -> V]
    /\ fold[{}] = base
    /\ \A k \in (SUBSET DOMAIN p) \ {{}} :
          Max(k) \in k /\ fold[k] = step[<<fold[k \ {Max(k)}], p[Max(k)]>>]

LEMMA FoldExists ==
  ASSUME NEW V, NEW E, NEW step \in [V \X E -> V], NEW base \in V, NEW p \in Seq(E)
  PROVE  \E fold : IsFold(fold, V, E, step, base, p)
  <1> DEFINE n == Len(p)
  <1>1. n \in Nat /\ DOMAIN p = 1 .. n /\ IsFiniteSet(1 .. n) /\ \A i \in 1 .. n : p[i] \in E
    BY FS_Interval
  <1> HIDE DEF n
  <1>2. PICK max \in [(SUBSET (1 .. n)) \ {{}} -> 1 .. n] :
           \A k \in (SUBSET (1 .. n)) \ {{}} : max[k] \in k /\ max[k] = Max(k)
    <2>1. \A k \in (SUBSET (1 .. n)) \ {{}} : Max(k) \in k
      BY <1>1, LargestIndex
    <2>2. [k \in (SUBSET (1 .. n)) \ {{}} |-> Max(k)] \in [(SUBSET (1 .. n)) \ {{}} -> 1 .. n]
      BY <2>1
    <2> QED BY <2>1, <2>2
  <1>3. PICK take \in [(1 .. n) \X V -> V] :
           \A i \in 1 .. n, v \in V : take[<<i, v>>] = step[<<v, p[i]>>]
    <2> DEFINE t == [x \in (1 .. n) \X V |-> step[<<x[2], p[x[1]]>>]]
    <2>1. \A i \in 1 .. n, v \in V : step[<<v, p[i]>>] \in V
      BY <1>1
    <2>2. t \in [(1 .. n) \X V -> V]
      BY <2>1
    <2>3. \A i \in 1 .. n, v \in V : t[<<i, v>>] = step[<<v, p[i]>>]
      OBVIOUS
    <2> QED BY <2>2, <2>3
  <1>4. PICK h : IsRecursion(h, 1 .. n, V, base, max, take)
    <2>1. \A k \in (SUBSET (1 .. n)) \ {{}} : max[k] \in k
      BY <1>2
    <2> QED BY <1>1, <2>1, RecursionExists
  <1>5. h \in [SUBSET (1 .. n) -> V] /\ h[{}] = base
    BY <1>4 DEF IsRecursion
  <1>6. ASSUME NEW k \in (SUBSET (1 .. n)) \ {{}}
        PROVE  Max(k) \in k /\ h[k] = step[<<h[k \ {Max(k)}], p[Max(k)]>>]
    <2>1. h[k] = take[<<max[k], h[k \ {max[k]}]>>] /\ max[k] = Max(k) /\ max[k] \in k
      BY <1>2, <1>4 DEF IsRecursion
    <2>2. max[k] \in 1 .. n /\ h[k \ {max[k]}] \in V
      BY <1>2, <1>5
    <2> QED BY <1>3, <2>1, <2>2
  <1>7. IsFold(h, V, E, step, base, p)
    BY <1>1, <1>5, <1>6 DEF IsFold
  <1> QED BY <1>7

LEMMA FoldIsRun ==
  ASSUME NEW V, NEW E, NEW step, NEW base, NEW p, NEW fold, IsFold(fold, V, E, step, base, p)
  PROVE  \E run : IsRun(run, V, E, step, base, p) /\ fold[DOMAIN p] = run[Len(p)]
  <1> DEFINE n == Len(p)
             run == [k \in 0 .. n |-> fold[1 .. k]]
  <1>1. n \in Nat /\ DOMAIN p = 1 .. n
    BY DEF IsFold
  <1>2. \A k \in 1 .. n : 1 .. k \in (SUBSET (1 .. n)) \ {{}} /\ (1 .. k) \ {k} = 1 .. (k - 1)
    BY <1>1, UpTo
  <1>3. 1 .. 0 = {}
    OBVIOUS
  <1>4. \A k \in 0 .. n : 1 .. k \in SUBSET (1 .. n)
    BY <1>1
  <1> HIDE DEF n
  <1>5. run \in [0 .. n -> V] /\ run[0] = base
    <2>1. \A k \in 0 .. n : fold[1 .. k] \in V
      BY <1>1, <1>4 DEF IsFold
    <2>2. fold[1 .. 0] = base
      BY <1>3 DEF IsFold
    <2> QED BY <1>1, <2>1, <2>2
  <1>6. ASSUME NEW k \in 1 .. n PROVE run[k] = step[<<run[k - 1], p[k]>>]
    <2>1. Max(1 .. k) = k
      <3>1. Max(1 .. k) \in 1 .. k /\ \A i \in 1 .. k : i <= Max(1 .. k)
        BY <1>1, <1>2, LargestIndex
      <3>2. k \in 1 .. k
        BY <1>1
      <3> QED BY <3>1, <3>2
    <2>2. fold[1 .. k] = step[<<fold[1 .. (k - 1)], p[k]>>]
      BY <1>1, <1>2, <2>1 DEF IsFold
    <2>3. k \in 0 .. n /\ k - 1 \in 0 .. n
      BY <1>1
    <2> QED BY <2>2, <2>3
  <1>7. run[n] = fold[1 .. n]
    BY <1>1
  <1> HIDE DEF run
  <1>8. IsRun(run, V, E, step, base, p)
    BY <1>1, <1>5, <1>6 DEF IsRun, IsFold, n
  <1> QED BY <1>1, <1>7, <1>8 DEF n

(* Runs that begin alike go alike. *)
Begins(p, q) ==
    Len(p) <= Len(q) /\ \A k \in 1 .. Len(p) : p[k] = q[k]

HeadAndTail(p, e, rest) == p # <<>> /\ e = Head(p) /\ rest = Tail(p)

Longer(p, e, q) == q = Append(p, e)

LEMMA RunsAgree ==
  ASSUME NEW V, NEW E, NEW step, NEW base, NEW p, NEW q, Begins(p, q),
         NEW f, IsRun(f, V, E, step, base, p), NEW g, IsRun(g, V, E, step, base, q)
  PROVE  f[Len(p)] = g[Len(p)]
  <1> DEFINE n == Len(p)
             T == {k \in 0 .. n : f[k] = g[k]}
  <1>1. n \in Nat /\ Len(q) \in Nat /\ n <= Len(q) /\ \A k \in 1 .. n : p[k] = q[k]
    BY DEF IsRun, Begins
  <1>2. 0 \in T
    BY <1>1 DEF IsRun
  <1>3. ASSUME NEW k \in 0 .. n - 1, k \in T PROVE k + 1 \in T
    <2>1. k + 1 \in 1 .. n /\ k + 1 \in 1 .. Len(q) /\ k + 1 \in 0 .. n /\ (k + 1) - 1 = k
      BY <1>1
    <2>2. f[k + 1] = step[<<f[k], p[k + 1]>>] /\ g[k + 1] = step[<<g[k], q[k + 1]>>]
      BY <2>1 DEF IsRun
    <2> QED BY <1>1, <1>3, <2>1, <2>2
  <1>4. \A k \in 0 .. n : k \in T
    <2> HIDE DEF T, n
    <2> QED BY <1>1, <1>2, <1>3, BoundedInduction
  <1> QED BY <1>1, <1>4

(* The first element may be folded into the base, *)
LEMMA RunHead ==
  ASSUME NEW V, NEW E, NEW step, NEW base \in V,
         NEW p, NEW e, NEW rest, HeadAndTail(p, e, rest),
         NEW f, IsRun(f, V, E, step, base, p),
         NEW g, IsRun(g, V, E, step, step[<<base, e>>], rest)
  PROVE  f[Len(p)] = g[Len(rest)]
  <1> DEFINE h == [k \in 0 .. Len(rest) |-> f[k + 1]]
             first == step[<<base, e>>]
  <1>1. /\ p \in Seq(E) /\ rest \in Seq(E) /\ Len(rest) = Len(p) - 1 /\ Len(p) \in Nat \ {0}
        /\ \A k \in 1 .. Len(rest) : rest[k] = p[k + 1]
        /\ e = p[1] /\ e \in E
    BY DEF IsRun, HeadAndTail
  <1>2. IsRun(h, V, E, step, first, rest)
    <2>1. h \in [0 .. Len(rest) -> V]
      BY <1>1 DEF IsRun
    <2>2. h[0] = first
      BY <1>1 DEF IsRun
    <2>3. ASSUME NEW k \in 1 .. Len(rest)
          PROVE  h[k] = step[<<h[k - 1], rest[k]>>]
      <3>1. /\ k + 1 \in 1 .. Len(p) /\ (k + 1) - 1 = k
            /\ k - 1 \in 0 .. Len(rest) /\ (k - 1) + 1 = k
        BY <1>1
      <3>2. f[k + 1] = step[<<f[k], p[k + 1]>>]
        BY <3>1 DEF IsRun
      <3>3. h[k] = f[k + 1] /\ h[k - 1] = f[k] /\ rest[k] = p[k + 1]
        BY <1>1, <3>1
      <3> QED BY <3>2, <3>3
    <2> HIDE DEF h
    <2> QED BY <1>1, <2>1, <2>2, <2>3 DEF IsRun
  <1>3. h[Len(rest)] = f[Len(p)]
    BY <1>1
  <1>4. h[Len(rest)] = g[Len(rest)]
    <2>1. Begins(rest, rest)
      BY <1>1 DEF Begins
    <2>2. ASSUME NEW r, IsRun(r, V, E, step, first, rest) PROVE r[Len(rest)] = g[Len(rest)]
      <3>1. IsRun(g, V, E, step, first, rest)
        OBVIOUS
      <3> QED BY ONLY <2>1, <2>2, <3>1, RunsAgree
    <2> HIDE DEF h
    <2> QED BY <1>2, <2>2
  <1> QED BY <1>3, <1>4

(* and the last one into the result. *)
LEMMA RunLast ==
  ASSUME NEW V, NEW E, NEW step, NEW base, NEW p, NEW e \in E, NEW q, Longer(p, e, q),
         NEW f, IsRun(f, V, E, step, base, p), NEW g, IsRun(g, V, E, step, base, q)
  PROVE  g[Len(q)] = step[<<f[Len(p)], e>>]
  <1>1. /\ Len(p) \in Nat /\ Len(q) = Len(p) + 1
        /\ \A k \in 1 .. Len(p) : q[k] = p[k]
        /\ q[Len(p) + 1] = e
    BY DEF IsRun, Longer
  <1>2. f[Len(p)] = g[Len(p)]
    <2>1. Begins(p, q)
      BY <1>1 DEF Begins
    <2> QED BY <2>1, RunsAgree
  <1>3. Len(p) + 1 \in 1 .. Len(q) /\ (Len(p) + 1) - 1 = Len(p)
    BY <1>1
  <1>4. g[Len(p) + 1] = step[<<g[Len(p)], q[Len(p) + 1]>>]
    BY <1>3 DEF IsRun
  <1> QED BY <1>1, <1>2, <1>4

=============================================================================
