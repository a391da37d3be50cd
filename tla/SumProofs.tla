----------------------------- MODULE SumProofs -----------------------------
(***************************************************************************)
(* Sums over a finite set, as the community module Functions defines them: *)
(* what one more summand, one changed summand or a smaller set does to the *)
(* sum.  The library's own facts on folds are about operators that the     *)
(* provers cannot instantiate, so the induction is by hand: among the sets *)
(* for which a fact fails there would be a minimal one.                    *)
(***************************************************************************)
EXTENDS Integers, Functions, FiniteSetTheorems, WellFoundedInduction, TLAPS

(* A minimal counterexample instead of induction: among sets that are subsets *)
(* of a finite one, there is one without a smaller one.                       *)
LEMMA MinimalSet ==
  ASSUME NEW S, IsFiniteSet(S), NEW Bad \in SUBSET SUBSET S, Bad # {}
  PROVE  \E U \in Bad : \A V \in Bad : V \subseteq U => V = U
<1>1. FiniteSubsetsOf(S) = SUBSET S
  BY FS_FiniteSubsetsOfFinite
<1>2. IsWellFoundedOn(StrictSubsetOrdering(S), SUBSET S)
  BY <1>1, FS_StrictSubsetOrderingWellFounded
<1>3. PICK U \in Bad : \A V \in Bad : ~ (<<V, U>> \in StrictSubsetOrdering(S))
  BY <1>2, WFMin
<1> QED
  BY <1>3 DEF StrictSubsetOrdering

(* Among naturals one is least: the first row of an ordered select.          *)
LEMMA LeastNat ==
  ASSUME NEW T \in SUBSET Nat, T # {}
  PROVE  \E n \in T : \A m \in T : n <= m
<1> DEFINE R == {ss \in Nat \X Nat : ss[1] < ss[2]}
<1>1. IsWellFoundedOn(R, Nat)
  BY NatLessThanWellFounded DEF OpToRel
<1> HIDE DEF R
<1>2. PICK n \in T : \A m \in T : <<m, n>> \notin R
  BY <1>1, WFMin
<1>3. ASSUME NEW m \in T PROVE n <= m
  <2>1. m \in Nat /\ n \in Nat /\ ~(<<m, n>>[1] < <<m, n>>[2])
    BY <1>2, <1>3 DEF R
  <2> QED
    BY <2>1
<1> QED
  BY <1>3

(* A sum of f as a function of the set that is summed over. *)
Measure(f, S, m) ==
  /\ m \in [SUBSET S -> Int] /\ m[{}] = 0
  /\ \A U \in SUBSET S, x \in S : x \notin U => m[U \cup {x}] = m[U] + f[x]

LEMMA MeasureExists ==
  ASSUME NEW S, IsFiniteSet(S), NEW f, \A x \in S : f[x] \in Int
  PROVE  \E m : Measure(f, S, m)
<1> DEFINE Bad == {U \in SUBSET S : ~ \E m : Measure(f, U, m)}
<1>1. SUFFICES ASSUME Bad # {} PROVE FALSE
  OBVIOUS
<1>2. PICK U \in Bad : \A V \in Bad : V \subseteq U => V = U
  <2>1. Bad \in SUBSET SUBSET S
    OBVIOUS
  <2> HIDE DEF Bad
  <2> QED
    BY <1>1, <2>1, MinimalSet
<1>3. U # {}
  <2>1. SUFFICES ASSUME U = {} PROVE FALSE
    OBVIOUS
  <2>2. Measure(f, {}, [V \in SUBSET {} |-> 0])
    BY DEF Measure
  <2> QED
    BY <2>1, <2>2, <1>2
<1>4. PICK e \in U : TRUE
  BY <1>3
<1>5. PICK m : Measure(f, U \ {e}, m)
  BY <1>2, <1>4
<1> DEFINE n == [V \in SUBSET U |-> IF e \in V THEN m[V \ {e}] + f[e] ELSE m[V]]
<1>6. f[e] \in Int /\ U \subseteq S
  BY <1>2, <1>4
<1>7. n \in [SUBSET U -> Int] /\ n[{}] = 0
  BY <1>5, <1>6 DEF Measure
<1>8. ASSUME NEW V \in SUBSET U, NEW x \in U, x \notin V PROVE n[V \cup {x}] = n[V] + f[x]
  <2>0. V \cup {x} \in SUBSET U
    OBVIOUS
  <2>1. CASE x = e
    <3>1. (V \cup {x}) \ {e} = V /\ V \in SUBSET (U \ {e})
      BY <1>8, <2>1
    <3> QED
      BY <3>1, <2>0, <2>1, <1>8
  <2>2. CASE x # e /\ e \in V
    <3> DEFINE W == V \ {e}
    <3>1. /\ (V \cup {x}) \ {e} = W \cup {x} /\ W \in SUBSET (U \ {e})
          /\ x \in U \ {e} /\ x \notin W
      BY <1>8, <2>2
    <3>2. m[W \cup {x}] = m[W] + f[x] /\ m[W] \in Int /\ f[x] \in Int
      <4> HIDE DEF W
      <4> QED BY <3>1, <1>5, <1>6 DEF Measure
    <3>3. n[V] = m[W] + f[e]
      BY <2>2
    <3>4. n[V \cup {x}] = m[W \cup {x}] + f[e]
      BY <2>2, <2>0, <3>1
    <3> HIDE DEF n, W
    <3> QED
      BY <3>2, <3>3, <3>4, <1>6
  <2>3. CASE x # e /\ e \notin V
    <3>1. V \in SUBSET (U \ {e}) /\ x \in U \ {e}
      BY <2>3
    <3>2. m[V \cup {x}] = m[V] + f[x]
      BY <3>1, <1>5, <1>8 DEF Measure
    <3> QED
      BY <3>2, <2>0, <2>3
  <2> QED
    BY <2>1, <2>2, <2>3
<1>9. Measure(f, U, n)
  BY <1>7, <1>8 DEF Measure
<1> QED
  BY <1>9, <1>2

(* The recursion behind the community module's sum. *)
Unrolled(f, S, iter) ==
  iter = [U \in SUBSET S |->
            IF U = {} THEN 0
            ELSE f[CHOOSE x \in U : TRUE] + iter[U \ {CHOOSE x \in U : TRUE}]]

LEMMA UnrolledIsMeasure ==
  ASSUME NEW S, IsFiniteSet(S), NEW f, \A x \in S : f[x] \in Int,
         NEW m, Measure(f, S, m), NEW iter, Unrolled(f, S, iter)
  PROVE  iter[S] = m[S]
<1> DEFINE Bad == {U \in SUBSET S : iter[U] # m[U]}
<1>1. SUFFICES ASSUME Bad # {} PROVE FALSE
  OBVIOUS
<1>2. PICK U \in Bad : \A V \in Bad : V \subseteq U => V = U
  <2>1. Bad \in SUBSET SUBSET S
    OBVIOUS
  <2> HIDE DEF Bad
  <2> QED
    BY <1>1, <2>1, MinimalSet
<1>3. U # {}
  BY <1>2 DEF Unrolled, Measure
<1> DEFINE e == CHOOSE x \in U : TRUE
<1>4. e \in U
  BY <1>3
<1>5. iter[U] = f[e] + iter[U \ {e}]
  BY <1>2, <1>3 DEF Unrolled
<1> HIDE DEF e
<1>6. U \ {e} \notin Bad /\ U \ {e} \in SUBSET S
  BY <1>2, <1>4
<1>7. iter[U \ {e}] = m[U \ {e}] /\ m[U \ {e}] \in Int /\ f[e] \in Int
  BY <1>2, <1>4, <1>6 DEF Measure
<1>8. m[U] = m[U \ {e}] + f[e]
  <2>1. e \in S /\ e \notin U \ {e} /\ (U \ {e}) \cup {e} = U
    BY <1>2, <1>4
  <2> QED
    BY <2>1, <1>6 DEF Measure
<1>9. m[U] = f[e] + m[U \ {e}]
  BY <1>7, <1>8
<1>10. iter[U] # m[U]
  BY <1>2
<1>11. iter[U] = f[e] + m[U \ {e}]
  BY <1>5, <1>7
<1> QED
  BY <1>9, <1>10, <1>11

LEMMA SumIsMeasure ==
  ASSUME NEW S, IsFiniteSet(S), NEW f, \A x \in S : f[x] \in Int, NEW m, Measure(f, S, m)
  PROVE  SumFunctionOnSet(f, S) = m[S]
<1>1. Unrolled(f, S, m)
  <2>1. ASSUME NEW U \in SUBSET S, U # {}
        PROVE  m[U] = f[CHOOSE x \in U : TRUE] + m[U \ {CHOOSE x \in U : TRUE}]
    <3> DEFINE e == CHOOSE x \in U : TRUE
    <3>1. e \in U
      BY <2>1
    <3> HIDE DEF e
    <3>2. /\ e \in S /\ U \ {e} \in SUBSET S /\ e \notin U \ {e}
          /\ (U \ {e}) \cup {e} = U /\ f[e] \in Int
      BY <3>1
    <3>3. m[U] = m[U \ {e}] + f[e] /\ m[U \ {e}] \in Int
      BY <3>2 DEF Measure
    <3>4. m[U] = f[e] + m[U \ {e}]
      BY <3>2, <3>3
    <3> QED
      BY <3>4 DEF e
  <2>2. m = [U \in SUBSET S |-> m[U]] /\ m[{}] = 0
    BY DEF Measure
  <2> QED
    BY <2>1, <2>2 DEF Unrolled
<1> DEFINE iter == CHOOSE it : Unrolled(f, S, it)
<1>2. Unrolled(f, S, iter)
  BY <1>1
<1>3. SumFunctionOnSet(f, S) = iter[S]
  BY DEF SumFunctionOnSet, FoldFunctionOnSet, MapThenFoldSet, Unrolled
<1> QED
  BY <1>2, <1>3, UnrolledIsMeasure

LEMMA SumOfNone == \A f : SumFunctionOnSet(f, {}) = 0
<1> SUFFICES ASSUME NEW f PROVE SumFunctionOnSet(f, {}) = 0
  OBVIOUS
<1>1. Measure(f, {}, [U \in SUBSET {} |-> 0]) /\ IsFiniteSet({})
  BY FS_EmptySet DEF Measure
<1> QED
  BY <1>1, SumIsMeasure

LEMMA SumOfOneMore ==
  ASSUME NEW S, IsFiniteSet(S), NEW e, e \notin S, NEW f, \A x \in S \cup {e} : f[x] \in Int
  PROVE  /\ SumFunctionOnSet(f, S) \in Int
         /\ SumFunctionOnSet(f, S \cup {e}) = SumFunctionOnSet(f, S) + f[e]
<1>1. IsFiniteSet(S \cup {e})
  BY FS_AddElement
<1>2. PICK m : Measure(f, S \cup {e}, m)
  BY <1>1, MeasureExists
<1> DEFINE n == [U \in SUBSET S |-> m[U]]
<1>3. Measure(f, S, n)
  BY <1>2 DEF Measure
<1>4. SumFunctionOnSet(f, S) = m[S] /\ m[S] \in Int
  <2>1. SumFunctionOnSet(f, S) = n[S]
    BY <1>3, SumIsMeasure
  <2> QED
    BY <2>1, <1>2 DEF Measure
<1>5. SumFunctionOnSet(f, S \cup {e}) = m[S \cup {e}]
  BY <1>1, <1>2, SumIsMeasure
<1>6. m[S \cup {e}] = m[S] + f[e]
  BY <1>2 DEF Measure
<1> QED
  BY <1>4, <1>5, <1>6

LEMMA SumType ==
  ASSUME NEW S, IsFiniteSet(S), NEW f, \A x \in S : f[x] \in Int
  PROVE  SumFunctionOnSet(f, S) \in Int
<1>1. PICK m : Measure(f, S, m)
  BY MeasureExists
<1>2. SumFunctionOnSet(f, S) = m[S]
  BY <1>1, SumIsMeasure
<1> QED
  BY <1>1, <1>2 DEF Measure

(* A sum of less over fewer is less, if what is left out is not negative. *)
LEMMA SumBound ==
  ASSUME NEW S, IsFiniteSet(S), NEW T \in SUBSET S, NEW f, NEW g,
         \A x \in S : g[x] \in Int,
         \A x \in T : f[x] \in Int /\ f[x] <= g[x],
         \A x \in S \ T : g[x] >= 0
  PROVE  SumFunctionOnSet(f, T) <= SumFunctionOnSet(g, S)
<1> DEFINE Bad == {U \in SUBSET S :
                    ~ (SumFunctionOnSet(f, U \cap T) <= SumFunctionOnSet(g, U))}
<1>1. SUFFICES ASSUME Bad # {} PROVE FALSE
  <2>1. ~ (SumFunctionOnSet(f, T) <= SumFunctionOnSet(g, S)) => S \in Bad
    <3>1. S \cap T = T
      OBVIOUS
    <3> QED
      BY <3>1
  <2> QED
    BY <2>1
<1>2. PICK U \in Bad : \A V \in Bad : V \subseteq U => V = U
  <2>1. Bad \in SUBSET SUBSET S
    OBVIOUS
  <2> HIDE DEF Bad
  <2> QED
    BY <1>1, <2>1, MinimalSet
<1>3. U # {}
  <2>1. SUFFICES ASSUME U = {} PROVE FALSE
    OBVIOUS
  <2>2. U \cap T = {}
    BY <2>1
  <2> QED
    BY <2>1, <2>2, <1>2, SumOfNone
<1>4. PICK e \in U : TRUE
  BY <1>3
<1> DEFINE V == U \ {e}
<1>5. /\ U \in SUBSET S /\ e \notin V /\ U = V \cup {e} /\ V \in SUBSET S /\ IsFiniteSet(V)
      /\ IsFiniteSet(V \cap T) /\ V # U
  BY <1>2, <1>4, FS_Subset
<1>6. SumFunctionOnSet(f, V \cap T) <= SumFunctionOnSet(g, V)
  BY <1>2, <1>5
<1> HIDE DEF V
<1>7. /\ SumFunctionOnSet(g, V) \in Int
      /\ SumFunctionOnSet(g, U) = SumFunctionOnSet(g, V) + g[e]
  <2>1. \A x \in V \cup {e} : g[x] \in Int
    BY <1>5
  <2> QED
    BY <1>5, <2>1, SumOfOneMore
<1>8. SumFunctionOnSet(f, V \cap T) \in Int
  BY <1>5, SumType
<1>9. CASE e \in T
  <2>1. /\ U \cap T = (V \cap T) \cup {e} /\ e \notin V \cap T
        /\ \A x \in (V \cap T) \cup {e} : f[x] \in Int
    BY <1>5, <1>9
  <2>2. SumFunctionOnSet(f, U \cap T) = SumFunctionOnSet(f, V \cap T) + f[e]
    BY <1>5, <2>1, SumOfOneMore
  <2>3. f[e] \in Int /\ g[e] \in Int /\ f[e] <= g[e]
    BY <1>5, <1>9
  <2>4. SumFunctionOnSet(f, U \cap T) <= SumFunctionOnSet(g, U)
    BY <2>2, <2>3, <1>6, <1>7, <1>8
  <2> QED
    BY <2>4, <1>2
<1>10. CASE e \notin T
  <2>1. U \cap T = V \cap T
    BY <1>5, <1>10
  <2>2. g[e] \in Int /\ g[e] >= 0
    BY <1>5, <1>10
  <2>3. SumFunctionOnSet(f, U \cap T) <= SumFunctionOnSet(g, U)
    BY <2>1, <2>2, <1>6, <1>7, <1>8
  <2> QED
    BY <2>3, <1>2
<1> QED
  BY <1>9, <1>10

LEMMA SumOfSame ==
  ASSUME NEW S, IsFiniteSet(S), NEW f, NEW g, \A x \in S : f[x] \in Int /\ g[x] = f[x]
  PROVE  SumFunctionOnSet(g, S) = SumFunctionOnSet(f, S)
<1>1. SumFunctionOnSet(f, S) \in Int /\ SumFunctionOnSet(g, S) \in Int
  BY SumType
<1>2. /\ SumFunctionOnSet(f, S) <= SumFunctionOnSet(g, S)
      /\ SumFunctionOnSet(g, S) <= SumFunctionOnSet(f, S)
  BY SumBound
<1> QED
  BY <1>1, <1>2

(* One entry moves, and the sum by as much. *)
LEMMA SumOfChange ==
  ASSUME NEW S, IsFiniteSet(S), NEW e \in S, NEW f, NEW g,
         \A x \in S : f[x] \in Int /\ g[x] \in Int, \A x \in S \ {e} : g[x] = f[x]
  PROVE  SumFunctionOnSet(g, S) = SumFunctionOnSet(f, S) + (g[e] - f[e])
<1> DEFINE V == S \ {e}
<1>1. IsFiniteSet(V) /\ e \notin V /\ S = V \cup {e}
  BY FS_Subset
<1>2. SumFunctionOnSet(g, V) = SumFunctionOnSet(f, V) /\ SumFunctionOnSet(f, V) \in Int
  BY <1>1, SumOfSame, SumType
<1> HIDE DEF V
<1>3. /\ SumFunctionOnSet(f, S) = SumFunctionOnSet(f, V) + f[e]
      /\ SumFunctionOnSet(g, S) = SumFunctionOnSet(g, V) + g[e]
  <2>1. \A x \in V \cup {e} : f[x] \in Int /\ g[x] \in Int
    BY <1>1
  <2> QED
    BY <1>1, <2>1, SumOfOneMore
<1>4. f[e] \in Int /\ g[e] \in Int
  OBVIOUS
<1> QED
  BY <1>2, <1>3, <1>4

=============================================================================
