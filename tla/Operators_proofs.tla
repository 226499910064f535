--------------------------- MODULE Operators_proofs ---------------------------
(***************************************************************************)
(* Lemmas about the operators the models are built from: the sum of the    *)
(* values a function has on a finite set, in whatever order it is taken,   *)
(* and the date arithmetic of PlanCalendar, for all dates and frequencies. *)
(* Both are recursive functions, so the lemmas begin with the induction    *)
(* they need, over numbers and over finite sets.                           *)
(***************************************************************************)
EXTENDS PlanCalendar, Functions, FiniteSets, TLAPS, WellFoundedInduction,
        FiniteSetTheorems

-----------------------------------------------------------------------------
(* Induction *)

(* A set of numbers that is not empty has a least element. *)
LEMMA LeastElement ==
  ASSUME NEW T, T \subseteq Nat, T # {}
  PROVE  \E x \in T : \A y \in T : x <= y
<1>1. PICK x \in T : \A y \in T : ~(<<y, x>> \in OpToRel(<, Nat))
  BY WFMin, NatLessThanWellFounded
<1>2. \A y \in T : ~(y < x)
  BY <1>1 DEF OpToRel
<1> QED
  BY <1>2

(* A set of numbers that has 0, and with each number the next, has them all. *)
LEMMA EveryNumber ==
  ASSUME NEW N, N \subseteq Nat, 0 \in N, \A n \in N : n + 1 \in N
  PROVE  N = Nat
<1> SUFFICES ASSUME Nat \ N # {} PROVE FALSE
  OBVIOUS
<1>1. PICK m \in Nat \ N : \A k \in Nat \ N : m <= k
  <2> DEFINE T == Nat \ N
  <2>1. T \subseteq Nat /\ T # {}
    OBVIOUS
  <2> HIDE DEF T
  <2>2. \E x \in T : \A y \in T : x <= y
    BY <2>1, LeastElement
  <2> QED BY <2>2 DEF T
<1>2. m - 1 \in N
  BY <1>1
<1>3. (m - 1) + 1 = m
  BY <1>1
<1> QED BY <1>1, <1>2, <1>3

(* Of some finite sets, one contains none of the others. *)
LEMMA MinimalSet ==
  ASSUME NEW S, IsFiniteSet(S), NEW F, F \subseteq SUBSET S, F # {}
  PROVE  \E T \in F : \A U \in F : U \subseteq T => U = T
<1> DEFINE N == {Cardinality(T) : T \in F}
<1>1. \A T \in F : IsFiniteSet(T) /\ Cardinality(T) \in Nat
  BY FS_Subset, FS_CardinalityType
<1>2. N \subseteq Nat /\ N # {}
  BY <1>1
<1>3. \E n \in N : \A k \in N : ~(<<k, n>> \in OpToRel(<, Nat))
  <2> HIDE DEF N
  <2> QED BY <1>2, WFMin, NatLessThanWellFounded
<1>4. PICK T \in F : \A U \in F : ~(Cardinality(U) < Cardinality(T))
  BY <1>1, <1>3 DEF OpToRel
<1>5. ASSUME NEW U \in F, U \subseteq T PROVE U = T
  BY <1>1, <1>4, <1>5, FS_Subset
<1> QED BY <1>5

(* Sets without a common element have as many together as each.            *)
LEMMA ApartTogether ==
  ASSUME NEW S, NEW T, IsFiniteSet(S), IsFiniteSet(T), S \cap T = {}
  PROVE  /\ IsFiniteSet(S \cup T)
         /\ Cardinality(S \cup T) = Cardinality(S) + Cardinality(T)
         /\ Cardinality(S) \in Nat /\ Cardinality(T) \in Nat
<1>1. Cardinality(S) \in Nat /\ Cardinality(T) \in Nat
  BY FS_CardinalityType
<1>2. Cardinality(S \cap T) = 0
  BY FS_EmptySet
<1>3. /\ IsFiniteSet(S \cup T)
      /\ Cardinality(S \cup T) = Cardinality(S) + Cardinality(T) - Cardinality(S \cap T)
  BY FS_Union
<1> QED BY <1>1, <1>2, <1>3

-----------------------------------------------------------------------------
(* Sums *)

(* Which element is added first. *)
Element(T) == CHOOSE x \in T : TRUE

(* g has the sum of f on each subset of S. *)
Sums(g, f, S) ==
  g = [T \in SUBSET S |-> IF T = {} THEN 0 ELSE f[Element(T)] + g[T \ {Element(T)}]]

LEMMA SumIsSums ==
  ASSUME NEW f, NEW S
  PROVE  SumFunctionOnSet(f, S) = (CHOOSE g : Sums(g, f, S))[S]
BY DEF SumFunctionOnSet, FoldFunctionOnSet, MapThenFoldSet, Sums, Element

(* There is such a function. *)
LEMMA SumsExist == ASSUME NEW f, NEW S, IsFiniteSet(S) PROVE \E g : Sums(g, f, S)
<1> DEFINE Next(g, T) == IF T = {} THEN 0 ELSE f[Element(T)] + g[T \ {Element(T)}]
           UpTo(g, n) == \A T \in SUBSET S : Cardinality(T) <= n => g[T] = Next(g, T)
<1>0. \A T \in SUBSET S : IsFiniteSet(T) /\ Cardinality(T) \in Nat
  BY FS_Subset, FS_CardinalityType
<1>1. \A T \in SUBSET S : T # {} =>
         /\ T \ {Element(T)} \in SUBSET S
         /\ Cardinality(T \ {Element(T)}) = Cardinality(T) - 1
  <2> SUFFICES ASSUME NEW T \in SUBSET S, T # {}
               PROVE  Cardinality(T \ {Element(T)}) = Cardinality(T) - 1
    OBVIOUS
  <2>1. Element(T) \in T
    BY DEF Element
  <2> QED BY <1>0, <2>1, FS_RemoveElement
<1>2. \A T \in SUBSET S : T # {} => Cardinality(T) > 0
  BY <1>0, FS_EmptySet
<1>3. \E g : UpTo(g, 0)
  <2> DEFINE g == [T \in SUBSET S |-> 0]
  <2>1. UpTo(g, 0)
    BY <1>2, <1>0
  <2> QED BY <2>1
<1>4. ASSUME NEW n \in Nat, NEW g, UpTo(g, n) PROVE \E h : UpTo(h, n + 1)
  <2> DEFINE h == [T \in SUBSET S |-> Next(g, T)]
  <2>1. ASSUME NEW T \in SUBSET S, Cardinality(T) <= n + 1 PROVE h[T] = Next(h, T)
    <3>1. CASE T = {}
      BY <3>1
    <3>2. CASE T # {}
      <4> DEFINE U == T \ {Element(T)}
      <4>1. U \in SUBSET S /\ Cardinality(U) <= n
        <5>1. U \in SUBSET S /\ Cardinality(U) = Cardinality(T) - 1
          BY <1>1, <3>2
        <5> QED BY <1>0, <2>1, <5>1
      <4>2. g[U] = Next(g, U)
        BY <1>4, <4>1
      <4>3. h[U] = g[U]
        BY <4>1, <4>2
      <4> QED BY <3>2, <4>3
    <3> QED BY <3>1, <3>2
  <2>2. UpTo(h, n + 1)
    BY <2>1
  <2> QED BY <2>2
<1>5. \A n \in Nat : \E g : UpTo(g, n)
  <2> DEFINE N == {n \in Nat : \E g : UpTo(g, n)}
  <2>1. 0 \in N /\ N \subseteq Nat
    BY <1>3
  <2>2. \A n \in N : n + 1 \in N
    <3> HIDE DEF UpTo
    <3> QED BY <1>4
  <2>3. N = Nat
    <3> HIDE DEF N
    <3> QED BY <2>1, <2>2, EveryNumber
  <2> QED BY <2>3
<1>6. PICK g : UpTo(g, Cardinality(S))
  <2>1. Cardinality(S) \in Nat
    BY FS_CardinalityType
  <2> HIDE DEF UpTo
  <2> QED BY <1>5, <2>1
<1> DEFINE h == [T \in SUBSET S |-> g[T]]
<1>7. \A T \in SUBSET S : g[T] = Next(g, T)
  BY <1>6, FS_Subset
<1>8. \A T \in SUBSET S : h[T] = Next(h, T)
  BY <1>1, <1>7
<1>9. h = [T \in SUBSET S |-> h[T]]
  OBVIOUS
<1>10. h = [T \in SUBSET S |-> Next(h, T)]
  <2> HIDE DEF h
  <2> QED BY <1>8, <1>9
<1> QED BY <1>10 DEF Sums

(* What g says of one set. *)
LEMMA SumsOfOne ==
  ASSUME NEW f, NEW S, NEW g, Sums(g, f, S), NEW T, T \subseteq S
  PROVE  /\ T = {} => g[T] = 0
         /\ T # {} => /\ Element(T) \in T
                      /\ g[T] = f[Element(T)] + g[T \ {Element(T)}]
BY DEF Sums, Element

LEMMA SumsAreIntegers ==
  ASSUME NEW f, NEW S, IsFiniteSet(S), NEW g, Sums(g, f, S), \A x \in S : f[x] \in Int
  PROVE  \A T \in SUBSET S : g[T] \in Int
<1> DEFINE F == {T \in SUBSET S : g[T] \notin Int}
<1> SUFFICES ASSUME F # {} PROVE FALSE
  OBVIOUS
<1>1. PICK T \in F : \A U \in F : U \subseteq T => U = T
  <2>1. F \subseteq SUBSET S
    OBVIOUS
  <2> HIDE DEF F
  <2> QED BY <2>1, MinimalSet
<1>2. T \subseteq S /\ g[T] \notin Int
  OBVIOUS
<1>3. T # {} /\ Element(T) \in T /\ g[T] = f[Element(T)] + g[T \ {Element(T)}]
  BY <1>2, SumsOfOne
<1>4. T \ {Element(T)} \in SUBSET S /\ T \ {Element(T)} \notin F
  BY <1>1, <1>2, <1>3
<1> QED BY <1>2, <1>3, <1>4

(* Any element may be taken out first. *)
LEMMA SumsWithoutOne ==
  ASSUME NEW f, NEW S, IsFiniteSet(S), NEW g, Sums(g, f, S), \A x \in S : f[x] \in Int
  PROVE  \A T \in SUBSET S : \A x \in T : g[T] = f[x] + g[T \ {x}]
<1> DEFINE F == {T \in SUBSET S : ~\A x \in T : g[T] = f[x] + g[T \ {x}]}
<1> SUFFICES ASSUME F # {} PROVE FALSE
  OBVIOUS
<1>1. PICK T \in F : \A U \in F : U \subseteq T => U = T
  <2>1. F \subseteq SUBSET S
    OBVIOUS
  <2> HIDE DEF F
  <2> QED BY <2>1, MinimalSet
<1>2. PICK x \in T : g[T] # f[x] + g[T \ {x}]
  OBVIOUS
<1> DEFINE c == Element(T)
           U == T \ {x, c}
<1>3. T \subseteq S /\ c \in T /\ g[T] = f[c] + g[T \ {c}]
  BY <1>2, SumsOfOne
<1>4. c # x
  BY <1>2, <1>3
<1>5. T \ {c} \notin F /\ T \ {x} \notin F /\ T \ {c} \in SUBSET S /\ T \ {x} \in SUBSET S
  BY <1>1, <1>2, <1>3
<1>6. (T \ {c}) \ {x} = U /\ (T \ {x}) \ {c} = U /\ x \in T \ {c} /\ c \in T \ {x}
  BY <1>2, <1>3, <1>4
<1>7. \A V \in SUBSET S : V \notin F => \A y \in V : g[V] = f[y] + g[V \ {y}]
  OBVIOUS
<1>8. g[T \ {c}] = f[x] + g[U] /\ g[T \ {x}] = f[c] + g[U]
  <2> HIDE DEF F, c, U
  <2>1. g[T \ {c}] = f[x] + g[U]
    BY <1>5, <1>6, <1>7
  <2>2. g[T \ {x}] = f[c] + g[U]
    BY <1>5, <1>6, <1>7
  <2> QED BY <2>1, <2>2
<1>9. f[x] \in Int /\ f[c] \in Int /\ g[U] \in Int
  BY <1>2, <1>3, SumsAreIntegers
<1> HIDE DEF c, U
<1> QED BY <1>2, <1>3, <1>8, <1>9

(* Where two functions agree, so do their sums. *)
LEMMA SumsAgree ==
  ASSUME NEW f, NEW S, NEW g, Sums(g, f, S),
         NEW e, NEW R, NEW h, Sums(h, e, R),
         NEW V, IsFiniteSet(V), V \subseteq S, V \subseteq R, \A x \in V : f[x] = e[x]
  PROVE  g[V] = h[V]
<1> DEFINE F == {T \in SUBSET V : g[T] # h[T]}
<1> SUFFICES ASSUME F # {} PROVE FALSE
  OBVIOUS
<1>1. PICK T \in F : \A U \in F : U \subseteq T => U = T
  <2>1. F \subseteq SUBSET V
    OBVIOUS
  <2> HIDE DEF F
  <2> QED BY <2>1, MinimalSet
<1>2. T \subseteq V /\ g[T] # h[T] /\ T \subseteq S /\ T \subseteq R
  OBVIOUS
<1>3. /\ T = {} => g[T] = 0
      /\ T # {} => /\ Element(T) \in T
                   /\ g[T] = f[Element(T)] + g[T \ {Element(T)}]
  BY <1>2, SumsOfOne
<1>4. /\ T = {} => h[T] = 0
      /\ T # {} => h[T] = e[Element(T)] + h[T \ {Element(T)}]
  BY <1>2, SumsOfOne
<1>5. T # {}
  BY <1>2, <1>3, <1>4
<1>6. T \ {Element(T)} \in SUBSET V /\ T \ {Element(T)} \notin F
  BY <1>1, <1>2, <1>3, <1>5
<1> QED BY <1>2, <1>3, <1>4, <1>5, <1>6

-----------------------------------------------------------------------------
LEMMA SumOf ==
  ASSUME NEW f, NEW S, IsFiniteSet(S)
  PROVE  \E g : Sums(g, f, S) /\ SumFunctionOnSet(f, S) = g[S]
BY SumIsSums, SumsExist

(* The sum of nothing. *)
LEMMA SumOfNothing == ASSUME NEW f PROVE SumFunctionOnSet(f, {}) = 0
<1>1. IsFiniteSet({})
  BY FS_EmptySet
<1>2. PICK g : Sums(g, f, {}) /\ SumFunctionOnSet(f, {}) = g[{}]
  BY <1>1, SumOf
<1>3. g[{}] = 0
  BY <1>2, SumsOfOne
<1> QED
  BY <1>2, <1>3

(* Sums of integers are integers. *)
LEMMA SumIsInteger ==
  ASSUME NEW f, NEW S, IsFiniteSet(S), \A x \in S : f[x] \in Int
  PROVE  SumFunctionOnSet(f, S) \in Int
BY SumOf, SumsAreIntegers

(* A sum is one of its terms and the sum of the others. *)
LEMMA SumWithoutOne ==
  ASSUME NEW f, NEW S, IsFiniteSet(S), \A x \in S : f[x] \in Int, NEW x \in S
  PROVE  SumFunctionOnSet(f, S) = f[x] + SumFunctionOnSet(f, S \ {x})
<1>1. PICK g : Sums(g, f, S) /\ SumFunctionOnSet(f, S) = g[S]
  BY SumOf
<1>2. IsFiniteSet(S \ {x})
  BY FS_RemoveElement
<1>3. PICK h : Sums(h, f, S \ {x}) /\ SumFunctionOnSet(f, S \ {x}) = h[S \ {x}]
  BY <1>2, SumOf
<1>4. g[S \ {x}] = h[S \ {x}]
  BY <1>1, <1>2, <1>3, SumsAgree
<1>5. g[S] = f[x] + g[S \ {x}]
  BY <1>1, SumsWithoutOne
<1> QED BY <1>1, <1>3, <1>4, <1>5

(* Functions that agree on a set have one sum. *)
LEMMA SameSum ==
  ASSUME NEW f, NEW e, NEW S, IsFiniteSet(S), \A x \in S : f[x] = e[x]
  PROVE  SumFunctionOnSet(f, S) = SumFunctionOnSet(e, S)
BY SumOf, SumsAgree

(* Where one term changes, so does the sum. *)
LEMMA SumOneChanged ==
  ASSUME NEW f, NEW e, NEW S, IsFiniteSet(S), NEW x \in S,
         \A y \in S : f[y] \in Int, e[x] \in Int, \A y \in S \ {x} : e[y] = f[y]
  PROVE  SumFunctionOnSet(e, S) = SumFunctionOnSet(f, S) - f[x] + e[x]
<1>1. IsFiniteSet(S \ {x})
  BY FS_RemoveElement
<1>2. SumFunctionOnSet(f, S) = f[x] + SumFunctionOnSet(f, S \ {x})
  BY SumWithoutOne
<1>3. \A y \in S : e[y] \in Int
  OBVIOUS
<1>4. SumFunctionOnSet(e, S) = e[x] + SumFunctionOnSet(e, S \ {x})
  BY <1>3, SumWithoutOne
<1>5. SumFunctionOnSet(e, S \ {x}) = SumFunctionOnSet(f, S \ {x})
  BY <1>1, SameSum
<1>6. SumFunctionOnSet(f, S \ {x}) \in Int /\ f[x] \in Int
  BY <1>1, SumIsInteger
<1> QED BY <1>2, <1>4, <1>5, <1>6

(* Of terms that are not negative, more make no less. *)
LEMMA SumOfMore ==
  ASSUME NEW f, NEW S, IsFiniteSet(S), \A x \in S : f[x] \in Nat, NEW R \in SUBSET S
  PROVE  SumFunctionOnSet(f, R) <= SumFunctionOnSet(f, S)
<1>0. \A T \in SUBSET S : IsFiniteSet(T) /\ SumFunctionOnSet(f, T) \in Int
  BY FS_Subset, SumIsInteger
<1> DEFINE F == {T \in SUBSET S : R \subseteq T /\ ~(SumFunctionOnSet(f, R) <= SumFunctionOnSet(f, T))}
<1> SUFFICES ASSUME F # {} PROVE FALSE
  OBVIOUS
<1>1. PICK T \in F : \A U \in F : U \subseteq T => U = T
  <2>1. F \subseteq SUBSET S
    OBVIOUS
  <2> HIDE DEF F
  <2> QED BY <2>1, MinimalSet
<1>2. /\ T \subseteq S /\ R \subseteq T
      /\ ~(SumFunctionOnSet(f, R) <= SumFunctionOnSet(f, T))
  OBVIOUS
<1>3. T # R
  BY <1>0, <1>2
<1>4. PICK x \in T : x \notin R
  BY <1>2, <1>3
<1>5. T \ {x} \in SUBSET S /\ T \ {x} \notin F /\ R \subseteq T \ {x}
  BY <1>1, <1>2, <1>4
<1>6. SumFunctionOnSet(f, R) <= SumFunctionOnSet(f, T \ {x})
  BY <1>5
<1>7. SumFunctionOnSet(f, T) = f[x] + SumFunctionOnSet(f, T \ {x})
  BY <1>0, <1>2, SumWithoutOne
<1>8. f[x] \in Nat /\ SumFunctionOnSet(f, T \ {x}) \in Int /\ SumFunctionOnSet(f, R) \in Int
  BY <1>0, <1>2, <1>5
<1> HIDE DEF F
<1> QED BY <1>2, <1>6, <1>7, <1>8

(* Where some terms grow by one, the sum grows by their number. *)
LEMMA SumCounts ==
  ASSUME NEW f, NEW e, NEW S, IsFiniteSet(S), NEW R \in SUBSET S,
         \A x \in S : f[x] \in Int,
         \A x \in S : e[x] = f[x] + (IF x \in R THEN 1 ELSE 0)
  PROVE  SumFunctionOnSet(e, S) = SumFunctionOnSet(f, S) + Cardinality(R)
<1>00. \A x \in S : e[x] \in Int
  OBVIOUS
<1>0. \A T \in SUBSET S :
        /\ IsFiniteSet(T) /\ IsFiniteSet(R \cap T) /\ Cardinality(R \cap T) \in Nat
        /\ SumFunctionOnSet(f, T) \in Int /\ SumFunctionOnSet(e, T) \in Int
  <2> SUFFICES ASSUME NEW T \in SUBSET S
               PROVE  /\ IsFiniteSet(T) /\ IsFiniteSet(R \cap T) /\ Cardinality(R \cap T) \in Nat
                      /\ SumFunctionOnSet(f, T) \in Int /\ SumFunctionOnSet(e, T) \in Int
    OBVIOUS
  <2>1. R \cap T \in SUBSET S
    OBVIOUS
  <2>2. IsFiniteSet(T) /\ IsFiniteSet(R \cap T)
    BY <2>1, FS_Subset
  <2>3. \A x \in T : f[x] \in Int /\ e[x] \in Int
    OBVIOUS
  <2> QED BY <2>2, <2>3, FS_CardinalityType, SumIsInteger
<1> DEFINE F == {T \in SUBSET S :
                   SumFunctionOnSet(e, T) # SumFunctionOnSet(f, T) + Cardinality(R \cap T)}
<1>1. F = {}
  <2> SUFFICES ASSUME F # {} PROVE FALSE
    OBVIOUS
  <2>1. PICK T \in F : \A U \in F : U \subseteq T => U = T
    <3>1. F \subseteq SUBSET S
      OBVIOUS
    <3> HIDE DEF F
    <3> QED BY <3>1, MinimalSet
  <2>2. /\ T \in SUBSET S
        /\ SumFunctionOnSet(e, T) # SumFunctionOnSet(f, T) + Cardinality(R \cap T)
    OBVIOUS
  <2>3. T # {}
    <3> SUFFICES ASSUME T = {} PROVE FALSE
      OBVIOUS
    <3>1. R \cap T = {}
      OBVIOUS
    <3> QED BY <2>2, <3>1, SumOfNothing, FS_EmptySet
  <2>4. PICK x \in T : TRUE
    BY <2>3
  <2>5. T \ {x} \in SUBSET S /\ T \ {x} \notin F
    BY <2>1, <2>2, <2>4
  <2> DEFINE U == T \ {x}
  <2>6. SumFunctionOnSet(e, U) = SumFunctionOnSet(f, U) + Cardinality(R \cap U)
    <3>1. \A V \in SUBSET S : V \notin F =>
            SumFunctionOnSet(e, V) = SumFunctionOnSet(f, V) + Cardinality(R \cap V)
      OBVIOUS
    <3>2. U \in SUBSET S /\ U \notin F
      BY <2>5
    <3> HIDE DEF U, F
    <3> QED BY <3>1, <3>2
  <2>7. /\ SumFunctionOnSet(e, T) = e[x] + SumFunctionOnSet(e, U)
        /\ SumFunctionOnSet(f, T) = f[x] + SumFunctionOnSet(f, U)
    <3>1. IsFiniteSet(T)
      BY <1>0, <2>2
    <3>2. \A z \in T : f[z] \in Int
      BY <2>2
    <3>3. \A z \in T : e[z] \in Int
      BY <1>00, <2>2
    <3> HIDE DEF F
    <3>4. SumFunctionOnSet(e, T) = e[x] + SumFunctionOnSet(e, T \ {x})
      BY <3>1, <3>3, SumWithoutOne
    <3>5. SumFunctionOnSet(f, T) = f[x] + SumFunctionOnSet(f, T \ {x})
      BY <3>1, <3>2, SumWithoutOne
    <3> QED BY <3>4, <3>5
  <2>8. Cardinality(R \cap T) = Cardinality(R \cap U) + (IF x \in R THEN 1 ELSE 0)
    <3>1. CASE x \in R
      <4>1. (R \cap T) \ {x} = R \cap U /\ x \in R \cap T
        BY <3>1
      <4>2. Cardinality((R \cap T) \ {x}) = Cardinality(R \cap T) - 1
        BY <1>0, <2>2, <4>1, FS_RemoveElement
      <4>3. Cardinality(R \cap U) = Cardinality(R \cap T) - 1
        BY <4>1, <4>2
      <4> QED BY <1>0, <2>2, <3>1, <4>3
    <3>2. CASE x \notin R
      <4>1. R \cap T = R \cap U
        BY <3>2
      <4> QED BY <1>0, <2>2, <3>2, <4>1, SMTT(20)
    <3> QED BY <3>1, <3>2
  <2>9. /\ SumFunctionOnSet(e, U) \in Int /\ SumFunctionOnSet(f, U) \in Int
        /\ Cardinality(R \cap U) \in Nat /\ f[x] \in Int
        /\ e[x] = f[x] + (IF x \in R THEN 1 ELSE 0)
    BY <1>0, <2>2, <2>5
  <2> HIDE DEF U, F
  <2>10. CASE x \in R
    BY <2>2, <2>6, <2>7, <2>8, <2>9, <2>10
  <2>11. CASE x \notin R
    BY <2>2, <2>6, <2>7, <2>8, <2>9, <2>11
  <2> QED BY <2>10, <2>11
<1>2. S \in SUBSET S /\ R \cap S = R
  OBVIOUS
<1> QED BY <1>1, <1>2

(* The sum of zeros. *)
LEMMA SumOfZeros ==
  ASSUME NEW f, NEW S, IsFiniteSet(S), \A x \in S : f[x] = 0
  PROVE  SumFunctionOnSet(f, S) = 0
<1> DEFINE F == {T \in SUBSET S : SumFunctionOnSet(f, T) # 0}
<1> SUFFICES ASSUME F # {} PROVE FALSE
  OBVIOUS
<1>1. PICK T \in F : \A U \in F : U \subseteq T => U = T
  <2>1. F \subseteq SUBSET S
    OBVIOUS
  <2> HIDE DEF F
  <2> QED BY <2>1, MinimalSet
<1>2. T \in SUBSET S /\ SumFunctionOnSet(f, T) # 0
  OBVIOUS
<1>3. T # {}
  BY <1>2, SumOfNothing
<1>4. PICK x \in T : TRUE
  BY <1>3
<1>5. T \ {x} \in SUBSET S /\ T \ {x} \notin F
  BY <1>1, <1>2, <1>4
<1>6. SumFunctionOnSet(f, T \ {x}) = 0
  BY <1>5
<1>7. SumFunctionOnSet(f, T) = f[x] + SumFunctionOnSet(f, T \ {x})
  <2>1. IsFiniteSet(T) /\ \A y \in T : f[y] \in Int
    BY <1>2, FS_Subset
  <2> HIDE DEF F
  <2> QED BY <2>1, SumWithoutOne
<1>8. f[x] = 0
  BY <1>2
<1> QED BY <1>2, <1>6, <1>7, <1>8

(* Of some numbered things, one has the least first number, and of those   *)
(* that have, the greatest second one.                                     *)
LEMMA FirstOfSome ==
  ASSUME NEW S, IsFiniteSet(S), S # {}, NEW d, NEW m,
         \A x \in S : d[x] \in Int /\ m[x] \in Int
  PROVE  \E x \in S : \A y \in S : d[x] < d[y] \/ (d[x] = d[y] /\ m[x] >= m[y])
<1> DEFINE Best(x, T) == \A y \in T : d[x] < d[y] \/ (d[x] = d[y] /\ m[x] >= m[y])
           F == {T \in SUBSET S : T # {} /\ ~\E x \in T : Best(x, T)}
<1> SUFFICES ASSUME F # {} PROVE FALSE
  OBVIOUS
<1>1. PICK T \in F : \A U \in F : U \subseteq T => U = T
  <2>1. F \subseteq SUBSET S
    OBVIOUS
  <2> HIDE DEF F
  <2> QED BY <2>1, MinimalSet
<1>2. T \in SUBSET S /\ T # {} /\ ~\E x \in T : Best(x, T)
  OBVIOUS
<1>3. PICK x \in T : TRUE
  BY <1>2
<1>4. Best(x, {x})
  BY <1>2
<1>5. T \ {x} # {}
  <2> SUFFICES ASSUME T = {x} PROVE FALSE
    BY <1>3
  <2> QED BY <1>2, <1>4
<1>6. T \ {x} \notin F /\ T \ {x} \in SUBSET S
  BY <1>1, <1>2, <1>3
<1>7. PICK y \in T \ {x} : Best(y, T \ {x})
  BY <1>5, <1>6
<1>8. /\ d[x] \in Int /\ d[y] \in Int /\ m[x] \in Int /\ m[y] \in Int
      /\ \A z \in T : d[z] \in Int /\ m[z] \in Int
  BY <1>2, <1>3, <1>7
<1>9. CASE d[x] < d[y] \/ (d[x] = d[y] /\ m[x] >= m[y])
  <2>1. Best(x, T)
    BY <1>7, <1>8, <1>9
  <2> QED BY <1>2, <2>1
<1>10. CASE ~(d[x] < d[y] \/ (d[x] = d[y] /\ m[x] >= m[y]))
  <2>1. Best(y, T)
    BY <1>7, <1>8, <1>10
  <2> QED BY <1>2, <1>7, <2>1
<1> QED BY <1>9, <1>10

-----------------------------------------------------------------------------
(* Lemmas about the date arithmetic *)

(* A month has 28 to 31 days. *)
LEMMA MonthLengthRange == \A m \in Nat : MonthLength(m) \in 28..31
  BY DEF MonthLength

(* The parts of a date that is put together from a month and a day. *)
LEMMA PartsOfDate ==
  \A m \in Nat, d \in 1..31 :
    On(m, d) \in Nat /\ Month(On(m, d)) = m /\ Day(On(m, d)) = d
  BY DEF On, Month, Day

(* A date is made of its parts. *)
LEMMA DateOfParts ==
  \A date \in Dates :
    /\ Month(date) \in Nat
    /\ Day(date) \in 1..31
    /\ Day(date) <= MonthLength(Month(date))
    /\ date = On(Month(date), Day(date))
<1> SUFFICES ASSUME NEW date \in Dates
             PROVE  /\ Month(date) \in Nat
                    /\ Day(date) \in 1..31
                    /\ Day(date) <= MonthLength(Month(date))
                    /\ date = On(Month(date), Day(date))
  OBVIOUS
<1>1. date \in Nat /\ Day(date) \in 1..MonthLength(Month(date))
  BY DEF Dates
<1>2. Month(date) \in Nat /\ date = On(Month(date), Day(date))
  BY <1>1 DEF Month, Day, On
<1>3. MonthLength(Month(date)) \in 28..31
  BY <1>2, MonthLengthRange
<1> QED
  BY <1>1, <1>2, <1>3

(* Clipping gives a date in the month asked for, on the day asked for or   *)
(* the last one of the month.                                              *)
LEMMA ClippedIsDate ==
  ASSUME NEW m \in Nat, NEW d \in 1..31
  PROVE  /\ Clipped(m, d) \in Dates
         /\ Month(Clipped(m, d)) = m
         /\ Day(Clipped(m, d)) = Earlier(d, MonthLength(m))
<1>1. MonthLength(m) \in 28..31
  BY MonthLengthRange
<1>2. Earlier(d, MonthLength(m)) \in 1..31
      /\ Earlier(d, MonthLength(m)) <= MonthLength(m)
  BY <1>1 DEF Earlier
<1>3. /\ Clipped(m, d) \in Nat
      /\ Month(Clipped(m, d)) = m
      /\ Day(Clipped(m, d)) = Earlier(d, MonthLength(m))
  BY <1>2, PartsOfDate DEF Clipped
<1> QED
  BY <1>1, <1>2, <1>3 DEF Dates

(* A frequency spans at least one month. *)
LEMMA MonthsPerPositive ==
  \A f \in Frequencies : MonthsPer(f) \in Nat /\ MonthsPer(f) > 0
  BY DEF Frequencies, MonthsPer

-----------------------------------------------------------------------------
(* Steps of days: AddDays by induction on their number *)

(* The day after a date is a date, and the next one. *)
LEMMA TomorrowIsLater ==
  \A date \in Dates : Tomorrow(date) \in Dates /\ Tomorrow(date) > date
<1> SUFFICES ASSUME NEW date \in Dates
             PROVE  Tomorrow(date) \in Dates /\ Tomorrow(date) > date
  OBVIOUS
<1> DEFINE m == Month(date)
           d == Day(date)
<1>1. /\ m \in Nat
      /\ d \in 1..31
      /\ d <= MonthLength(m)
      /\ date = On(m, d)
  BY DateOfParts
<1> HIDE DEF m, d
<1>2. MonthLength(m) \in 28..31 /\ MonthLength(m + 1) \in 28..31
  BY <1>1, MonthLengthRange
<1>3. CASE d < MonthLength(m)
  <2>1. Tomorrow(date) = On(m, d + 1)
    BY <1>1, <1>3 DEF Tomorrow, On, m, d
  <2>2. d + 1 \in 1..31 /\ d + 1 <= MonthLength(m)
    BY <1>1, <1>2, <1>3
  <2>3. /\ On(m, d + 1) \in Nat
        /\ Month(On(m, d + 1)) = m
        /\ Day(On(m, d + 1)) = d + 1
    BY <1>1, <2>2, PartsOfDate
  <2>4. On(m, d + 1) \in Dates
    BY <1>2, <2>2, <2>3 DEF Dates
  <2> QED
    BY <1>1, <2>1, <2>4 DEF On
<1>4. CASE ~(d < MonthLength(m))
  <2>1. Tomorrow(date) = On(m + 1, 1)
    BY <1>4 DEF Tomorrow, m, d
  <2>2. /\ On(m + 1, 1) \in Nat
        /\ Month(On(m + 1, 1)) = m + 1
        /\ Day(On(m + 1, 1)) = 1
    BY <1>1, m + 1 \in Nat, 1 \in 1..31, PartsOfDate
  <2>3. On(m + 1, 1) \in Dates
    BY <1>2, <2>2 DEF Dates
  <2> QED
    BY <1>1, <2>1, <2>3 DEF On
<1> QED
  BY <1>3, <1>4

(* f lists the dates from "date" on for n days. *)
Follows(f, date, n) ==
  f = [k \in 0..n |-> IF k = 0 THEN date ELSE Tomorrow(f[k - 1])]

(* Such a list exists, so the recursive definition in AddDays is one. *)
LEMMA FollowsExists == \A date : \A n \in Nat : \E f : Follows(f, date, n)
<1> SUFFICES ASSUME NEW date, NEW n0 \in Nat, ~\E f : Follows(f, date, n0)
             PROVE  FALSE
  OBVIOUS
<1> DEFINE T == {n \in Nat : ~\E f : Follows(f, date, n)}
<1>1. PICK n \in T : \A k \in T : n <= k
  <2>1. T \subseteq Nat /\ T # {}
    OBVIOUS
  <2> HIDE DEF T
  <2> QED
    BY <2>1, LeastElement
<1>2. n \in Nat /\ ~\E f : Follows(f, date, n)
  OBVIOUS
<1>3. CASE n = 0
  <2> DEFINE g == [k \in 0..0 |-> date]
  <2>1. g = [k \in 0..0 |-> IF k = 0 THEN date ELSE Tomorrow(g[k - 1])]
    OBVIOUS
  <2> QED
    BY <1>2, <1>3, <2>1 DEF Follows
<1>4. CASE n # 0
  <2>1. n - 1 \in Nat /\ n - 1 \notin T
    BY <1>1, <1>2, <1>4
  <2>2. PICK f : Follows(f, date, n - 1)
    BY <2>1
  <2>3. /\ f = [k \in 0..(n - 1) |-> IF k = 0 THEN date ELSE Tomorrow(f[k - 1])]
        /\ DOMAIN f = 0..(n - 1)
    BY <2>2 DEF Follows
  <2> DEFINE g == [k \in 0..n |-> IF k = n THEN Tomorrow(f[n - 1]) ELSE f[k]]
  <2>4. ASSUME NEW k \in 0..n
        PROVE  g[k] = IF k = 0 THEN date ELSE Tomorrow(g[k - 1])
    <3>1. CASE k = n
      BY <1>2, <1>4, <3>1
    <3>2. CASE k = 0
      BY <1>2, <1>4, <2>3, <3>2
    <3>3. CASE k # 0 /\ k # n
      <4>1. k \in 0..(n - 1) /\ k - 1 \in 0..n /\ k - 1 # n
        BY <1>2, <3>3
      <4>2. f[k] = Tomorrow(f[k - 1])
        BY <2>3, <3>3, <4>1
      <4> QED
        BY <3>3, <4>1, <4>2
    <3> QED
      BY <3>1, <3>2, <3>3
  <2>5. g = [k \in 0..n |-> IF k = 0 THEN date ELSE Tomorrow(g[k - 1])]
    <3>1. g = [k \in 0..n |-> g[k]]
      OBVIOUS
    <3> HIDE DEF g
    <3> QED
      BY <2>4, <3>1
  <2> QED
    BY <1>2, <2>5 DEF Follows
<1> QED
  BY <1>3, <1>4

(* Adding days gives a later date. *)
LEMMA AddDaysIsLater ==
  ASSUME NEW date \in Dates, NEW n \in Nat, n > 0
  PROVE  AddDays(date, n) \in Dates /\ AddDays(date, n) > date
<1> DEFINE f == CHOOSE h : h = [k \in 0..n |-> IF k = 0 THEN date
                                              ELSE Tomorrow(h[k - 1])]
<1>1. AddDays(date, n) = f[n]
  BY DEF AddDays
<1>2. f = [k \in 0..n |-> IF k = 0 THEN date ELSE Tomorrow(f[k - 1])]
  BY FollowsExists, ZenonT(20) DEF Follows
<1> HIDE DEF f
<1>3. /\ f[0] = date
      /\ \A k \in 0..n : k # 0 => f[k] = Tomorrow(f[k - 1])
  BY <1>2
<1> DEFINE Fine(k) == f[k] \in Dates /\ f[k] >= date /\ (k > 0 => f[k] > date)
           T == {k \in 0..n : ~Fine(k)}
<1>4. T = {}
  <2> SUFFICES ASSUME T # {} PROVE FALSE
    OBVIOUS
  <2>1. T \subseteq Nat
    OBVIOUS
  <2>2. PICK k \in T : \A j \in T : k <= j
    <3> HIDE DEF T
    <3> QED
      BY <2>1, LeastElement
  <2>3. k \in 0..n /\ k # 0
    BY <1>3 DEF Dates
  <2>4. k - 1 \in 0..n /\ k - 1 \notin T
    BY <2>2, <2>3
  <2>5. f[k - 1] \in Dates /\ f[k - 1] >= date
    BY <2>4
  <2>6. f[k] \in Dates /\ f[k] > f[k - 1]
    BY <1>3, <2>3, <2>5, TomorrowIsLater
  <2>7. f[k] > date /\ f[k] >= date
    BY <2>5, <2>6 DEF Dates
  <2> QED
    BY <2>2, <2>6, <2>7
<1>5. n \in 0..n /\ n > 0 /\ Fine(n)
  BY <1>4
<1> QED
  BY <1>1, <1>5

(* A year has 365 days, or 366. *)
LEMMA NextYear ==
  \A y \in Nat : DaysBeforeYear(y + 1) = DaysBeforeYear(y) + (IF LeapYear(y) THEN 366 ELSE 365)
<1> SUFFICES ASSUME NEW y \in Nat
             PROVE  DaysBeforeYear(y + 1) = DaysBeforeYear(y) + (IF LeapYear(y) THEN 366 ELSE 365)
  OBVIOUS
<1>1. y \div 4 = (y - 1) \div 4 + (IF y % 4 = 0 THEN 1 ELSE 0)
  OBVIOUS
<1>2. y \div 100 = (y - 1) \div 100 + (IF y % 100 = 0 THEN 1 ELSE 0)
  OBVIOUS
<1>3. y \div 400 = (y - 1) \div 400 + (IF y % 400 = 0 THEN 1 ELSE 0)
  OBVIOUS
<1>4. (y % 400 = 0 => y % 100 = 0) /\ (y % 100 = 0 => y % 4 = 0)
  OBVIOUS
<1>5. (y + 1) - 1 = y
  OBVIOUS
<1> QED
  BY <1>1, <1>2, <1>3, <1>4, <1>5 DEF DaysBeforeYear, LeapYear

(* The days before a month and its own are those before the next.          *)
LEMMA NextMonth ==
  \A m \in Nat : DaysBeforeMonth(m + 1) = DaysBeforeMonth(m) + MonthLength(m)
<1> SUFFICES ASSUME NEW m \in Nat
             PROVE  DaysBeforeMonth(m + 1) = DaysBeforeMonth(m) + MonthLength(m)
  OBVIOUS
<1> DEFINE y == m \div 12
           k == m % 12
<1>1. y \in Nat /\ k \in 0..11
  OBVIOUS
<1>2. DaysBeforeYear(y) \in Int
  BY <1>1 DEF DaysBeforeYear
<1>3. CASE k = 11
  <2>1. (m + 1) \div 12 = y + 1 /\ (m + 1) % 12 = 0
    BY <1>3
  <2> HIDE DEF y, k
  <2>2. DaysBeforeYear(y + 1) = DaysBeforeYear(y) + (IF LeapYear(y) THEN 366 ELSE 365)
    BY <1>1, NextYear
  <2>3. DaysBeforeMonth(m + 1) = DaysBeforeYear(y + 1)
    BY <1>1, <1>2, <2>1, <2>2 DEF DaysBeforeMonth
  <2>4. DaysBeforeMonth(m) = DaysBeforeYear(y) + 334 + (IF LeapYear(y) THEN 1 ELSE 0)
    BY <1>2, <1>3 DEF DaysBeforeMonth, y, k
  <2>5. MonthLength(m) = 31
    BY <1>3 DEF MonthLength, k
  <2> QED
    BY <1>2, <2>2, <2>3, <2>4, <2>5
<1>4. CASE k # 11
  <2>1. (m + 1) \div 12 = y /\ (m + 1) % 12 = k + 1 /\ k \in 0..10
    BY <1>4
  <2> HIDE DEF y, k
  <2> DEFINE before == <<0, 31, 59, 90, 120, 151, 181, 212, 243, 273, 304, 334>>
             leap(n) == IF n > 1 /\ LeapYear(y) THEN 1 ELSE 0
  <2>2. /\ DaysBeforeMonth(m + 1) = DaysBeforeYear(y) + before[(k + 1) + 1] + leap(k + 1)
        /\ DaysBeforeMonth(m) = DaysBeforeYear(y) + before[k + 1] + leap(k)
    BY <2>1 DEF DaysBeforeMonth, y, k
  <2>3. MonthLength(m) = IF k \in {3, 5, 8, 10} THEN 30
                         ELSE IF k # 1 THEN 31 ELSE IF LeapYear(y) THEN 29 ELSE 28
    BY DEF MonthLength, y, k
  <2>4. before[(k + 1) + 1] + leap(k + 1) = before[k + 1] + leap(k) + MonthLength(m)
    BY <2>1, <2>3
  <2>5. /\ before[(k + 1) + 1] \in Int /\ before[k + 1] \in Int
        /\ leap(k + 1) \in Int /\ leap(k) \in Int /\ MonthLength(m) \in Int
    BY <2>1, <2>3
  <2> HIDE DEF before, leap
  <2> QED
    BY <1>2, <2>2, <2>4, <2>5
<1> QED
  BY <1>3, <1>4

(* Tomorrow has the next number. *)
LEMMA TomorrowIsNext ==
  \A date \in Dates : /\ DayNumber(date) \in Int
                      /\ DayNumber(Tomorrow(date)) = DayNumber(date) + 1
<1> SUFFICES ASSUME NEW date \in Dates
             PROVE  /\ DayNumber(date) \in Int
                    /\ DayNumber(Tomorrow(date)) = DayNumber(date) + 1
  OBVIOUS
<1> DEFINE m == Month(date)
           d == Day(date)
<1>1. /\ m \in Nat
      /\ d \in 1..31
      /\ d <= MonthLength(m)
      /\ date = On(m, d)
  BY DateOfParts
<1>2. DayNumber(date) = DaysBeforeMonth(m) + d
  BY DEF DayNumber
<1> HIDE DEF m, d
<1>3. MonthLength(m) \in 28..31
  BY <1>1, MonthLengthRange
<1>4. DaysBeforeMonth(m) \in Int
  <2>1. m \div 12 \in Nat /\ m % 12 \in 0..11
    BY <1>1
  <2>2. DaysBeforeYear(m \div 12) \in Int
    BY <2>1 DEF DaysBeforeYear
  <2>3. <<0, 31, 59, 90, 120, 151, 181, 212, 243, 273, 304, 334>>[(m % 12) + 1] \in Int
    BY <2>1
  <2> QED
    BY <2>2, <2>3 DEF DaysBeforeMonth
<1>5. CASE d < MonthLength(m)
  <2>1. Tomorrow(date) = On(m, d + 1) /\ d + 1 \in 1..31
    BY <1>1, <1>3, <1>5 DEF Tomorrow, On, m, d
  <2>2. DayNumber(Tomorrow(date)) = DaysBeforeMonth(m) + (d + 1)
    BY <1>1, <2>1, PartsOfDate DEF DayNumber
  <2> QED
    BY <1>1, <1>2, <1>4, <2>2
<1>6. CASE ~(d < MonthLength(m))
  <2>1. Tomorrow(date) = On(m + 1, 1) /\ d = MonthLength(m)
    BY <1>1, <1>3, <1>6 DEF Tomorrow, m, d
  <2>2. DayNumber(Tomorrow(date)) = DaysBeforeMonth(m + 1) + 1
    BY <1>1, <2>1, m + 1 \in Nat, 1 \in 1..31, PartsOfDate DEF DayNumber
  <2>3. DaysBeforeMonth(m + 1) = DaysBeforeMonth(m) + MonthLength(m)
    BY <1>1, NextMonth
  <2> QED
    BY <1>1, <1>2, <1>3, <1>4, <2>1, <2>2, <2>3
<1> QED
  BY <1>1, <1>2, <1>4, <1>5, <1>6

(* n days on, the number is n more. *)
LEMMA AddDaysCounts ==
  ASSUME NEW date \in Dates, NEW n \in Nat
  PROVE  DayNumber(AddDays(date, n)) = DayNumber(date) + n
<1> DEFINE f == CHOOSE h : h = [k \in 0..n |-> IF k = 0 THEN date
                                              ELSE Tomorrow(h[k - 1])]
<1>1. AddDays(date, n) = f[n]
  BY DEF AddDays
<1>2. f = [k \in 0..n |-> IF k = 0 THEN date ELSE Tomorrow(f[k - 1])]
  BY FollowsExists DEF Follows
<1> HIDE DEF f
<1>3. /\ f[0] = date
      /\ \A k \in 0..n : k # 0 => f[k] = Tomorrow(f[k - 1])
  BY <1>2
<1>4. DayNumber(date) \in Int
  BY TomorrowIsNext
<1> DEFINE T == {k \in 0..n : ~(f[k] \in Dates /\ DayNumber(f[k]) = DayNumber(date) + k)}
<1>5. T = {}
  <2> SUFFICES ASSUME T # {} PROVE FALSE
    OBVIOUS
  <2>1. T \subseteq Nat
    OBVIOUS
  <2>2. PICK k \in T : \A j \in T : k <= j
    <3> HIDE DEF T
    <3> QED
      BY <2>1, LeastElement
  <2>3. k \in 0..n /\ k # 0
    BY <1>3, <1>4
  <2>4. k - 1 \in 0..n /\ k - 1 \notin T
    BY <2>2, <2>3
  <2>5. f[k - 1] \in Dates /\ DayNumber(f[k - 1]) = DayNumber(date) + (k - 1)
    BY <2>4
  <2>6. f[k] \in Dates /\ DayNumber(f[k]) = (DayNumber(date) + (k - 1)) + 1
    BY <1>3, <2>3, <2>5, TomorrowIsLater, TomorrowIsNext
  <2> QED
    BY <1>4, <2>2, <2>3, <2>6
<1> QED
  BY <1>1, <1>5

-----------------------------------------------------------------------------
(***************************************************************************)
(* advance_scheduled_date always goes to a later date that exists, for     *)
(* every date, frequency and anchor, also without one.                     *)
(***************************************************************************)
THEOREM AdvanceIsLater ==
  ASSUME NEW date \in Dates, NEW f \in Frequencies, NEW anchor \in 0..31
  PROVE  /\ AdvanceScheduledDate(date, f, anchor) \in Dates
         /\ AdvanceScheduledDate(date, f, anchor) > date
<1>1. /\ Month(date) \in Nat
      /\ Day(date) \in 1..31
      /\ date = On(Month(date), Day(date))
  BY DateOfParts
<1>2. CASE f.unit \in Monthly
  <2> DEFINE m == Month(date) + MonthsPer(f)
             d == IF anchor = NoAnchor THEN Day(date) ELSE anchor
  <2>1. m \in Nat /\ m > Month(date)
    BY <1>1, MonthsPerPositive
  <2>2. d \in 1..31
    BY <1>1 DEF NoAnchor
  <2>3. AdvanceScheduledDate(date, f, anchor) = Clipped(m, d)
    BY <1>2 DEF AdvanceScheduledDate
  <2> HIDE DEF m, d
  <2>4. Clipped(m, d) \in Dates /\ Month(Clipped(m, d)) = m
    BY <2>1, <2>2, ClippedIsDate
  <2>5. /\ Clipped(m, d) = On(m, Day(Clipped(m, d)))
        /\ Day(Clipped(m, d)) \in 1..31
    BY <2>4, DateOfParts
  <2>6. Clipped(m, d) > date
    BY <1>1, <2>1, <2>5 DEF On
  <2> QED
    BY <2>3, <2>4, <2>6
<1>3. CASE f.unit \notin Monthly
  <2>1. DaysPer(f) \in Nat /\ DaysPer(f) > 0
    BY DEF Frequencies, DaysPer
  <2>2. AdvanceScheduledDate(date, f, anchor) = AddDays(date, DaysPer(f))
    BY <1>3 DEF AdvanceScheduledDate
  <2> QED
    BY <2>1, <2>2, AddDaysIsLater
<1> QED
  BY <1>2, <1>3

=============================================================================
