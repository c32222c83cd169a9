------------------------------ MODULE FoldProofs ------------------------------
(***************************************************************************)
(* Sums and folds over finite sets and sequences: what the operators of    *)
(* Functions, SequencesExt and Lists that the modules use return.  They    *)
(* are recursive functions over the subsets of a set, so for each a        *)
(* function with its equation is shown to exist, by induction on the size  *)
(* of the subsets, and the rest follows from the equation.  Induction is   *)
(* over a set of naturals, of subsets or of sequences: the members that    *)
(* have the property.                                                      *)
(***************************************************************************)
EXTENDS Lists, FiniteSetTheorems, TLAPS

\* A set of naturals that has a member has a least one.
LEMMA Least ==
  ASSUME NEW A, A \subseteq Nat, A # {}
  PROVE  \E n \in A : \A m \in A : n <= m
<1> DEFINE R == {ss \in Nat \X Nat : ss[1] < ss[2]}
<1>1. R = OpToRel(<, Nat)
  BY DEF OpToRel
<1>2. IsWellFoundedOn(R, Nat)
  BY <1>1, NatLessThanWellFounded
<1>3. PICK n \in A : \A m \in A : ~(<<m, n>> \in R)
  <2> HIDE DEF R
  <2>1. QED BY <1>2, WFMin
<1>4. ASSUME NEW m \in A PROVE n <= m
  <2>1. m \in Nat /\ n \in Nat
    OBVIOUS
  <2>2. ~(m < n)
    BY <1>3, <2>1
  <2>3. QED BY <2>1, <2>2
<1>5. QED BY <1>4

LEMMA FiniteDomain == \A n \in Nat : IsFiniteSet(1..n)
<1> SUFFICES ASSUME NEW n \in Nat PROVE IsFiniteSet(1..n)
  OBVIOUS
<1>1. 1 \in Int /\ n \in Int
  OBVIOUS
<1>2. QED BY <1>1, FS_Interval

\* Induction: what holds of 0, and of n + 1 when of n, holds of every natural.
LEMMA Induction ==
  ASSUME NEW A, 0 \in A, \A n \in Nat : n \in A => n + 1 \in A
  PROVE  Nat \subseteq A
<1> SUFFICES ASSUME Nat \ A # {} PROVE FALSE
  OBVIOUS
<1>1. PICK n \in Nat \ A : \A m \in Nat \ A : n <= m
  BY Least
<1>2. n - 1 \in Nat /\ n - 1 \notin Nat \ A
  BY <1>1
<1>3. QED BY <1>1, <1>2

-----------------------------------------------------------------------------
(* SumFunctionOnSet adds the values of a function in an order it does not  *)
(* say.  Folds are recursive functions over the subsets of the set, so the *)
(* first thing to prove is that such a function exists.                    *)

Pick(T) == CHOOSE x \in T : TRUE

\* The equation of the recursive function in MapThenFoldSet, for a sum, on
\* the sets of D, and on every subset of S.
IsSum(g, f, D) ==
  g = [T \in D |-> IF T = {} THEN 0 ELSE f[Pick(T)] + g[T \ {Pick(T)}]]

SumsOf(g, f, S) == IsSum(g, f, SUBSET S)

LEMMA PickElement == ASSUME NEW T, T # {} PROVE Pick(T) \in T
BY DEF Pick

\* The subsets with at most n elements.
Small(S, n) == {T \in SUBSET S : Cardinality(T) <= n}

LEMMA SmallSets ==
  ASSUME NEW S, IsFiniteSet(S)
  PROVE  /\ Small(S, 0) = {{}}
         /\ Small(S, Cardinality(S)) = SUBSET S
         /\ \A n \in Nat : \A T \in Small(S, n + 1) :
              T # {} => T \ {Pick(T)} \in Small(S, n)
<1>1. \A T \in SUBSET S : /\ IsFiniteSet(T) /\ Cardinality(T) \in Nat
                          /\ Cardinality(T) <= Cardinality(S)
                          /\ Cardinality(T) = 0 <=> T = {}
  BY FS_Subset, FS_CardinalityType, FS_EmptySet
<1>2. Small(S, 0) = {{}}
  BY <1>1 DEF Small
<1>3. Small(S, Cardinality(S)) = SUBSET S
  BY <1>1 DEF Small
<1>4. ASSUME NEW n \in Nat, NEW T \in Small(S, n + 1), T # {}
      PROVE  T \ {Pick(T)} \in Small(S, n)
  <2>1. Cardinality(T \ {Pick(T)}) = Cardinality(T) - 1
    BY <1>1, <1>4, PickElement, FS_RemoveElement DEF Small
  <2>2. QED BY <1>1, <1>4, <2>1 DEF Small
<1>5. QED BY <1>2, <1>3, <1>4

LEMMA SumExists ==
  ASSUME NEW S, IsFiniteSet(S), NEW f
  PROVE  \E g : SumsOf(g, f, S)
<1> DEFINE A == {n \in Nat : \E g : IsSum(g, f, Small(S, n))}
<1>1. 0 \in A
  <2> DEFINE g == [T \in Small(S, 0) |-> 0]
  <2>1. IsSum(g, f, Small(S, 0))
    BY SmallSets DEF IsSum
  <2>2. QED BY <2>1
<1>2. ASSUME NEW n \in Nat, n \in A PROVE n + 1 \in A
  <2>1. PICK g : IsSum(g, f, Small(S, n))
    BY <1>2
  <2> DEFINE h == [T \in Small(S, n + 1) |->
                     IF T = {} THEN 0 ELSE f[Pick(T)] + g[T \ {Pick(T)}]]
  <2>2. \A T \in Small(S, n) : T \in Small(S, n + 1)
    <3>1. \A T \in SUBSET S : Cardinality(T) \in Nat
      BY FS_Subset, FS_CardinalityType
    <3>2. QED BY <3>1 DEF Small
  <2>3. \A T \in Small(S, n) : h[T] = g[T]
    BY <2>1, <2>2 DEF IsSum
  <2>4. \A T \in Small(S, n + 1) : T # {} => h[T \ {Pick(T)}] = g[T \ {Pick(T)}]
    BY <2>3, SmallSets
  <2>5. IsSum(h, f, Small(S, n + 1))
    BY <2>4 DEF IsSum
  <2>6. QED BY <2>5
<1>3. Cardinality(S) \in Nat
  BY FS_CardinalityType
<1>4. Cardinality(S) \in A
  <2> HIDE DEF A
  <2>1. QED BY <1>1, <1>2, <1>3, Induction
<1>5. QED BY <1>4, SmallSets DEF SumsOf

LEMMA SumFold ==
  ASSUME NEW S, IsFiniteSet(S), NEW f
  PROVE  \E g : SumsOf(g, f, S) /\ SumFunctionOnSet(f, S) = g[S]
<1> DEFINE g == CHOOSE h : SumsOf(h, f, S)
<1>1. SumsOf(g, f, S)
  BY SumExists
<1>2. SumFunctionOnSet(f, S) = g[S]
  BY DEF SumFunctionOnSet, FoldFunctionOnSet, MapThenFoldSet, SumsOf, IsSum, Pick
<1>3. QED BY <1>1, <1>2

\* Induction over the subsets of a finite set: what holds of the empty set,
\* and of a set when of the set without any one of its elements.
LEMMA SubsetInduction ==
  ASSUME NEW S, IsFiniteSet(S), NEW A, {} \in A,
         \A T \in SUBSET S : T # {} /\ (\A x \in T : T \ {x} \in A) => T \in A
  PROVE  SUBSET S \subseteq A
<1> DEFINE B == {n \in Nat : Small(S, n) \subseteq A}
<1>1. \A T \in SUBSET S : IsFiniteSet(T) /\ Cardinality(T) \in Nat
  BY FS_Subset, FS_CardinalityType
<1>2. 0 \in B
  BY SmallSets
<1>3. ASSUME NEW n \in Nat, n \in B PROVE n + 1 \in B
  <2>1. ASSUME NEW T \in Small(S, n + 1) PROVE T \in A
    <3>1. T \in SUBSET S
      BY DEF Small
    <3>2. ASSUME NEW x \in T PROVE T \ {x} \in A
      <4>1. Cardinality(T \ {x}) = Cardinality(T) - 1
        BY <1>1, <3>1, FS_RemoveElement
      <4>2. Cardinality(T) <= n + 1 /\ Cardinality(T) \in Nat
        BY <1>1, <3>1 DEF Small
      <4>3. T \ {x} \in Small(S, n)
        BY <3>1, <4>1, <4>2 DEF Small
      <4>4. QED BY <1>3, <4>3
    <3>3. QED BY <3>1, <3>2
  <2>2. QED BY <2>1
<1>4. Cardinality(S) \in B
  <2> HIDE DEF B
  <2>1. Cardinality(S) \in Nat
    BY FS_CardinalityType
  <2>2. QED BY <1>2, <1>3, <2>1, Induction
<1>5. QED BY <1>4, SmallSets

LEMMA SumInteger ==
  ASSUME NEW S, IsFiniteSet(S), NEW f, \A x \in S : f[x] \in Int,
         NEW g, SumsOf(g, f, S)
  PROVE  \A T \in SUBSET S : g[T] \in Int
<1> DEFINE A == {T \in SUBSET S : g[T] \in Int}
<1>1. g[{}] = 0 /\ \A T \in SUBSET S : T # {} => g[T] = f[Pick(T)] + g[T \ {Pick(T)}]
  BY DEF SumsOf, IsSum
<1>2. ASSUME NEW T \in SUBSET S, T # {}, \A x \in T : T \ {x} \in A PROVE T \in A
  <2>1. Pick(T) \in T /\ g[T] = f[Pick(T)] + g[T \ {Pick(T)}]
    BY <1>1, <1>2, PickElement
  <2>2. f[Pick(T)] \in Int /\ g[T \ {Pick(T)}] \in Int
    BY <1>2, <2>1
  <2>3. QED BY <2>1, <2>2
<1>3. {} \in A
  BY <1>1
<1>4. SUBSET S \subseteq A
  <2> HIDE DEF A
  <2>1. QED BY <1>2, <1>3, SubsetInduction
<1>5. QED BY <1>4

LEMMA SumTakesAny ==
  ASSUME NEW S, IsFiniteSet(S), NEW f, \A x \in S : f[x] \in Int,
         NEW g, SumsOf(g, f, S)
  PROVE  \A T \in SUBSET S : \A x \in T : g[T] = f[x] + g[T \ {x}]
<1> DEFINE A == {T \in SUBSET S : \A x \in T : g[T] = f[x] + g[T \ {x}]}
<1>0. \A T \in SUBSET S : g[T] \in Int
  BY SumInteger
<1>1. \A T \in SUBSET S : T # {} => \E y \in T : g[T] = f[y] + g[T \ {y}]
  BY PickElement DEF SumsOf, IsSum
<1>2. {} \in A
  OBVIOUS
<1>3. ASSUME NEW T \in SUBSET S, T # {}, \A x \in T : T \ {x} \in A PROVE T \in A
  <2>1. PICK y \in T : g[T] = f[y] + g[T \ {y}]
    BY <1>1, <1>3
  <2>2. ASSUME NEW x \in T, x # y PROVE g[T] = f[x] + g[T \ {x}]
    <3>1. g[T \ {y}] = f[x] + g[(T \ {y}) \ {x}]
      BY <1>3, <2>2
    <3>2. g[T \ {x}] = f[y] + g[(T \ {x}) \ {y}]
      BY <1>3, <2>2
    <3>3. (T \ {x}) \ {y} = (T \ {y}) \ {x}
      OBVIOUS
    <3>4. f[x] \in Int /\ f[y] \in Int
      OBVIOUS
    <3>5. g[(T \ {y}) \ {x}] \in Int
      <4>1. (T \ {y}) \ {x} \in SUBSET S
        OBVIOUS
      <4>2. QED BY <1>0, <4>1
    <3>6. g[T] = f[y] + (f[x] + g[(T \ {y}) \ {x}])
      BY <2>1, <3>1
    <3>7. f[x] + g[T \ {x}] = f[x] + (f[y] + g[(T \ {y}) \ {x}])
      BY <3>2, <3>3
    <3>8. f[y] + (f[x] + g[(T \ {y}) \ {x}]) = f[x] + (f[y] + g[(T \ {y}) \ {x}])
      BY <3>4, <3>5
    <3>9. QED BY <3>6, <3>7, <3>8
  <2>3. QED BY <2>1, <2>2
<1>4. SUBSET S \subseteq A
  <2> HIDE DEF A
  <2>1. QED BY <1>2, <1>3, SubsetInduction
<1>5. QED BY <1>4

\* There is one sum.
Alike(e, f, T) == \A x \in T : e[x] = f[x]

LEMMA SumUnique ==
  ASSUME NEW S, IsFiniteSet(S), NEW T, T \subseteq S, NEW f, NEW e, Alike(e, f, T),
         NEW g, SumsOf(g, f, S), NEW h, SumsOf(h, e, T)
  PROVE  \A U \in SUBSET T : g[U] = h[U]
<1> DEFINE A == {U \in SUBSET T : g[U] = h[U]}
<1>1. {} \in A
  BY DEF SumsOf, IsSum
<1>2. ASSUME NEW U \in SUBSET T, U # {}, \A x \in U : U \ {x} \in A PROVE U \in A
  <2>1. Pick(U) \in U
    BY <1>2, PickElement
  <2>2. /\ g[U] = f[Pick(U)] + g[U \ {Pick(U)}]
        /\ h[U] = e[Pick(U)] + h[U \ {Pick(U)}]
    BY <1>2 DEF SumsOf, IsSum
  <2>3. e[Pick(U)] = f[Pick(U)]
    BY <2>1 DEF Alike
  <2>4. QED BY <1>2, <2>1, <2>2, <2>3
<1>3. SUBSET T \subseteq A
  <2> HIDE DEF A
  <2>1. IsFiniteSet(T)
    BY FS_Subset
  <2>2. QED BY <1>1, <1>2, <2>1, SubsetInduction
<1>4. QED BY <1>3

-----------------------------------------------------------------------------
(* What the modules use of sums. *)

\* The sum over no element.
LEMMA SumOfNone == \A f : SumFunctionOnSet(f, {}) = 0
<1>1. IsFiniteSet({})
  BY FS_EmptySet
<1>2. QED BY <1>1, SumFold DEF SumsOf, IsSum

\* A sum is that of the elements but one, and of this one.
LEMMA SumWithout ==
  ASSUME NEW S, IsFiniteSet(S), NEW f, \A y \in S : f[y] \in Int, NEW x \in S
  PROVE  /\ SumFunctionOnSet(f, S) \in Int
         /\ SumFunctionOnSet(f, S \ {x}) \in Int
         /\ SumFunctionOnSet(f, S) = f[x] + SumFunctionOnSet(f, S \ {x})
<1>1. PICK g : SumsOf(g, f, S) /\ SumFunctionOnSet(f, S) = g[S]
  BY SumFold
<1>2. IsFiniteSet(S \ {x})
  BY FS_RemoveElement
<1>3. PICK h : SumsOf(h, f, S \ {x}) /\ SumFunctionOnSet(f, S \ {x}) = h[S \ {x}]
  BY <1>2, SumFold
<1>4. g[S \ {x}] = h[S \ {x}]
  <2>1. S \ {x} \subseteq S /\ Alike(f, f, S \ {x})
    BY DEF Alike
  <2>2. \A U \in SUBSET (S \ {x}) : g[U] = h[U]
    BY <1>1, <1>3, <2>1, SumUnique
  <2>3. QED BY <2>1, <2>2
<1>5. g[S] \in Int /\ g[S \ {x}] \in Int
  BY <1>1, SumInteger
<1>6. g[S] = f[x] + g[S \ {x}]
  <2>1. ASSUME NEW T \in SUBSET S, NEW y \in T PROVE g[T] = f[y] + g[T \ {y}]
    BY <1>1, SumTakesAny
  <2>2. QED BY <2>1
<1>7. QED BY <1>1, <1>3, <1>4, <1>5, <1>6

\* A sum depends on the values only.
LEMMA SumSame ==
  ASSUME NEW S, IsFiniteSet(S), NEW f, NEW e, \A x \in S : e[x] = f[x]
  PROVE  SumFunctionOnSet(f, S) = SumFunctionOnSet(e, S)
<1>1. PICK g : SumsOf(g, f, S) /\ SumFunctionOnSet(f, S) = g[S]
  BY SumFold
<1>2. PICK h : SumsOf(h, e, S) /\ SumFunctionOnSet(e, S) = h[S]
  BY SumFold
<1>3. g[S] = h[S]
  <2>1. S \subseteq S /\ Alike(e, f, S)
    BY DEF Alike
  <2>2. \A U \in SUBSET S : g[U] = h[U]
    BY <1>1, <1>2, <2>1, SumUnique
  <2>3. QED BY <2>1, <2>2
<1>4. QED BY <1>1, <1>2, <1>3

\* A sum of naturals is a natural, and no less than its parts.
LEMMA SumOfNaturals ==
  ASSUME NEW S, IsFiniteSet(S), NEW f, \A x \in S : f[x] \in Nat
  PROVE  SumFunctionOnSet(f, S) \in Nat
<1> DEFINE A == {T \in SUBSET S : SumFunctionOnSet(f, T) \in Nat}
<1>1. {} \in A
  BY SumOfNone
<1>2. ASSUME NEW T \in SUBSET S, T # {}, \A x \in T : T \ {x} \in A PROVE T \in A
  <2>1. IsFiniteSet(T)
    BY FS_Subset
  <2>2. PICK x \in T : TRUE
    BY <1>2
  <2>3. f[x] \in Nat /\ SumFunctionOnSet(f, T \ {x}) \in Nat
    BY <1>2
  <2>4. \A y \in T : f[y] \in Int
    OBVIOUS
  <2>5. SumFunctionOnSet(f, T) = f[x] + SumFunctionOnSet(f, T \ {x})
    BY <2>1, <2>4, SumWithout
  <2>6. QED BY <2>3, <2>5
<1>3. S \in A
  <2> HIDE DEF A
  <2>1. SUBSET S \subseteq A
    BY <1>1, <1>2, SubsetInduction
  <2>2. QED BY <2>1
<1>4. QED BY <1>3

\* An element that is added to the set.
LEMMA SumWith ==
  ASSUME NEW S, IsFiniteSet(S), NEW x, x \notin S, NEW f, \A y \in S \cup {x} : f[y] \in Int
  PROVE  SumFunctionOnSet(f, S \cup {x}) = f[x] + SumFunctionOnSet(f, S)
<1>1. IsFiniteSet(S \cup {x}) /\ x \in S \cup {x} /\ (S \cup {x}) \ {x} = S
  BY FS_AddElement
<1>2. SumFunctionOnSet(f, S \cup {x})
        = f[x] + SumFunctionOnSet(f, (S \cup {x}) \ {x})
  BY <1>1, SumWithout
<1>3. QED BY <1>1, <1>2

\* Zeros add up to zero.
LEMMA SumOfZeros ==
  ASSUME NEW S, IsFiniteSet(S), NEW f, \A x \in S : f[x] = 0
  PROVE  SumFunctionOnSet(f, S) = 0
<1> DEFINE A == {T \in SUBSET S : SumFunctionOnSet(f, T) = 0}
<1>1. {} \in A
  BY SumOfNone
<1>2. ASSUME NEW T \in SUBSET S, T # {}, \A x \in T : T \ {x} \in A PROVE T \in A
  <2>1. IsFiniteSet(T)
    BY FS_Subset
  <2>2. PICK x \in T : TRUE
    BY <1>2
  <2>3. f[x] = 0 /\ SumFunctionOnSet(f, T \ {x}) = 0
    BY <1>2
  <2>4. \A y \in T : f[y] \in Int
    OBVIOUS
  <2>5. SumFunctionOnSet(f, T) = f[x] + SumFunctionOnSet(f, T \ {x})
    BY <2>1, <2>4, SumWithout
  <2>6. QED BY <2>3, <2>5
<1>3. S \in A
  <2> HIDE DEF A
  <2>1. SUBSET S \subseteq A
    BY <1>1, <1>2, SubsetInduction
  <2>2. QED BY <2>1
<1>4. QED BY <1>3

\* One value that is one more than it was.
LEMMA SumOneMore ==
  ASSUME NEW S, IsFiniteSet(S), NEW f, NEW e, NEW y \in S,
         \A x \in S : f[x] \in Nat /\ e[x] = IF x = y THEN f[x] + 1 ELSE f[x]
  PROVE  SumFunctionOnSet(e, S) = SumFunctionOnSet(f, S) + 1
<1>1. \A x \in S : f[x] \in Int /\ e[x] \in Int
  OBVIOUS
<1>2. SumFunctionOnSet(e, S) = e[y] + SumFunctionOnSet(e, S \ {y})
  BY <1>1, SumWithout
<1>3. SumFunctionOnSet(f, S) = f[y] + SumFunctionOnSet(f, S \ {y})
      /\ SumFunctionOnSet(f, S \ {y}) \in Int
  BY <1>1, SumWithout
<1>4. SumFunctionOnSet(e, S \ {y}) = SumFunctionOnSet(f, S \ {y})
  <2>1. IsFiniteSet(S \ {y}) /\ \A x \in S \ {y} : f[x] = e[x]
    BY FS_RemoveElement
  <2>2. QED BY <2>1, SumSame
<1>5. e[y] = f[y] + 1 /\ f[y] \in Int
  OBVIOUS
<1>6. QED BY <1>2, <1>3, <1>4, <1>5

\* Naturals have a sum above 0 when one of them is.
LEMMA SumPositive ==
  ASSUME NEW S, IsFiniteSet(S), NEW f, \A x \in S : f[x] \in Nat
  PROVE  /\ SumFunctionOnSet(f, S) \in Nat
         /\ SumFunctionOnSet(f, S) > 0 <=> \E x \in S : f[x] > 0
<1>1. SumFunctionOnSet(f, S) \in Nat
  BY SumOfNaturals
<1>2. ASSUME ~(\E x \in S : f[x] > 0) PROVE SumFunctionOnSet(f, S) = 0
  <2>1. \A x \in S : f[x] = 0
    BY <1>2
  <2>2. QED BY <2>1, SumOfZeros
<1>3. ASSUME NEW x \in S, f[x] > 0 PROVE SumFunctionOnSet(f, S) > 0
  <2>1. \A y \in S : f[y] \in Int
    OBVIOUS
  <2>2. SumFunctionOnSet(f, S) = f[x] + SumFunctionOnSet(f, S \ {x})
    BY <2>1, SumWithout
  <2>3. IsFiniteSet(S \ {x}) /\ \A y \in S \ {x} : f[y] \in Nat
    BY FS_RemoveElement
  <2>4. SumFunctionOnSet(f, S \ {x}) \in Nat
    BY <2>3, SumOfNaturals
  <2>5. f[x] \in Nat
    OBVIOUS
  <2>6. QED BY <1>3, <2>2, <2>4, <2>5
<1>4. QED BY <1>1, <1>2, <1>3

\* Larger values have no smaller sum.
LEMMA SumMonotone ==
  ASSUME NEW S, IsFiniteSet(S), NEW f, NEW e,
         \A x \in S : f[x] \in Int /\ e[x] \in Int /\ f[x] <= e[x]
  PROVE  SumFunctionOnSet(f, S) <= SumFunctionOnSet(e, S)
<1> DEFINE A == {T \in SUBSET S : SumFunctionOnSet(f, T) <= SumFunctionOnSet(e, T)}
<1>1. {} \in A
  BY SumOfNone
<1>2. ASSUME NEW T \in SUBSET S, T # {}, \A x \in T : T \ {x} \in A PROVE T \in A
  <2>1. IsFiniteSet(T) /\ \A y \in T : f[y] \in Int /\ e[y] \in Int
    BY FS_Subset
  <2>2. PICK x \in T : TRUE
    BY <1>2
  <2>3. f[x] \in Int /\ e[x] \in Int /\ f[x] <= e[x]
    OBVIOUS
  <2>4. SumFunctionOnSet(f, T) = f[x] + SumFunctionOnSet(f, T \ {x})
        /\ SumFunctionOnSet(f, T \ {x}) \in Int
    BY <2>1, SumWithout
  <2>5. SumFunctionOnSet(e, T) = e[x] + SumFunctionOnSet(e, T \ {x})
        /\ SumFunctionOnSet(e, T \ {x}) \in Int
    BY <2>1, SumWithout
  <2>6. SumFunctionOnSet(f, T \ {x}) <= SumFunctionOnSet(e, T \ {x})
    BY <1>2
  <2>7. QED BY <2>3, <2>4, <2>5, <2>6
<1>3. S \in A
  <2> HIDE DEF A
  <2>1. SUBSET S \subseteq A
    BY <1>1, <1>2, SubsetInduction
  <2>2. QED BY <2>1
<1>4. QED BY <1>3

-----------------------------------------------------------------------------
(* Folds of any step, over sets and over sequences. *)

\* The subsets with at most n elements, without any one of theirs.
LEMMA SmallerSets ==
  ASSUME NEW S, IsFiniteSet(S), NEW n \in Nat, NEW T \in Small(S, n + 1), NEW x \in T
  PROVE  T \ {x} \in Small(S, n)
<1>1. T \in SUBSET S /\ IsFiniteSet(T) /\ Cardinality(T) \in Nat /\ Cardinality(T) <= n + 1
  BY FS_Subset, FS_CardinalityType DEF Small
<1>2. Cardinality(T \ {x}) = Cardinality(T) - 1
  BY <1>1, FS_RemoveElement
<1>3. QED BY <1>1, <1>2 DEF Small

\* What a fold from base computes: g of a set is a step from g of the set
\* without the element that pick takes.
Folds(g, base, step, pick, D) ==
  /\ {} \in D => g[{}] = base
  /\ \A T \in D : T # {} => g[T] = step[<<g[T \ {pick[T]}], pick[T]>>]

AllFolds(g, base, step, pick, S) == Folds(g, base, step, pick, SUBSET S)
Picks(pick, S) == \A T \in SUBSET S : T # {} => pick[T] \in T
FoldTo(S, X) == [SUBSET S -> X]

LEMMA FoldExists ==
  ASSUME NEW S, IsFiniteSet(S), NEW X, NEW base \in X, NEW step \in [X \X S -> X],
         NEW pick, Picks(pick, S)
  PROVE  \E g \in FoldTo(S, X) : AllFolds(g, base, step, pick, S)
<1> DEFINE A == {n \in Nat : \E g \in [Small(S, n) -> X] :
                               Folds(g, base, step, pick, Small(S, n))}
<1>1. 0 \in A
  <2> DEFINE g == [T \in Small(S, 0) |-> base]
  <2>1. Folds(g, base, step, pick, Small(S, 0)) /\ g \in [Small(S, 0) -> X]
    BY SmallSets DEF Folds
  <2>2. QED BY <2>1
<1>2. ASSUME NEW n \in Nat, n \in A PROVE n + 1 \in A
  <2>1. PICK g \in [Small(S, n) -> X] : Folds(g, base, step, pick, Small(S, n))
    BY <1>2
  <2> DEFINE h == [T \in Small(S, n + 1) |->
                     IF T = {} THEN base ELSE step[<<g[T \ {pick[T]}], pick[T]>>]]
  <2>2. \A T \in Small(S, n) : T \in Small(S, n + 1)
    <3>1. \A T \in SUBSET S : Cardinality(T) \in Nat
      BY FS_Subset, FS_CardinalityType
    <3>2. QED BY <3>1 DEF Small
  <2>3. \A T \in Small(S, n) : h[T] = g[T]
    BY <2>1, <2>2 DEF Folds
  <2>4. ASSUME NEW T \in Small(S, n + 1), T # {}
        PROVE  /\ T \ {pick[T]} \in Small(S, n)
               /\ step[<<g[T \ {pick[T]}], pick[T]>>] \in X
    <3>1. pick[T] \in T /\ T \in SUBSET S
      BY <2>4 DEF Picks, Small
    <3>2. T \ {pick[T]} \in Small(S, n)
      BY <3>1, SmallerSets
    <3>3. <<g[T \ {pick[T]}], pick[T]>> \in X \X S
      BY <3>1, <3>2
    <3>4. QED BY <3>2, <3>3
  <2>5. h \in [Small(S, n + 1) -> X]
    BY <2>4
  <2>6. \A T \in Small(S, n + 1) : T # {} => h[T \ {pick[T]}] = g[T \ {pick[T]}]
    BY <2>3, <2>4
  <2>7. Folds(h, base, step, pick, Small(S, n + 1))
    BY <2>6 DEF Folds
  <2> HIDE DEF h
  <2>8. QED BY <2>5, <2>7
<1>3. Cardinality(S) \in Nat
  BY FS_CardinalityType
<1>4. Cardinality(S) \in A
  <2> HIDE DEF A
  <2>1. QED BY <1>1, <1>2, <1>3, Induction
<1>5. QED BY <1>4, SmallSets DEF AllFolds, FoldTo

-----------------------------------------------------------------------------
(* FoldLeft takes the elements of a sequence from the last on down. *)

LEMMA LastIndex ==
  ASSUME NEW n \in Nat, NEW T \in SUBSET (1..n), T # {}
  PROVE  /\ Max(T) \in T
         /\ \A y \in T : y <= Max(T)
<1> DEFINE B == {m \in Nat : \A x \in T : x <= m}
<1>1. n \in B
  OBVIOUS
<1>2. PICK m \in B : \A k \in B : m <= k
  <2> HIDE DEF B
  <2>1. B \subseteq Nat
    BY DEF B
  <2>2. QED BY <1>1, <2>1, Least
<1>3. m \in T
  <2> SUFFICES ASSUME m \notin T PROVE FALSE
    OBVIOUS
  <2>1. \A x \in T : x \in Nat /\ x >= 1 /\ x <= m /\ x # m
    BY <1>2
  <2>2. PICK x \in T : TRUE
    OBVIOUS
  <2>3. m \in Nat /\ m >= 1
    BY <2>1, <2>2
  <2>4. m - 1 \in Nat /\ \A y \in T : y <= m - 1
    BY <2>1, <2>3
  <2>5. m - 1 \in B
    BY <2>4
  <2>6. QED BY <1>2, <2>3, <2>5
<1>4. \A x \in T : x \in Int /\ m >= x
  BY <1>2
<1>5. \A x \in T : (\A y \in T : x >= y) => x = m
  BY <1>3, <1>4
<1>6. Max(T) = m
  BY <1>3, <1>4, <1>5 DEF Max
<1>7. QED BY <1>3, <1>4, <1>6

LEMMA Prefix ==
  ASSUME NEW n \in Nat, NEW k \in 1..n
  PROVE  /\ 1..k \in SUBSET (1..n) /\ 1..k # {}
         /\ Max(1..k) = k /\ (1..k) \ {Max(1..k)} = 1..(k - 1)
<1>1. 1..k \in SUBSET (1..n) /\ k \in 1..k
  OBVIOUS
<1>2. Max(1..k) \in 1..k /\ k <= Max(1..k)
  BY <1>1, LastIndex
<1>3. Max(1..k) = k
  BY <1>2
<1>4. QED BY <1>1, <1>3

\* A fold over the indices 1..n, as values of the recursive function in
\* FoldLeft: one exists.
Takes(g, base, step, n) ==
  \A T \in SUBSET (1..n) :
    g[T] = IF T = {} THEN base ELSE step[<<g[T \ {Max(T)}], Max(T)>>]

LEMMA LeftFoldExists ==
  ASSUME NEW n \in Nat, NEW X, NEW base \in X, NEW step \in [X \X (1..n) -> X]
  PROVE  \E g \in [SUBSET (1..n) -> X] : Takes(g, base, step, n)
<1> DEFINE S == 1..n
           pick == [T \in SUBSET S |-> Max(T)]
<1>1. IsFiniteSet(S)
  <2>1. 1 \in Int /\ n \in Int
    OBVIOUS
  <2>2. QED BY <2>1, FS_Interval
<1>2. Picks(pick, S)
  BY LastIndex DEF Picks
<1>3. \E g \in FoldTo(S, X) : AllFolds(g, base, step, pick, S)
  <2> HIDE DEF S, pick
  <2>1. step \in [X \X S -> X]
    BY DEF S
  <2>2. QED BY <1>1, <1>2, <2>1, FoldExists
<1>4. QED BY <1>3 DEF FoldTo, AllFolds, Folds, Takes

-----------------------------------------------------------------------------
(* Keep. *)

\* The lists kept of the first elements, one after the other.
KeptLists(h, s, S) ==
  /\ h[0] = <<>>
  /\ \A k \in 1..Len(s) :
       h[k] = IF s[k] \in S THEN Append(h[k - 1], s[k]) ELSE h[k - 1]

LEMMA KeepFold ==
  ASSUME NEW X, NEW s \in Seq(X), NEW S
  PROVE  \E h : KeptLists(h, s, S) /\ Keep(s, S) = h[Len(s)]
<1> DEFINE n == Len(s)
           Y == Seq(X)
           step == [p \in Y \X (1..n) |->
                      IF s[p[2]] \in S THEN Append(p[1], s[p[2]]) ELSE p[1]]
           IsIter(g) == g = [T \in SUBSET (DOMAIN s) |->
                               IF T = {} THEN <<>>
                               ELSE IF s[Max(T)] \in S
                                    THEN Append(g[T \ {Max(T)}], s[Max(T)])
                                    ELSE g[T \ {Max(T)}]]
           iter == CHOOSE g : IsIter(g)
<1>1. n \in Nat /\ DOMAIN s = 1..n /\ <<>> \in Y /\ step \in [Y \X (1..n) -> Y]
  OBVIOUS
<1>2. PICK g \in [SUBSET (1..n) -> Y] : Takes(g, <<>>, step, n)
  <2> HIDE DEF step, Y, n
  <2>1. QED BY <1>1, LeftFoldExists
<1>3. IsIter(g)
  <2>1. ASSUME NEW T \in SUBSET (1..n), T # {}
        PROVE  g[T] = IF s[Max(T)] \in S THEN Append(g[T \ {Max(T)}], s[Max(T)])
                      ELSE g[T \ {Max(T)}]
    <3>1. Max(T) \in 1..n /\ T \ {Max(T)} \in SUBSET (1..n)
      BY <1>1, <2>1, LastIndex
    <3>2. <<g[T \ {Max(T)}], Max(T)>> \in Y \X (1..n)
      BY <3>1
    <3>3. g[T] = step[<<g[T \ {Max(T)}], Max(T)>>]
      BY <1>2, <2>1 DEF Takes
    <3>4. QED BY <3>2, <3>3
  <2>2. g[{}] = <<>>
    BY <1>2 DEF Takes
  <2>3. QED BY <1>1, <2>1, <2>2
<1>4. IsIter(iter)
  <2> HIDE DEF IsIter
  <2>1. QED BY <1>3
<1>5. Keep(s, S) = iter[1..n]
  BY <1>1 DEF Keep, FoldLeft, MapThenFoldSet
<1>6. iter[{}] = <<>>
  BY <1>1, <1>4
<1>7. ASSUME NEW k \in 1..n
      PROVE  iter[1..k] = IF s[k] \in S THEN Append(iter[1..(k - 1)], s[k])
                          ELSE iter[1..(k - 1)]
  <2>1. 1..k \in SUBSET (1..n) /\ 1..k # {} /\ Max(1..k) = k
        /\ (1..k) \ {Max(1..k)} = 1..(k - 1)
    BY <1>1, Prefix
  <2>2. ASSUME NEW T \in SUBSET (1..n), T # {}
        PROVE  iter[T] = IF s[Max(T)] \in S THEN Append(iter[T \ {Max(T)}], s[Max(T)])
                         ELSE iter[T \ {Max(T)}]
    <3> HIDE DEF iter
    <3>1. QED BY <1>1, <1>4, <2>2
  <2> HIDE DEF iter
  <2>3. iter[1..k] = IF s[Max(1..k)] \in S
                     THEN Append(iter[(1..k) \ {Max(1..k)}], s[Max(1..k)])
                     ELSE iter[(1..k) \ {Max(1..k)}]
    BY <2>1, <2>2
  <2>4. QED BY <2>1, <2>3
<1> DEFINE h == [k \in 0..n |-> iter[1..k]]
<1>8. KeptLists(h, s, S)
  <2> HIDE DEF iter
  <2>1. QED BY <1>1, <1>6, <1>7 DEF KeptLists
<1>9. h[n] = iter[1..n]
  BY <1>1
<1>10. QED
  <2> HIDE DEF iter, h
  <2>1. QED BY <1>5, <1>8, <1>9

\* Induction on the length of a sequence.
LEMMA SeqInduction ==
  ASSUME NEW X, NEW A, <<>> \in A,
         \A s \in Seq(X) : \A x \in X : s \in A => Append(s, x) \in A
  PROVE  Seq(X) \subseteq A
<1> DEFINE B == {n \in Nat : \A s \in Seq(X) : Len(s) = n => s \in A}
<1>1. 0 \in B
  OBVIOUS
<1>2. ASSUME NEW n \in Nat, n \in B PROVE n + 1 \in B
  <2>1. ASSUME NEW s \in Seq(X), Len(s) = n + 1 PROVE s \in A
    <3> DEFINE front == SubSeq(s, 1, n)
               last == s[n + 1]
    <3>1. front \in Seq(X) /\ Len(front) = n /\ last \in X
      BY <2>1
    <3>2. s = Append(front, last)
      BY <2>1
    <3>3. front \in A
      BY <1>2, <3>1
    <3> HIDE DEF front, last
    <3>4. QED BY <3>1, <3>2, <3>3
  <2>2. QED BY <2>1
<1>3. Nat \subseteq B
  <2> HIDE DEF B
  <2>1. QED BY <1>1, <1>2, Induction
<1>4. QED BY <1>3

LEMMA KeepOfNone == \A S : Keep(<<>>, S) = <<>>
<1> SUFFICES ASSUME NEW S PROVE Keep(<<>>, S) = <<>>
  OBVIOUS
<1>1. <<>> \in Seq(Nat) /\ Len(<<>>) = 0
  OBVIOUS
<1>2. PICK h : KeptLists(h, <<>>, S) /\ Keep(<<>>, S) = h[Len(<<>>)]
  BY <1>1, KeepFold
<1>3. QED BY <1>1, <1>2 DEF KeptLists

\* What is kept of a sequence that grew by one element.
LEMMA KeepAppend ==
  ASSUME NEW X, NEW s \in Seq(X), NEW x \in X, NEW S
  PROVE  Keep(Append(s, x), S) = IF x \in S THEN Append(Keep(s, S), x) ELSE Keep(s, S)
<1> DEFINE t == Append(s, x)
           n == Len(s)
<1>0. t \in Seq(X) /\ n \in Nat /\ Len(t) = n + 1 /\ t[n + 1] = x
      /\ \A k \in 1..n : t[k] = s[k] /\ k \in 1..(n + 1)
  OBVIOUS
<1>1. PICK g : KeptLists(g, s, S) /\ Keep(s, S) = g[n]
  BY KeepFold
<1>2. PICK h : KeptLists(h, t, S) /\ Keep(t, S) = h[n + 1]
  <2> HIDE DEF t, n
  <2>1. QED BY <1>0, KeepFold
<1> DEFINE A == {k \in Nat : k <= n => g[k] = h[k]}
<1>3. 0 \in A
  BY <1>1, <1>2 DEF KeptLists
<1>4. ASSUME NEW k \in Nat, k \in A PROVE k + 1 \in A
  <2> HIDE DEF t, n
  <2> SUFFICES ASSUME k + 1 <= n PROVE g[k + 1] = h[k + 1]
    OBVIOUS
  <2>1. k + 1 \in 1..n /\ k + 1 \in 1..(n + 1) /\ t[k + 1] = s[k + 1] /\ k <= n
        /\ (k + 1) - 1 = k
    BY <1>0
  <2>2. g[k + 1] = IF s[k + 1] \in S THEN Append(g[(k + 1) - 1], s[k + 1]) ELSE g[(k + 1) - 1]
    BY <1>1, <2>1 DEF KeptLists, n
  <2>3. h[k + 1] = IF t[k + 1] \in S THEN Append(h[(k + 1) - 1], t[k + 1]) ELSE h[(k + 1) - 1]
    BY <1>0, <1>2, <2>1 DEF KeptLists
  <2>4. g[k] = h[k]
    BY <1>4, <2>1
  <2>5. QED BY <2>1, <2>2, <2>3, <2>4
<1>5. Nat \subseteq A
  <2> HIDE DEF A
  <2>1. QED BY <1>3, <1>4, Induction
<1>6. g[n] = h[n]
  BY <1>0, <1>5
<1>7. h[n + 1] = IF x \in S THEN Append(h[n], x) ELSE h[n]
  <2> HIDE DEF t, n
  <2>1. n + 1 \in 1..(n + 1) /\ (n + 1) - 1 = n
    BY <1>0
  <2>2. h[n + 1] = IF t[n + 1] \in S THEN Append(h[(n + 1) - 1], t[n + 1]) ELSE h[(n + 1) - 1]
    BY <1>0, <1>2, <2>1 DEF KeptLists
  <2>3. QED BY <1>0, <2>1, <2>2
<1>8. QED BY <1>1, <1>2, <1>6, <1>7

LEMMA KeepType ==
  ASSUME NEW X, NEW S, NEW s \in Seq(X)
  PROVE  Keep(s, S) \in Seq(X \cap S)
<1> DEFINE A == {r \in Seq(X) : Keep(r, S) \in Seq(X \cap S)}
<1>1. <<>> \in A
  <2>1. Keep(<<>>, S) = <<>> /\ <<>> \in Seq(X) /\ <<>> \in Seq(X \cap S)
    BY KeepOfNone
  <2>2. QED BY <2>1
<1>2. ASSUME NEW r \in Seq(X), NEW x \in X, r \in A PROVE Append(r, x) \in A
  <2>1. Keep(Append(r, x), S) = IF x \in S THEN Append(Keep(r, S), x) ELSE Keep(r, S)
    BY KeepAppend
  <2>2. Keep(r, S) \in Seq(X \cap S)
    BY <1>2
  <2>3. x \in S => Append(Keep(r, S), x) \in Seq(X \cap S)
    BY <2>2
  <2>4. Keep(Append(r, x), S) \in Seq(X \cap S)
    BY <2>1, <2>2, <2>3
  <2>5. Append(r, x) \in Seq(X)
    OBVIOUS
  <2>6. QED BY <2>4, <2>5
<1>3. Seq(X) \subseteq A
  <2> HIDE DEF A
  <2>1. QED BY <1>1, <1>2, SeqInduction
<1>4. QED BY <1>3

-----------------------------------------------------------------------------
(* How often an element occurs. *)

Occurs(s, x) == Len(Keep(s, {x}))

LEMMA OccursType == ASSUME NEW X, NEW s \in Seq(X), NEW x PROVE Occurs(s, x) \in Nat
<1>1. Keep(s, {x}) \in Seq(X \cap {x})
  BY KeepType
<1>2. QED BY <1>1 DEF Occurs

LEMMA OccursAppend ==
  ASSUME NEW X, NEW s \in Seq(X), NEW y \in X, NEW x
  PROVE  Occurs(Append(s, y), x) = IF y = x THEN Occurs(s, x) + 1 ELSE Occurs(s, x)
<1>1. Keep(s, {x}) \in Seq(X \cap {x})
  BY KeepType
<1>2. Keep(Append(s, y), {x}) = IF y \in {x} THEN Append(Keep(s, {x}), y) ELSE Keep(s, {x})
  BY KeepAppend
<1>3. y = x => Append(Keep(s, {x}), y) \in Seq(X \cap {x})
                 /\ Len(Append(Keep(s, {x}), y)) = Len(Keep(s, {x})) + 1
  BY <1>1
<1>4. QED BY <1>2, <1>3 DEF Occurs

\* Nothing occurs more often in what is kept.
LEMMA OccursInKept ==
  ASSUME NEW X, NEW s \in Seq(X), NEW S, NEW x
  PROVE  Occurs(Keep(s, S), x) <= Occurs(s, x)
<1> DEFINE A == {r \in Seq(X) : Occurs(Keep(r, S), x) <= Occurs(r, x)}
<1>1. <<>> \in A
  <2>1. Keep(<<>>, S) = <<>> /\ <<>> \in Seq(X)
    BY KeepOfNone
  <2>2. Occurs(<<>>, x) \in Nat
    BY <2>1, OccursType
  <2>3. QED BY <2>1, <2>2
<1>2. ASSUME NEW r \in Seq(X), NEW y \in X, r \in A PROVE Append(r, y) \in A
  <2>1. Keep(Append(r, y), S) = IF y \in S THEN Append(Keep(r, S), y) ELSE Keep(r, S)
    BY KeepAppend
  <2>2. Keep(r, S) \in Seq(X)
    <3>1. Keep(r, S) \in Seq(X \cap S)
      BY KeepType
    <3>2. QED BY <3>1
  <2>3. Occurs(Append(r, y), x) = IF y = x THEN Occurs(r, x) + 1 ELSE Occurs(r, x)
    BY OccursAppend
  <2>4. Occurs(Append(Keep(r, S), y), x)
          = IF y = x THEN Occurs(Keep(r, S), x) + 1 ELSE Occurs(Keep(r, S), x)
    BY <2>2, OccursAppend
  <2>5. Occurs(r, x) \in Nat /\ Occurs(Keep(r, S), x) \in Nat
    BY <2>2, OccursType
  <2>6. Occurs(Keep(r, S), x) <= Occurs(r, x)
    BY <1>2
  <2>7. Occurs(Keep(Append(r, y), S), x) <= Occurs(Append(r, y), x)
    BY <2>1, <2>3, <2>4, <2>5, <2>6
  <2>8. QED BY <2>7
<1>3. Seq(X) \subseteq A
  <2> HIDE DEF A
  <2>1. QED BY <1>1, <1>2, SeqInduction
<1>4. QED BY <1>3

\* The occurrences of the elements of a finite set are those that are kept.
LEMMA OccurrencesAreKept ==
  ASSUME NEW X, NEW s \in Seq(X), NEW S, IsFiniteSet(S)
  PROVE  SumFunctionOnSet([x \in S |-> Occurs(s, x)], S) = Len(Keep(s, S))
<1> DEFINE f(r) == [x \in S |-> Occurs(r, x)]
           A == {r \in Seq(X) : SumFunctionOnSet(f(r), S) = Len(Keep(r, S))}
<1>1. <<>> \in A
  <2>1. \A x \in S : f(<<>>)[x] = 0
    BY KeepOfNone DEF Occurs
  <2>2. SumFunctionOnSet(f(<<>>), S) = 0
    <3> HIDE DEF f
    <3>1. QED BY <2>1, SumOfZeros
  <2>3. QED BY <2>2, KeepOfNone
<1>2. ASSUME NEW r \in Seq(X), NEW y \in X, r \in A PROVE Append(r, y) \in A
  <2>1. Keep(Append(r, y), S) = IF y \in S THEN Append(Keep(r, S), y) ELSE Keep(r, S)
    BY KeepAppend
  <2>2. Keep(r, S) \in Seq(X \cap S)
    BY KeepType
  <2>3. \A x \in S : /\ f(r)[x] \in Nat
                     /\ f(Append(r, y))[x] = IF x = y THEN f(r)[x] + 1 ELSE f(r)[x]
    BY OccursType, OccursAppend
  <2>4. CASE y \notin S
    <3>1. \A x \in S : f(Append(r, y))[x] = f(r)[x]
      BY <2>3, <2>4
    <3>2. SumFunctionOnSet(f(Append(r, y)), S) = SumFunctionOnSet(f(r), S)
      <4> HIDE DEF f
      <4>1. QED BY <3>1, SumSame
    <3>3. QED BY <1>2, <2>1, <2>4, <3>2
  <2>5. CASE y \in S
    <3>1. SumFunctionOnSet(f(Append(r, y)), S) = SumFunctionOnSet(f(r), S) + 1
      <4> HIDE DEF f
      <4>1. QED BY <2>3, <2>5, SumOneMore
    <3>2. Len(Append(Keep(r, S), y)) = Len(Keep(r, S)) + 1
      BY <2>2, <2>5
    <3>3. QED BY <1>2, <2>1, <2>5, <3>1, <3>2
  <2>6. QED BY <2>4, <2>5
<1>3. Seq(X) \subseteq A
  <2> HIDE DEF A
  <2>1. QED BY <1>1, <1>2, SeqInduction
<1>4. QED BY <1>3

\* Something is kept when something is there to keep.
LEMMA KeepsSome ==
  ASSUME NEW X, NEW s \in Seq(X), NEW S
  PROVE  Keep(s, S) # <<>> <=> \E i \in DOMAIN s : s[i] \in S
<1> DEFINE A == {r \in Seq(X) : Keep(r, S) # <<>> <=> \E i \in DOMAIN r : r[i] \in S}
<1>1. <<>> \in A
  <2>1. Keep(<<>>, S) = <<>> /\ <<>> \in Seq(X) /\ DOMAIN <<>> = {}
    BY KeepOfNone
  <2>2. QED BY <2>1
<1>2. ASSUME NEW r \in Seq(X), NEW y \in X, r \in A PROVE Append(r, y) \in A
  <2> DEFINE t == Append(r, y)
  <2>1. Keep(t, S) = IF y \in S THEN Append(Keep(r, S), y) ELSE Keep(r, S)
    BY KeepAppend
  <2>2. Keep(r, S) \in Seq(X \cap S)
    BY KeepType
  <2>3. y \in S => Append(Keep(r, S), y) # <<>>
    BY <2>2
  <2>4. /\ t \in Seq(X) /\ Len(r) \in Nat /\ DOMAIN t = 1..(Len(r) + 1)
        /\ DOMAIN r = 1..Len(r) /\ t[Len(r) + 1] = y /\ \A i \in 1..Len(r) : t[i] = r[i]
    OBVIOUS
  <2> HIDE DEF t
  <2>5. (\E i \in DOMAIN t : t[i] \in S) <=> y \in S \/ \E i \in DOMAIN r : r[i] \in S
    <3>1. ASSUME NEW i \in DOMAIN t, t[i] \in S
          PROVE  y \in S \/ \E j \in DOMAIN r : r[j] \in S
      <4>1. i \in 1..Len(r) \/ i = Len(r) + 1
        BY <2>4
      <4>2. QED BY <2>4, <3>1, <4>1
    <3>2. ASSUME NEW i \in DOMAIN r, r[i] \in S PROVE \E j \in DOMAIN t : t[j] \in S
      <4>1. i \in DOMAIN t /\ t[i] \in S
        BY <2>4, <3>2
      <4>2. QED BY <4>1
    <3>3. ASSUME y \in S PROVE \E j \in DOMAIN t : t[j] \in S
      <4>1. Len(r) + 1 \in DOMAIN t
        BY <2>4
      <4>2. QED BY <2>4, <3>3, <4>1
    <3>4. QED BY <3>1, <3>2, <3>3
  <2>6. Keep(r, S) # <<>> <=> \E i \in DOMAIN r : r[i] \in S
    BY <1>2
  <2>7. Keep(t, S) # <<>> <=> \E i \in DOMAIN t : t[i] \in S
    BY <2>1, <2>3, <2>5, <2>6
  <2>8. QED BY <2>4, <2>7 DEF t
<1>3. Seq(X) \subseteq A
  <2> HIDE DEF A
  <2>1. QED BY <1>1, <1>2, SeqInduction
<1>4. QED BY <1>3

\* Nothing is dropped of a sequence of elements to keep.
LEMMA KeepAll ==
  ASSUME NEW X, NEW s \in Seq(X), NEW S, X \subseteq S
  PROVE  Keep(s, S) = s
<1> DEFINE A == {r \in Seq(X) : Keep(r, S) = r}
<1>1. <<>> \in A
  BY KeepOfNone
<1>2. ASSUME NEW r \in Seq(X), NEW y \in X, r \in A PROVE Append(r, y) \in A
  <2>1. Keep(Append(r, y), S) = IF y \in S THEN Append(Keep(r, S), y) ELSE Keep(r, S)
    BY KeepAppend
  <2>2. QED BY <1>2, <2>1
<1>3. Seq(X) \subseteq A
  <2> HIDE DEF A
  <2>1. QED BY <1>1, <1>2, SeqInduction
<1>4. QED BY <1>3

=============================================================================
