----------------------------- MODULE SumLemmas -----------------------------
(***************************************************************************)
(* Induction over numbers and finite sets, and what it shows of the sums   *)
(* that Payments and Pricing take over rows and nights.                    *)
(*                                                                         *)
(* The induction theorems of the library take an operator, which no        *)
(* installed prover can instantiate.  WFMin takes sets: here a property is *)
(* the set of the values that have it.                                     *)
(***************************************************************************)
EXTENDS FiniteSetsExt, FiniteSetTheorems, WellFoundedInduction, TLAPS

-----------------------------------------------------------------------------
(* Induction                                                               *)

\* Every set of natural numbers that is not empty has a least element.
LEMMA LeastNumber ==
  ASSUME NEW T \in SUBSET Nat, T # {}
  PROVE  \E n \in T : \A m \in T : n <= m
<1> DEFINE R == OpToRel(<, Nat)
<1>1. IsWellFoundedOn(R, Nat)
  BY NatLessThanWellFounded
<1>2. PICK n \in T : \A m \in T : <<m, n>> \notin R
  <2> HIDE DEF R
  <2> QED
    BY <1>1, WFMin
<1>3. \A m \in T : ~(m < n)
  BY <1>2 DEF OpToRel
<1>4. QED
  BY <1>3

\* A set of natural numbers with 0 and every successor has them all.
LEMMA InductiveSet ==
  ASSUME NEW T \in SUBSET Nat, 0 \in T, \A n \in T : n + 1 \in T
  PROVE  T = Nat
<1> DEFINE U == Nat \ T
<1>1. SUFFICES ASSUME U # {} PROVE FALSE
  OBVIOUS
<1>2. PICK n \in U : \A m \in U : n <= m
  BY <1>1, LeastNumber
<1>3. n # 0 /\ n - 1 \in Nat /\ n - 1 \notin U
  BY <1>2
<1>4. QED
  BY <1>3

\* A family of subsets of a finite set that has the empty set and, with a set, that set and
\* one more element, has them all.
LEMMA FiniteInduction ==
  ASSUME NEW S, IsFiniteSet(S), NEW F, {} \in F,
         \A T \in SUBSET S : \A x \in S \ T : T \in F => T \cup {x} \in F
  PROVE  SUBSET S \subseteq F
<1> DEFINE N == {n \in Nat : \A T \in SUBSET S : Cardinality(T) = n => T \in F}
<1>1. \A T \in SUBSET S : IsFiniteSet(T) /\ Cardinality(T) \in Nat
  BY FS_Subset, FS_CardinalityType
<1>2. 0 \in N
  BY <1>1, FS_EmptySet
<1>3. ASSUME NEW n \in N PROVE n + 1 \in N
  <2>1. SUFFICES ASSUME NEW T \in SUBSET S, Cardinality(T) = n + 1 PROVE T \in F
    OBVIOUS
  <2>2. T # {}
    <3>1. n + 1 # 0
      OBVIOUS
    <3>2. QED
      BY <2>1, <3>1, FS_EmptySet
  <2>3. PICK x \in T : TRUE
    BY <2>2
  <2>4. Cardinality(T \ {x}) = n
    BY <1>1, <2>1, <2>3, FS_RemoveElement
  <2>5. T \ {x} \in F /\ T = (T \ {x}) \cup {x}
    BY <2>3, <2>4
  <2>6. QED
    BY <2>5, <2>3
<1>4. N = Nat
  <2>1. N \in SUBSET Nat
    OBVIOUS
  <2> HIDE DEF N
  <2>2. \A n \in N : n + 1 \in N
    BY <1>3
  <2>3. QED
    BY <1>2, <2>1, <2>2, InductiveSet
<1>5. QED
  BY <1>1, <1>4
-----------------------------------------------------------------------------
(* The fold behind SumFunctionOnSet is well defined                        *)

\* g tells the sum of F over every part of S, in whatever order it is taken.
SumTable(S, F, g) ==
    /\ g \in [SUBSET S -> Int] /\ g[{}] = 0
    /\ \A T \in SUBSET S : \A x \in T : g[T] = F[x] + g[T \ {x}]

\* There is such a table for a finite set: that of one more element comes from the one before.
LEMMA SumTableExists ==
  ASSUME NEW S, IsFiniteSet(S), NEW F, \A x \in S : F[x] \in Int
  PROVE  \E g : SumTable(S, F, g)
<1> DEFINE H == {T \in SUBSET S : \E g : SumTable(T, F, g)}
<1>1. {} \in H
  <2>1. SumTable({}, F, [T \in SUBSET {} |-> 0])
    BY DEF SumTable
  <2>2. QED
    BY <2>1
<1>2. ASSUME NEW T \in SUBSET S, NEW a \in S \ T, T \in H PROVE T \cup {a} \in H
  <2>1. PICK g : SumTable(T, F, g)
    BY <1>2
  <2> DEFINE k == [U \in SUBSET (T \cup {a}) |-> g[U \ {a}] + IF a \in U THEN F[a] ELSE 0]
  <2>2. k \in [SUBSET (T \cup {a}) -> Int]
    BY <2>1 DEF SumTable
  <2>3. k[{}] = 0
    <3>1. {} \ {a} = {}
      OBVIOUS
    <3>2. QED
      BY <2>1, <3>1 DEF SumTable
  <2>4. ASSUME NEW U \in SUBSET (T \cup {a}), NEW x \in U PROVE k[U] = F[x] + k[U \ {x}]
    <3>1. U \ {a} \in SUBSET T /\ g[U \ {a}] \in Int /\ F[a] \in Int /\ F[x] \in Int
      BY <2>1 DEF SumTable
    <3>2. CASE x = a
      <4>1. (U \ {x}) \ {a} = U \ {a} /\ a \in U /\ a \notin U \ {x}
        BY <3>2
      <4>2. k[U] = g[U \ {a}] + F[a]
        BY <4>1
      <4>3. k[U \ {x}] = g[U \ {a}] + 0
        BY <4>1
      <4>4. QED
        BY <3>1, <3>2, <4>2, <4>3
    <3>3. CASE x # a
      <4>1. (U \ {x}) \ {a} = (U \ {a}) \ {x} /\ (a \in U <=> a \in U \ {x}) /\ x \in U \ {a}
        BY <3>3
      <4>2. g[U \ {a}] = F[x] + g[(U \ {a}) \ {x}] /\ g[(U \ {a}) \ {x}] \in Int
        BY <2>1, <3>1, <4>1 DEF SumTable
      <4>3. k[U] = g[U \ {a}] + (IF a \in U THEN F[a] ELSE 0)
        OBVIOUS
      <4>4. k[U \ {x}] = g[(U \ {a}) \ {x}] + (IF a \in U THEN F[a] ELSE 0)
        BY <4>1
      <4>5. QED
        BY <3>1, <4>2, <4>3, <4>4
    <3>4. QED
      BY <3>2, <3>3
  <2>5. SumTable(T \cup {a}, F, k)
    BY <2>2, <2>3, <2>4 DEF SumTable
  <2>6. QED
    BY <2>5
<1>3. SUBSET S \subseteq H
  <2> HIDE DEF H
  <2> QED
    BY <1>1, <1>2, FiniteInduction
<1>4. QED
  BY <1>3

\* The fold, which takes the elements as CHOOSE finds them, agrees with the table.
LEMMA SumIsTable ==
  ASSUME NEW S, IsFiniteSet(S), NEW F, \A x \in S : F[x] \in Int, NEW g, SumTable(S, F, g)
  PROVE  SumFunctionOnSet(F, S) = g[S]
<1> DEFINE Step(h, s) == IF s = {} THEN 0 ELSE F[CHOOSE x \in s : TRUE] + h[s \ {CHOOSE x \in s : TRUE}]
           iter == CHOOSE h : h = [s \in SUBSET S |-> Step(h, s)]
<1>1. SumFunctionOnSet(F, S) = iter[S]
  BY DEF SumFunctionOnSet, FoldFunctionOnSet, MapThenFoldSet
<1>2. g = [s \in SUBSET S |-> Step(g, s)]
  <2>1. \A s \in SUBSET S : g[s] = Step(g, s)
    BY DEF SumTable
  <2>2. QED
    BY <2>1 DEF SumTable
<1>3. iter = [s \in SUBSET S |-> Step(iter, s)]
  <2> HIDE DEF Step
  <2> QED
    BY <1>2
<1>4. \A T \in SUBSET S : iter[T] = IF T = {} THEN 0
                                   ELSE F[CHOOSE x \in T : TRUE] + iter[T \ {CHOOSE x \in T : TRUE}]
  <2> HIDE DEF iter
  <2> QED
    BY <1>3
<1> HIDE DEF iter, Step
<1>5. ASSUME NEW n \in Nat, \A T \in SUBSET S : Cardinality(T) < n => iter[T] = g[T]
      PROVE  \A T \in SUBSET S : Cardinality(T) = n => iter[T] = g[T]
  <2>1. SUFFICES ASSUME NEW T \in SUBSET S, Cardinality(T) = n PROVE iter[T] = g[T]
    OBVIOUS
  <2>2. CASE T = {}
    BY <1>4, <2>2 DEF SumTable
  <2>3. CASE T # {}
    <3>1. PICK x : x = CHOOSE y \in T : TRUE
      OBVIOUS
    <3>2. x \in T
      BY <2>3, <3>1
    <3>3. Cardinality(T \ {x}) < n
      BY <2>1, <3>2, FS_Subset, FS_RemoveElement
    <3>4. iter[T] = F[x] + iter[T \ {x}]
      BY <1>4, <2>3, <3>1
    <3>5. QED
      BY <1>5, <3>2, <3>3, <3>4 DEF SumTable
  <2>4. QED
    BY <2>2, <2>3
<1> DEFINE N == {n \in Nat : \A T \in SUBSET S : Cardinality(T) < n => iter[T] = g[T]}
<1>6. \A T \in SUBSET S : Cardinality(T) \in Nat
  BY FS_Subset, FS_CardinalityType
<1>7. 0 \in N
  BY <1>6
<1>8. \A n \in N : n + 1 \in N
  BY <1>5, <1>6
<1>9. N = Nat
  <2>1. N \in SUBSET Nat
    OBVIOUS
  <2> HIDE DEF N
  <2>2. QED
    BY <1>7, <1>8, <2>1, InductiveSet
<1>10. Cardinality(S) + 1 \in N
  BY <1>6, <1>9
<1>11. QED
  BY <1>1, <1>6, <1>10

-----------------------------------------------------------------------------
(* Sums                                                                    *)

\* A sum of integers is one.
LEMMA SumIsInt ==
  ASSUME NEW S, IsFiniteSet(S), NEW F, \A x \in S : F[x] \in Int
  PROVE  SumFunctionOnSet(F, S) \in Int
<1>1. PICK g : SumTable(S, F, g)
  BY SumTableExists
<1>2. SumFunctionOnSet(F, S) = g[S]
  BY <1>1, SumIsTable
<1>3. QED
  BY <1>1, <1>2 DEF SumTable

\* The sum over no element is 0.
LEMMA SumOfNone == \A F : SumFunctionOnSet(F, {}) = 0
<1> TAKE F
<1>1. IsFiniteSet({})
  BY FS_EmptySet
<1>2. SumTable({}, F, [T \in SUBSET {} |-> 0])
  BY DEF SumTable
<1>3. QED
  BY <1>1, <1>2, SumIsTable DEF SumTable

\* Any element can be taken out first.
LEMMA SumTakeOne ==
  ASSUME NEW S, IsFiniteSet(S), NEW F, \A y \in S : F[y] \in Int, NEW x \in S
  PROVE  SumFunctionOnSet(F, S) = F[x] + SumFunctionOnSet(F, S \ {x})
<1>1. PICK g : SumTable(S, F, g)
  BY SumTableExists
<1> DEFINE T == S \ {x}
           k == [U \in SUBSET T |-> g[U]]
<1>2. IsFiniteSet(T) /\ T \in SUBSET S
  BY FS_Subset
<1>3. SumTable(T, F, k)
  BY <1>1 DEF SumTable
<1>4. SumFunctionOnSet(F, T) = k[T]
  <2> HIDE DEF k
  <2> QED
    BY <1>2, <1>3, SumIsTable
<1>5. SumFunctionOnSet(F, S) = g[S]
  BY <1>1, SumIsTable
<1>6. QED
  BY <1>1, <1>4, <1>5 DEF SumTable

\* Replacing terms by greater ones, leaving out some that are negative and adding some that
\* are not makes no sum smaller.
LEMMA SumAtMost ==
  ASSUME NEW S, IsFiniteSet(S), NEW F, \A x \in S : F[x] \in Int,
         NEW T, IsFiniteSet(T), NEW G, \A x \in T : G[x] \in Int,
         \A x \in S \cap T : F[x] <= G[x],
         \A x \in S \ T : F[x] <= 0, \A x \in T \ S : 0 <= G[x]
  PROVE  SumFunctionOnSet(F, S) <= SumFunctionOnSet(G, T)
<1> DEFINE P(U) == SumFunctionOnSet(F, U \cap S) <= SumFunctionOnSet(G, U \cap T)
           H == {U \in SUBSET (S \cup T) : P(U)}
<1>1. IsFiniteSet(S \cup T)
  BY FS_Union
<1>2. {} \in H
  <2>1. {} \cap S = {} /\ {} \cap T = {}
    OBVIOUS
  <2>2. QED
    BY <2>1, SumOfNone
<1>3. ASSUME NEW U \in SUBSET (S \cup T), NEW x \in (S \cup T) \ U, U \in H PROVE U \cup {x} \in H
  <2> DEFINE V == U \cup {x}
  <2>1. /\ IsFiniteSet(U \cap S) /\ IsFiniteSet(V \cap S)
        /\ IsFiniteSet(U \cap T) /\ IsFiniteSet(V \cap T)
    BY <1>1, FS_Subset
  <2>2. SumFunctionOnSet(F, U \cap S) \in Int /\ SumFunctionOnSet(G, U \cap T) \in Int
    BY <2>1, SumIsInt
  <2>3. SumFunctionOnSet(F, V \cap S) = SumFunctionOnSet(F, U \cap S) + IF x \in S THEN F[x] ELSE 0
    <3>1. CASE x \in S
      <4>1. x \in V \cap S /\ (V \cap S) \ {x} = U \cap S
        BY <3>1
      <4>2. SumFunctionOnSet(F, V \cap S) = F[x] + SumFunctionOnSet(F, (V \cap S) \ {x})
        BY <2>1, <4>1, SumTakeOne
      <4>3. SumFunctionOnSet(F, V \cap S) = F[x] + SumFunctionOnSet(F, U \cap S) /\ F[x] \in Int
        BY <3>1, <4>1, <4>2
      <4> HIDE DEF V
      <4>4. QED
        BY <2>2, <3>1, <4>3
    <3>2. CASE x \notin S
      <4>1. V \cap S = U \cap S
        BY <3>2
      <4>2. QED
        BY <2>2, <3>2, <4>1
    <3>3. QED
      BY <3>1, <3>2
  <2>4. SumFunctionOnSet(G, V \cap T) = SumFunctionOnSet(G, U \cap T) + IF x \in T THEN G[x] ELSE 0
    <3>1. CASE x \in T
      <4>1. x \in V \cap T /\ (V \cap T) \ {x} = U \cap T
        BY <3>1
      <4>2. SumFunctionOnSet(G, V \cap T) = G[x] + SumFunctionOnSet(G, (V \cap T) \ {x})
        BY <2>1, <4>1, SumTakeOne
      <4>3. SumFunctionOnSet(G, V \cap T) = G[x] + SumFunctionOnSet(G, U \cap T) /\ G[x] \in Int
        BY <3>1, <4>1, <4>2
      <4> HIDE DEF V
      <4>4. QED
        BY <2>2, <3>1, <4>3
    <3>2. CASE x \notin T
      <4>1. V \cap T = U \cap T
        BY <3>2
      <4>2. QED
        BY <2>2, <3>2, <4>1
    <3>3. QED
      BY <3>1, <3>2
  <2>5. QED
    BY <1>3, <2>2, <2>3, <2>4
<1>4. S \cup T \in H
  <2> DEFINE W == S \cup T
  <2>1. \A U \in SUBSET W : \A x \in W \ U : U \in H => U \cup {x} \in H
    BY <1>3
  <2>2. IsFiniteSet(W)
    BY <1>1
  <2>3. W \in SUBSET W
    OBVIOUS
  <2> HIDE DEF H, W
  <2>4. W \in H
    BY <1>2, <2>1, <2>2, <2>3, FiniteInduction
  <2>5. QED
    BY <2>4 DEF W
<1>5. (S \cup T) \cap S = S /\ (S \cup T) \cap T = T
  OBVIOUS
<1>6. QED
  BY <1>4, <1>5

\* A sum is at most the number of its terms times a bound of theirs.
LEMMA SumWithin ==
  ASSUME NEW S, IsFiniteSet(S), NEW F, \A x \in S : F[x] \in Int,
         NEW c \in Int, \A x \in S : F[x] <= c
  PROVE  SumFunctionOnSet(F, S) <= Cardinality(S) * c
<1> DEFINE H == {T \in SUBSET S : SumFunctionOnSet(F, T) <= Cardinality(T) * c}
<1>1. {} \in H
  BY SumOfNone, FS_EmptySet
<1>2. ASSUME NEW T \in SUBSET S, NEW x \in S \ T, T \in H PROVE T \cup {x} \in H
  <2>1. /\ IsFiniteSet(T) /\ Cardinality(T) \in Nat
        /\ IsFiniteSet(T \cup {x}) /\ Cardinality(T \cup {x}) = Cardinality(T) + 1
    BY FS_Subset, FS_CardinalityType, FS_AddElement
  <2>2. SumFunctionOnSet(F, T) \in Int
    BY <2>1, SumIsInt
  <2>3. SumFunctionOnSet(F, T \cup {x}) = F[x] + SumFunctionOnSet(F, T)
    <3>1. (T \cup {x}) \ {x} = T
      OBVIOUS
    <3>2. SumFunctionOnSet(F, T \cup {x}) = F[x] + SumFunctionOnSet(F, (T \cup {x}) \ {x})
      BY <2>1, SumTakeOne
    <3>3. QED
      BY <3>1, <3>2
  <2>4. (Cardinality(T) + 1) * c = c + Cardinality(T) * c /\ Cardinality(T) * c \in Int
    <3>1. \A m \in Nat : (m + 1) * c = c + m * c /\ m * c \in Int
      OBVIOUS
    <3>2. QED
      BY <2>1, <3>1
  <2>5. SumFunctionOnSet(F, T) <= Cardinality(T) * c /\ F[x] <= c /\ F[x] \in Int
    BY <1>2
  <2>6. SumFunctionOnSet(F, T \cup {x}) <= (Cardinality(T) + 1) * c
    <3> HIDE DEF H
    <3> QED
      BY <2>2, <2>3, <2>4, <2>5
  <2>7. QED
    BY <2>1, <2>6
<1>3. S \in H
  <2> HIDE DEF H
  <2> QED
    BY <1>1, <1>2, FiniteInduction
<1>4. QED
  BY <1>3
=============================================================================
