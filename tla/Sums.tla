---------------------------------- MODULE Sums ----------------------------------
(***************************************************************************)
(* What the sums of the models are: SumFunctionOnSet of the community       *)
(* modules, a fold over a finite set in an order left to CHOOSE, does not   *)
(* depend on that order.                                                   *)
(*                                                                         *)
(* The fold is a recursive function on the subsets of the set.  That it     *)
(* exists, and what it computes, is shown by induction on the cardinality   *)
(* of the subsets, stated for sets of numbers since a theorem with a        *)
(* predicate as a parameter cannot be instantiated here.                   *)
(***************************************************************************)
EXTENDS FiniteSetsExt, FiniteSetTheorems, WellFoundedInduction, TLAPS

\* Induction over the naturals: what is outside T has no least element.
LEMMA Induction ==
  ASSUME NEW T, 0 \in T, \A n \in Nat : n \in T => n + 1 \in T
  PROVE  \A n \in Nat : n \in T
<1> SUFFICES ASSUME Nat \ T # {} PROVE FALSE
  OBVIOUS
<1>1. PICK n \in Nat \ T : \A m \in Nat \ T : ~ (<<m, n>> \in OpToRel(<, Nat))
  <2>1. Nat \ T \subseteq Nat
    OBVIOUS
  <2>2. QED
    BY <2>1, NatLessThanWellFounded, WFMin
<1>2. n # 0 /\ n - 1 \in Nat /\ n - 1 < n
  BY SMT
<1>3. n - 1 \in T
  <2>1. <<n - 1, n>> \in OpToRel(<, Nat)
    BY <1>2 DEF OpToRel
  <2>2. QED
    BY <1>1, <1>2, <2>1
<1>4. n - 1 + 1 = n
  BY SMT
<1>5. QED
  BY <1>2, <1>3, <1>4

\* The recursion of the fold.
Chosen(s) == CHOOSE x \in s : TRUE
Totals(f, S) == CHOOSE g : g = [s \in SUBSET S |-> IF s = {} THEN 0 ELSE f[Chosen(s)] + g[s \ {Chosen(s)}]]

LEMMA SumIsTotal == \A f, S : SumFunctionOnSet(f, S) = Totals(f, S)[S]
BY DEF SumFunctionOnSet, FoldFunctionOnSet, MapThenFoldSet, Totals, Chosen
-----------------------------------------------------------------------------
\* The recursion is defined on a finite set.

Level(S, n) == {s \in SUBSET S : Cardinality(s) <= n}
TotalOf(f, g, s) == IF s = {} THEN 0 ELSE f[Chosen(s)] + g[s \ {Chosen(s)}]

LEMMA ChosenIsAnElement == ASSUME NEW s, s # {} PROVE Chosen(s) \in s
BY DEF Chosen

LEMMA Smaller ==
  ASSUME NEW S, IsFiniteSet(S), NEW n \in Nat, NEW s \in Level(S, n + 1), NEW x \in s
  PROVE  s \ {x} \in Level(S, n)
<1>1. s \in SUBSET S /\ Cardinality(s) <= n + 1 /\ IsFiniteSet(s)
  BY FS_Subset DEF Level
<1>2. Cardinality(s \ {x}) = Cardinality(s) - 1 /\ Cardinality(s) \in Nat
  BY <1>1, FS_RemoveElement, FS_CardinalityType
<1>3. QED
  BY <1>1, <1>2 DEF Level

LEMMA LevelZero ==
  ASSUME NEW S, IsFiniteSet(S), NEW s \in Level(S, 0) PROVE s = {}
<1>1. IsFiniteSet(s) /\ Cardinality(s) <= 0
  BY FS_Subset DEF Level
<1>2. Cardinality(s) \in Nat
  BY <1>1, FS_CardinalityType
<1>3. Cardinality(s) = 0
  BY <1>1, <1>2
<1>4. QED
  BY <1>1, <1>3, FS_EmptySet

\* The recursion of a total is well founded on a finite set.
LEMMA TotalsExist ==
  ASSUME NEW f, NEW S, IsFiniteSet(S)
  PROVE  \A s \in SUBSET S : Totals(f, S)[s] = TotalOf(f, Totals(f, S), s)
<1> DEFINE Good == {n \in Nat : \E g : g = [s \in Level(S, n) |-> TotalOf(f, g, s)]}
<1>1. 0 \in Good
  <2> DEFINE g == [s \in Level(S, 0) |-> 0]
  <2>1. \A s \in Level(S, 0) : TotalOf(f, g, s) = 0
    BY LevelZero DEF TotalOf
  <2>2. g = [s \in Level(S, 0) |-> TotalOf(f, g, s)]
    BY <2>1
  <2>3. QED
    BY <2>2
<1>2. ASSUME NEW n \in Nat, n \in Good PROVE n + 1 \in Good
  <2>1. PICK g : g = [s \in Level(S, n) |-> TotalOf(f, g, s)]
    BY <1>2
  <2> DEFINE h == [s \in Level(S, n + 1) |-> TotalOf(f, g, s)]
  <2>2. Level(S, n) \subseteq Level(S, n + 1)
    <3> SUFFICES ASSUME NEW s \in Level(S, n) PROVE s \in Level(S, n + 1)
      OBVIOUS
    <3>1. s \in SUBSET S /\ Cardinality(s) <= n /\ Cardinality(s) \in Nat
      BY FS_Subset, FS_CardinalityType DEF Level
    <3>2. QED
      BY <3>1 DEF Level
  <2>3. \A s \in Level(S, n) : h[s] = g[s]
    BY <2>1, <2>2
  <2>4. \A s \in Level(S, n + 1) : TotalOf(f, g, s) = TotalOf(f, h, s)
    <3> SUFFICES ASSUME NEW s \in Level(S, n + 1), s # {}
                 PROVE  g[s \ {Chosen(s)}] = h[s \ {Chosen(s)}]
      BY DEF TotalOf
    <3>1. s \ {Chosen(s)} \in Level(S, n)
      BY Smaller, ChosenIsAnElement
    <3>2. QED
      BY <3>1, <2>3
  <2>5. h = [s \in Level(S, n + 1) |-> TotalOf(f, h, s)]
    BY <2>4
  <2>6. \E k : k = [s \in Level(S, n + 1) |-> TotalOf(f, k, s)]
    <3> HIDE DEF h
    <3>1. QED
      BY <2>5
  <2>7. QED
    BY <2>6
<1>3. \A n \in Nat : n \in Good
  <2> HIDE DEF Good
  <2>1. QED
    BY <1>1, <1>2, Induction
<1>4. Cardinality(S) \in Nat /\ Level(S, Cardinality(S)) = SUBSET S
  BY FS_CardinalityType, FS_Subset DEF Level
<1>5. \E g : g = [s \in SUBSET S |-> TotalOf(f, g, s)]
  BY <1>3, <1>4
<1>6. PICK t : t = Totals(f, S)
  OBVIOUS
<1>7. t = [s \in SUBSET S |-> TotalOf(f, t, s)]
  BY <1>5, <1>6 DEF Totals, TotalOf
<1>8. \A s \in SUBSET S : t[s] = TotalOf(f, t, s)
  BY <1>7
<1>9. QED
  BY <1>6, <1>8

\* Totals over a part are the totals over the whole, restricted.
LEMMA TotalsAgree ==
  ASSUME NEW f, NEW S, IsFiniteSet(S), NEW T \in SUBSET S
  PROVE  \A s \in SUBSET T : Totals(f, T)[s] = Totals(f, S)[s]
<1> DEFINE Good == {n \in Nat : \A s \in Level(T, n) : Totals(f, T)[s] = Totals(f, S)[s]}
<1>1. IsFiniteSet(T)
  BY FS_Subset
<1>2. \A s \in SUBSET T : /\ Totals(f, T)[s] = TotalOf(f, Totals(f, T), s)
                           /\ Totals(f, S)[s] = TotalOf(f, Totals(f, S), s)
  BY <1>1, TotalsExist
<1>3. 0 \in Good
  BY <1>1, <1>2, LevelZero DEF TotalOf, Level
<1>4. ASSUME NEW n \in Nat, n \in Good PROVE n + 1 \in Good
  <2> SUFFICES ASSUME NEW s \in Level(T, n + 1), s # {}
               PROVE  Totals(f, T)[s] = Totals(f, S)[s]
    BY <1>2 DEF TotalOf, Level
  <2>1. s \ {Chosen(s)} \in Level(T, n)
    BY <1>1, Smaller, ChosenIsAnElement
  <2>2. Totals(f, T)[s \ {Chosen(s)}] = Totals(f, S)[s \ {Chosen(s)}]
    BY <1>4, <2>1
  <2>3. s \in SUBSET T
    BY DEF Level
  <2>4. QED
    BY <1>2, <2>2, <2>3 DEF TotalOf
<1>5. \A n \in Nat : n \in Good
  <2> HIDE DEF Good
  <2>1. QED
    BY <1>3, <1>4, Induction
<1>6. Cardinality(T) \in Nat /\ Level(T, Cardinality(T)) = SUBSET T
  BY <1>1, FS_CardinalityType, FS_Subset DEF Level
<1>7. QED
  BY <1>5, <1>6

\* What the definition computes: nothing for the empty set, and one element and
\* the sum of the others otherwise.
LEMMA SumUnfolds ==
  ASSUME NEW f, NEW S, IsFiniteSet(S)
  PROVE  SumFunctionOnSet(f, S) =
           IF S = {} THEN 0 ELSE f[Chosen(S)] + SumFunctionOnSet(f, S \ {Chosen(S)})
<1>1. Totals(f, S)[S] = TotalOf(f, Totals(f, S), S)
  BY TotalsExist
<1>2. CASE S = {}
  BY <1>1, <1>2, SumIsTotal DEF TotalOf
<1>3. CASE S # {}
  <2> DEFINE T == S \ {Chosen(S)}
  <2>1. Totals(f, T)[T] = Totals(f, S)[T]
    BY TotalsAgree
  <2>2. QED
    BY <1>1, <1>3, <2>1, SumIsTotal DEF TotalOf
<1>4. QED
  BY <1>2, <1>3

-----------------------------------------------------------------------------
(* The facts proofs use *)

\* The empty sum.
LEMMA SumOfNone == \A f : SumFunctionOnSet(f, {}) = 0
BY SumUnfolds, FS_EmptySet

\* A sum is a number, and any element may be taken out of it first.
LEMMA SumWithout ==
  ASSUME NEW f, NEW S, IsFiniteSet(S), \A x \in S : f[x] \in Int
  PROVE  /\ SumFunctionOnSet(f, S) \in Int
         /\ \A x \in S : SumFunctionOnSet(f, S) = SumFunctionOnSet(f, S \ {x}) + f[x]
<1> DEFINE Sum(T) == SumFunctionOnSet(f, T)
           Good == {n \in Nat : \A T \in Level(S, n) :
                      /\ Sum(T) \in Int
                      /\ \A x \in T : Sum(T) = Sum(T \ {x}) + f[x]}
<1>1. 0 \in Good
  <2>1. ASSUME NEW T \in Level(S, 0)
        PROVE  Sum(T) = 0 /\ T = {}
    BY LevelZero, SumOfNone
  <2>2. QED
    BY <2>1
<1>2. ASSUME NEW n \in Nat, n \in Good PROVE n + 1 \in Good
  <2> SUFFICES ASSUME NEW T \in Level(S, n + 1)
               PROVE  /\ Sum(T) \in Int
                      /\ \A x \in T : Sum(T) = Sum(T \ {x}) + f[x]
    OBVIOUS
  <2>1. CASE T = {}
    BY <2>1, SumOfNone
  <2>2. CASE T # {}
    <3> DEFINE c == Chosen(T)
    <3>1. c \in T /\ T \in SUBSET S /\ IsFiniteSet(T)
      BY <2>2, ChosenIsAnElement, FS_Subset DEF Level
    <3>2. Sum(T) = f[c] + Sum(T \ {c})
      BY <2>2, <3>1, SumUnfolds
    <3>3. \A x \in T : T \ {x} \in Level(S, n) /\ f[x] \in Int
      BY <3>1, Smaller
    <3>4. \A x \in T : /\ Sum(T \ {x}) \in Int
                       /\ \A y \in T \ {x} : Sum(T \ {x}) = Sum((T \ {x}) \ {y}) + f[y]
      BY <1>2, <3>3
    <3> HIDE DEF c, Sum
    <3>5. ASSUME NEW x \in T PROVE Sum(T) = Sum(T \ {x}) + f[x]
      <4>1. CASE x = c
        BY <3>1, <3>2, <3>3, <3>4, <4>1
      <4>2. CASE x # c
        <5>1. Sum(T \ {c}) = Sum((T \ {c}) \ {x}) + f[x]
          BY <3>1, <3>4, <4>2
        <5>2. Sum(T \ {x}) = Sum((T \ {x}) \ {c}) + f[c]
          BY <3>1, <3>4, <4>2
        <5>3. (T \ {c}) \ {x} = (T \ {x}) \ {c}
          OBVIOUS
        <5> DEFINE rest == Sum((T \ {x}) \ {c})
        <5>4. rest \in Int /\ f[x] \in Int /\ f[c] \in Int
          <6>1. (T \ {x}) \ {c} \in Level(S, n)
            <7>1. T \ {x} \in Level(S, n) /\ (T \ {x}) \ {c} \in SUBSET (T \ {x}) /\ IsFiniteSet(T \ {x})
              BY <3>1, <3>3, FS_RemoveElement
            <7>2. /\ Cardinality((T \ {x}) \ {c}) <= Cardinality(T \ {x})
                  /\ IsFiniteSet((T \ {x}) \ {c})
              BY <7>1, FS_Subset
            <7>3. Cardinality((T \ {x}) \ {c}) \in Nat /\ Cardinality(T \ {x}) \in Nat
              BY <7>1, <7>2, FS_CardinalityType
            <7>4. QED
              BY <7>1, <7>2, <7>3 DEF Level
          <6>2. QED
            BY <1>2, <3>1, <3>3, <6>1 DEF Sum
        <5> HIDE DEF rest
        <5>5. Sum(T \ {c}) = rest + f[x] /\ Sum(T \ {x}) = rest + f[c]
          BY <5>1, <5>2, <5>3 DEF rest
        <5>6. QED
          BY <3>2, <5>4, <5>5
      <4>3. QED
        BY <4>1, <4>2
    <3>6. Sum(T) \in Int
      BY <3>1, <3>2, <3>3, <3>4
    <3>7. QED
      BY <3>5, <3>6 DEF Sum
  <2>3. QED
    BY <2>1, <2>2
<1>3. \A n \in Nat : n \in Good
  <2> HIDE DEF Good
  <2>1. QED
    BY <1>1, <1>2, Induction
<1>4. Cardinality(S) \in Nat /\ S \in Level(S, Cardinality(S))
  BY FS_CardinalityType DEF Level
<1>5. QED
  BY <1>3, <1>4

\* One more element.
LEMMA SumWith ==
  ASSUME NEW f, NEW S, IsFiniteSet(S), NEW x, x \notin S,
         \A y \in S \cup {x} : f[y] \in Int
  PROVE  SumFunctionOnSet(f, S \cup {x}) = SumFunctionOnSet(f, S) + f[x]
<1>1. IsFiniteSet(S \cup {x}) /\ (S \cup {x}) \ {x} = S
  BY FS_AddElement
<1>2. QED
  BY <1>1, SumWithout

\* Functions that agree on the set have the same sum over it.
LEMMA SumOfSame ==
  ASSUME NEW f, NEW g, NEW S, IsFiniteSet(S), \A x \in S : f[x] = g[x]
  PROVE  SumFunctionOnSet(f, S) = SumFunctionOnSet(g, S)
<1> DEFINE Good == {n \in Nat : \A T \in Level(S, n) :
                      SumFunctionOnSet(f, T) = SumFunctionOnSet(g, T)}
<1>1. 0 \in Good
  <2>1. ASSUME NEW T \in Level(S, 0)
        PROVE  SumFunctionOnSet(f, T) = SumFunctionOnSet(g, T)
    BY LevelZero, SumOfNone
  <2>2. QED
    BY <2>1
<1>2. ASSUME NEW n \in Nat, n \in Good PROVE n + 1 \in Good
  <2> SUFFICES ASSUME NEW T \in Level(S, n + 1), T # {}
               PROVE  SumFunctionOnSet(f, T) = SumFunctionOnSet(g, T)
    BY SumOfNone
  <2> DEFINE c == Chosen(T)
  <2>1. c \in T /\ c \in S /\ IsFiniteSet(T)
    BY ChosenIsAnElement, FS_Subset DEF Level
  <2>2. SumFunctionOnSet(f, T \ {c}) = SumFunctionOnSet(g, T \ {c})
    BY <1>2, <2>1, Smaller
  <2>3. QED
    BY <2>1, <2>2, SumUnfolds
<1>3. \A n \in Nat : n \in Good
  <2> HIDE DEF Good
  <2>1. QED
    BY <1>1, <1>2, Induction
<1>4. Cardinality(S) \in Nat /\ S \in Level(S, Cardinality(S))
  BY FS_CardinalityType DEF Level
<1>5. QED
  BY <1>3, <1>4

\* A change of one term changes the sum by as much.
LEMMA SumChanged ==
  ASSUME NEW f, NEW g, NEW S, IsFiniteSet(S), NEW x \in S,
         \A y \in S : f[y] \in Int /\ g[y] \in Int,
         \A y \in S : y # x => g[y] = f[y]
  PROVE  SumFunctionOnSet(g, S) = SumFunctionOnSet(f, S) - f[x] + g[x]
<1> DEFINE T == S \ {x}
<1>1. IsFiniteSet(T) /\ \A y \in T : f[y] = g[y] /\ f[y] \in Int
  BY FS_RemoveElement
<1>2. SumFunctionOnSet(f, T) = SumFunctionOnSet(g, T) /\ SumFunctionOnSet(f, T) \in Int
  BY <1>1, SumOfSame, SumWithout
<1>3. /\ SumFunctionOnSet(f, S) = SumFunctionOnSet(f, T) + f[x]
      /\ SumFunctionOnSet(g, S) = SumFunctionOnSet(g, T) + g[x]
  BY SumWithout
<1>4. QED
  BY <1>2, <1>3

\* Terms that are naturals add up to a natural, no less than each of them.
LEMMA SumOfNaturals ==
  ASSUME NEW f, NEW S, IsFiniteSet(S), \A x \in S : f[x] \in Nat
  PROVE  /\ SumFunctionOnSet(f, S) \in Nat
         /\ \A x \in S : f[x] <= SumFunctionOnSet(f, S)
<1> DEFINE Good == {n \in Nat : \A T \in Level(S, n) : SumFunctionOnSet(f, T) \in Nat}
<1>1. 0 \in Good
  <2>1. ASSUME NEW T \in Level(S, 0) PROVE SumFunctionOnSet(f, T) = 0
    BY LevelZero, SumOfNone
  <2>2. QED
    BY <2>1
<1>2. ASSUME NEW n \in Nat, n \in Good PROVE n + 1 \in Good
  <2>1. ASSUME NEW T \in Level(S, n + 1) PROVE SumFunctionOnSet(f, T) \in Nat
    <3> DEFINE c == Chosen(T)
    <3>1. CASE T = {}
      BY <3>1, SumOfNone
    <3>2. CASE T # {}
      <4>1. c \in T /\ f[c] \in Nat /\ IsFiniteSet(T)
        BY <3>2, ChosenIsAnElement, FS_Subset DEF Level
      <4>2. SumFunctionOnSet(f, T \ {c}) \in Nat
        BY <1>2, <4>1, Smaller
      <4>3. QED
        BY <3>2, <4>1, <4>2, SumUnfolds
    <3>3. QED
      BY <3>1, <3>2
  <2>2. QED
    BY <2>1
<1>3. \A n \in Nat : n \in Good
  <2> HIDE DEF Good
  <2>1. QED
    BY <1>1, <1>2, Induction
<1>4. \A T \in SUBSET S : SumFunctionOnSet(f, T) \in Nat
  <2> TAKE T \in SUBSET S
  <2>1. T \in Level(S, Cardinality(T)) /\ Cardinality(T) \in Nat
    BY FS_CardinalityType, FS_Subset DEF Level
  <2>2. Cardinality(T) \in Good
    BY <1>3, <2>1
  <2>3. QED
    BY <2>1, <2>2
<1>5. ASSUME NEW x \in S PROVE f[x] <= SumFunctionOnSet(f, S)
  <2>1. SumFunctionOnSet(f, S) = SumFunctionOnSet(f, S \ {x}) + f[x]
    BY SumWithout
  <2>2. SumFunctionOnSet(f, S \ {x}) \in Nat /\ f[x] \in Nat
    BY <1>4
  <2>3. QED
    BY <2>1, <2>2
<1>6. QED
  BY <1>4, <1>5

\* Terms that are 0 add up to 0.
LEMMA SumOfZeros ==
  ASSUME NEW f, NEW S, IsFiniteSet(S), \A x \in S : f[x] = 0
  PROVE  SumFunctionOnSet(f, S) = 0
<1> DEFINE Good == {n \in Nat : \A T \in Level(S, n) : SumFunctionOnSet(f, T) = 0}
<1>1. 0 \in Good
  <2>1. ASSUME NEW T \in Level(S, 0) PROVE SumFunctionOnSet(f, T) = 0
    BY LevelZero, SumOfNone
  <2>2. QED
    BY <2>1
<1>2. ASSUME NEW n \in Nat, n \in Good PROVE n + 1 \in Good
  <2>1. ASSUME NEW T \in Level(S, n + 1) PROVE SumFunctionOnSet(f, T) = 0
    <3> DEFINE c == Chosen(T)
    <3>1. CASE T = {}
      BY <3>1, SumOfNone
    <3>2. CASE T # {}
      <4>1. c \in T /\ f[c] = 0 /\ IsFiniteSet(T)
        BY <3>2, ChosenIsAnElement, FS_Subset DEF Level
      <4>2. SumFunctionOnSet(f, T \ {c}) = 0
        BY <1>2, <4>1, Smaller
      <4>3. QED
        BY <3>2, <4>1, <4>2, SumUnfolds
    <3>3. QED
      BY <3>1, <3>2
  <2>2. QED
    BY <2>1
<1>3. \A n \in Nat : n \in Good
  <2> HIDE DEF Good
  <2>1. QED
    BY <1>1, <1>2, Induction
<1>4. S \in Level(S, Cardinality(S)) /\ Cardinality(S) \in Nat
  BY FS_CardinalityType DEF Level
<1>5. Cardinality(S) \in Good
  BY <1>3, <1>4
<1>6. QED
  BY <1>4, <1>5

\* The same of sums over the domain of a function.

LEMMA SumIsInteger ==
  ASSUME NEW f, IsFiniteSet(DOMAIN f), \A x \in DOMAIN f : f[x] \in Int
  PROVE  SumFunction(f) \in Int
BY SumWithout DEF SumFunction

\* One more term.
LEMMA SumExtended ==
  ASSUME NEW S, IsFiniteSet(S), NEW x, x \notin S,
         NEW f, DOMAIN f = S, NEW g, DOMAIN g = S \cup {x},
         \A y \in S : f[y] \in Int /\ g[y] = f[y], g[x] \in Int
  PROVE  SumFunction(g) = SumFunction(f) + g[x]
<1>1. SumFunctionOnSet(g, S \cup {x}) = SumFunctionOnSet(g, S) + g[x]
  BY SumWith
<1>2. SumFunctionOnSet(g, S) = SumFunctionOnSet(f, S)
  BY SumOfSame
<1>3. QED
  BY <1>1, <1>2 DEF SumFunction
=============================================================================
