------------------------------ MODULE SumLemmas ------------------------------
(***************************************************************************)
(* Sums over finite sets.  Money and goods are conserved "in total", and a *)
(* total is the fold SumFunctionOnSet of module Functions; this module     *)
(* proves what a step that changes one or two summands does to it.         *)
(*                                                                         *)
(* The induction principles are stated over a set T of instances instead   *)
(* of a predicate: a goal "P(s)" is "s \in {s \in ... : P(s)}".            *)
(***************************************************************************)
EXTENDS Integers, FiniteSets, Functions, FiniteSetTheorems, WellFoundedInduction, TLAPS

-----------------------------------------------------------------------------
(* Induction.                                                              *)

\* A set of naturals that is not empty has a least element.
LEMMA LeastNatural ==
  ASSUME NEW T \in SUBSET Nat, T # {}
  PROVE  \E m \in T : \A k \in T : m <= k
<1>1. \E m \in T : \A k \in T : ~ (k < m)
  <2>1. \E m \in T : \A k \in T : <<k, m>> \notin OpToRel(<, Nat)
    BY NatLessThanWellFounded, WFMin, Zenon
  <2>2. \A k, m \in T : k < m => <<k, m>> \in OpToRel(<, Nat)
    BY Zenon DEF OpToRel
  <2> QED BY <2>1, <2>2, Zenon
<1>2. \A k, m \in T : ~ (k < m) => m <= k
  OBVIOUS
<1> QED BY <1>1, <1>2

\* A set that holds 0 and with n also n + 1 holds every natural.
LEMMA NatSetInduction ==
  ASSUME NEW T, 0 \in T, \A n \in Nat : n \in T => n + 1 \in T
  PROVE  Nat \subseteq T
<1> SUFFICES ASSUME Nat \ T # {} PROVE FALSE
  OBVIOUS
<1>1. PICK m \in Nat \ T : \A k \in Nat \ T : m <= k
  <2> Nat \ T \in SUBSET Nat
    OBVIOUS
  <2> QED BY LeastNatural
<1>2. m # 0 /\ m - 1 \in Nat /\ m - 1 \in T
  BY <1>1
<1> QED BY <1>1, <1>2

\* A finite set is reached from the empty one by adding one element at a time.
LEMMA FiniteSetInduction ==
  ASSUME NEW S, IsFiniteSet(S), NEW T, {} \in T,
         \A s \in SUBSET S : \A x \in S \ s : s \in T => s \cup {x} \in T
  PROVE  S \in T
<1> DEFINE Reached == {n \in Nat : \A s \in SUBSET S : Cardinality(s) = n => s \in T}
<1>1. 0 \in Reached
  <2>1. \A s \in SUBSET S : Cardinality(s) = 0 => s = {}
    BY FS_EmptySet, FS_Subset
  <2> QED BY <2>1
<1>2. ASSUME NEW n \in Nat, n \in Reached PROVE n + 1 \in Reached
  <2>1. ASSUME NEW s \in SUBSET S, Cardinality(s) = n + 1 PROVE s \in T
    <3>1. IsFiniteSet(s) /\ s # {}
      BY <2>1, FS_Subset, FS_EmptySet
    <3>2. PICK x \in s : TRUE
      BY <3>1
    <3>3. Cardinality(s \ {x}) = n
      <4>1. Cardinality(s \ {x}) = Cardinality(s) - 1
        BY <3>1, <3>2, FS_RemoveElement
      <4> QED BY <4>1, <2>1
    <3>4. s \ {x} \in SUBSET S /\ x \in S \ (s \ {x}) /\ (s \ {x}) \cup {x} = s
      BY <3>2
    <3>5. s \ {x} \in T
      BY <3>3, <3>4, <1>2
    <3> QED BY <3>4, <3>5
  <2> QED BY <2>1
<1> HIDE DEF Reached
<1>3. Cardinality(S) \in Reached
  BY <1>1, <1>2, NatSetInduction, FS_CardinalityType
<1> QED BY <1>3 DEF Reached

\* What holds of a set when it holds of its proper subsets holds of every finite set.
LEMMA StrongSetInduction ==
  ASSUME NEW S, IsFiniteSet(S), NEW T,
         \A s \in SUBSET S : (\A r \in SUBSET s : r # s => r \in T) => s \in T
  PROVE  \A s \in SUBSET S : s \in T
<1> DEFINE Reached == {n \in Nat : \A s \in SUBSET S : Cardinality(s) <= n => s \in T}
<1>0. \A s \in SUBSET S : IsFiniteSet(s) /\ Cardinality(s) \in Nat
  BY FS_Subset, FS_CardinalityType
<1>a. ASSUME NEW s \in SUBSET S, NEW r \in SUBSET s, r # s
      PROVE  r \in SUBSET S /\ Cardinality(r) < Cardinality(s)
  <2>1. r \in SUBSET S
    OBVIOUS
  <2>2. Cardinality(r) <= Cardinality(s) /\ Cardinality(r) # Cardinality(s)
    BY <1>0, <1>a, FS_Subset
  <2> QED BY <1>0, <2>1, <2>2
<1>1. 0 \in Reached
  <2>1. ASSUME NEW s \in SUBSET S, Cardinality(s) <= 0 PROVE s \in T
    <3>1. \A r \in SUBSET s : r = s
      <4> SUFFICES ASSUME NEW r \in SUBSET s, r # s PROVE FALSE
        OBVIOUS
      <4>1. r \in SUBSET S /\ Cardinality(r) < Cardinality(s)
        BY <1>a
      <4> QED BY <1>0, <2>1, <4>1
    <3> QED BY <3>1
  <2> QED BY <2>1
<1>2. ASSUME NEW n \in Nat, n \in Reached PROVE n + 1 \in Reached
  <2>1. ASSUME NEW s \in SUBSET S, Cardinality(s) <= n + 1 PROVE s \in T
    <3>1. ASSUME NEW r \in SUBSET s, r # s PROVE r \in T
      <4>1. r \in SUBSET S /\ Cardinality(r) < Cardinality(s)
        BY <1>a, <3>1
      <4>2. Cardinality(r) <= n
        BY <1>0, <2>1, <4>1
      <4> QED BY <1>2, <4>1, <4>2
    <3> QED BY <3>1
  <2> QED BY <2>1
<1> HIDE DEF Reached
<1>3. Nat \subseteq Reached
  BY <1>1, <1>2, NatSetInduction
<1>4. ASSUME NEW s \in SUBSET S PROVE s \in T
  <2>1. Cardinality(s) \in Reached
    BY <1>0, <1>3
  <2> QED BY <1>0, <2>1 DEF Reached
<1> QED BY <1>4

-----------------------------------------------------------------------------
(* The fold is defined.                                                    *)

\* One unfolding of the fold: the chosen element, and the sum g of the others.
SumStep(f, g, s) ==
  IF s = {} THEN 0
  ELSE LET x == CHOOSE x \in s : TRUE IN f[x] + g[s \ {x}]

\* The equation of the fold has a solution on the subsets of a finite set.
LEMMA SumDefined ==
  ASSUME NEW f, NEW S, IsFiniteSet(S), \A x \in S : f[x] \in Int
  PROVE  \E g : g = [s \in SUBSET S |-> SumStep(f, g, s)]
<1> DEFINE Upto(g, n) == \A s \in SUBSET S : Cardinality(s) <= n => g[s] = SumStep(f, g, s)
           Reached == {n \in Nat : \E g \in [SUBSET S -> Int] : Upto(g, n)}
<1>1. 0 \in Reached
  <2> DEFINE g == [s \in SUBSET S |-> 0]
  <2>1. ASSUME NEW s \in SUBSET S, Cardinality(s) <= 0 PROVE s = {}
    BY <2>1, FS_Subset, FS_EmptySet, FS_CardinalityType
  <2>2. Upto(g, 0)
    BY <2>1 DEF SumStep
  <2>3. g \in [SUBSET S -> Int]
    OBVIOUS
  <2> HIDE DEF g
  <2> QED BY <2>2, <2>3
<1>2. ASSUME NEW n \in Nat, n \in Reached PROVE n + 1 \in Reached
  <2>1. PICK g \in [SUBSET S -> Int] : Upto(g, n)
    BY <1>2
  <2> DEFINE h == [s \in SUBSET S |-> IF Cardinality(s) <= n THEN g[s] ELSE SumStep(f, g, s)]
  <2>2. ASSUME NEW s \in SUBSET S, s # {} 
        PROVE  LET x == CHOOSE x \in s : TRUE
               IN /\ x \in S
                  /\ s \ {x} \in SUBSET S
                  /\ Cardinality(s \ {x}) = Cardinality(s) - 1
                  /\ Cardinality(s) \in Nat
    <3>1. (CHOOSE x \in s : TRUE) \in s
      BY <2>2
    <3>2. IsFiniteSet(s)
      BY FS_Subset
    <3> QED BY <3>1, <3>2, FS_RemoveElement, FS_CardinalityType
  <2>3. h \in [SUBSET S -> Int]
    <3> SUFFICES ASSUME NEW s \in SUBSET S PROVE SumStep(f, g, s) \in Int
      OBVIOUS
    <3>1. CASE s = {}
      BY <3>1 DEF SumStep
    <3>2. CASE s # {}
      BY <2>2, <3>2 DEF SumStep
    <3> QED BY <3>1, <3>2
  <2>4. ASSUME NEW s \in SUBSET S, Cardinality(s) <= n + 1 
        PROVE  h[s] = SumStep(f, h, s)
    <3>0. Cardinality(s) \in Nat
      BY FS_Subset, FS_CardinalityType
    <3>1. CASE s = {}
      <4>1. SumStep(f, h, s) = 0 /\ SumStep(f, g, s) = 0
        BY <3>1 DEF SumStep
      <4>2. Cardinality(s) = 0
        BY <3>1, FS_EmptySet
      <4>3. h[s] = g[s]
        BY <4>2
      <4>4. g[s] = SumStep(f, g, s)
        BY <2>1, <4>2
      <4> QED BY <4>1, <4>3, <4>4
    <3>2. CASE s # {}
      <4> DEFINE x == CHOOSE x \in s : TRUE
      <4>1. /\ x \in S 
            /\ s \ {x} \in SUBSET S
            /\ Cardinality(s \ {x}) = Cardinality(s) - 1
        BY <2>2, <3>2
      <4>2. h[s \ {x}] = g[s \ {x}]
        BY <4>1, <2>4, <3>0
      <4>3. SumStep(f, h, s) = SumStep(f, g, s)
        BY <4>2, <3>2 DEF SumStep
      <4>4. CASE Cardinality(s) <= n
        <5>1. h[s] = g[s]
          BY <4>4
        <5>2. g[s] = SumStep(f, g, s)
          BY <2>1, <4>4
        <5> QED BY <4>3, <5>1, <5>2
      <4>5. CASE ~(Cardinality(s) <= n)
        <5>1. h[s] = SumStep(f, g, s)
          BY <4>5
        <5> QED BY <4>3, <5>1
      <4> QED BY <4>4, <4>5
    <3> QED BY <3>1, <3>2
  <2>5. Upto(h, n + 1)
    BY <2>4
  <2> HIDE DEF h
  <2> QED BY <2>3, <2>5
<1> HIDE DEF Reached
<1>3. Cardinality(S) \in Reached
  BY <1>1, <1>2, NatSetInduction, FS_CardinalityType
<1>4. PICK g \in [SUBSET S -> Int] : Upto(g, Cardinality(S))
  BY <1>3 DEF Reached
<1>5. \A s \in SUBSET S : Cardinality(s) <= Cardinality(S)
  BY FS_Subset
<1>6. \A s \in SUBSET S : g[s] = SumStep(f, g, s)
  BY <1>4, <1>5
<1>7. g = [s \in SUBSET S |-> g[s]]
  OBVIOUS
<1>8. g = [s \in SUBSET S |-> SumStep(f, g, s)]
  BY <1>6, <1>7
<1> QED BY <1>8

\* The sum is the value of such a solution.
LEMMA SumUnfold ==
  ASSUME NEW f, NEW S
  PROVE  SumFunctionOnSet(f, S) = (CHOOSE g : g = [s \in SUBSET S |-> SumStep(f, g, s)])[S]
BY Zenon DEF SumFunctionOnSet, FoldFunctionOnSet, MapThenFoldSet, SumStep

\* g is a solution for f on the subsets of S.
IsSum(f, g, S) == \A s \in SUBSET S : g[s] = SumStep(f, g, s)

\* It has one solution only.
LEMMA SumUnique ==
  ASSUME NEW f, NEW S, IsFiniteSet(S), NEW g, NEW h, IsSum(f, g, S), IsSum(f, h, S)
  PROVE  \A s \in SUBSET S : g[s] = h[s]
<1> DEFINE T == {s \in SUBSET S : g[s] = h[s]}
<1>1. ASSUME NEW s \in SUBSET S, \A r \in SUBSET s : r # s => r \in T
      PROVE  s \in T
  <2>1. CASE s = {}
    BY <2>1 DEF IsSum, SumStep
  <2>2. CASE s # {}
    <3>1. (CHOOSE x \in s : TRUE) \in s
      BY <2>2
    <3>2. s \ {CHOOSE x \in s : TRUE} \in T
      BY <1>1, <3>1
    <3>3. SumStep(f, g, s) = SumStep(f, h, s)
      BY <3>2, <2>2 DEF SumStep
    <3> QED BY <3>3 DEF IsSum
  <2> QED BY <2>1, <2>2
<1>2. \A s \in SUBSET S : s \in T
  <2> HIDE DEF T
  <2> QED BY <1>1, StrongSetInduction
<1> QED BY <1>2

\* One solution gives the sums over all subsets.
LEMMA SumIs ==
  ASSUME NEW f, NEW S, IsFiniteSet(S), \A x \in S : f[x] \in Int
  PROVE  \E g : IsSum(f, g, S) /\ \A s \in SUBSET S : SumFunctionOnSet(f, s) = g[s]
<1> DEFINE G(s) == CHOOSE g : g = [r \in SUBSET s |-> SumStep(f, g, r)]
<1>1. ASSUME NEW s \in SUBSET S PROVE IsSum(f, G(s), s)
  <2>1. IsFiniteSet(s) /\ \A x \in s : f[x] \in Int
    BY FS_Subset
  <2>2. \E g : g = [r \in SUBSET s |-> SumStep(f, g, r)]
    BY <2>1, SumDefined
  <2>3. G(s) = [r \in SUBSET s |-> SumStep(f, G(s), r)]
    BY <2>2
  <2> QED BY <2>3 DEF IsSum
<1>2. ASSUME NEW s \in SUBSET S PROVE SumFunctionOnSet(f, s) = G(S)[s]
  <2>1. IsSum(f, G(S), s)
    BY <1>1 DEF IsSum
  <2>2. IsFiniteSet(s)
    BY FS_Subset
  <2>3. G(S)[s] = G(s)[s]
    <3> HIDE DEF G
    <3> QED BY <1>1, <2>1, <2>2, SumUnique
  <2> QED BY <2>3, SumUnfold
<1> HIDE DEF G
<1> QED BY <1>1, <1>2

-----------------------------------------------------------------------------
(* The laws of sums.                                                       *)

\* The empty sum.
LEMMA SumEmpty ==
  ASSUME NEW f
  PROVE  SumFunctionOnSet(f, {}) = 0
<1>1. PICK g : IsSum(f, g, {}) /\ \A s \in SUBSET {} : SumFunctionOnSet(f, s) = g[s]
  BY SumIs, FS_EmptySet
<1> QED BY <1>1 DEF IsSum, SumStep

\* The element the fold chooses can be taken out of a sum.
LEMMA SumChosen ==
  ASSUME NEW f, NEW S, IsFiniteSet(S), \A x \in S : f[x] \in Int, S # {}
  PROVE  LET x == CHOOSE x \in S : TRUE
         IN  SumFunctionOnSet(f, S) = f[x] + SumFunctionOnSet(f, S \ {x})
<1>1. PICK g : IsSum(f, g, S) /\ \A s \in SUBSET S : SumFunctionOnSet(f, s) = g[s]
  BY SumIs
<1>2. g[S] = SumStep(f, g, S)
  BY <1>1 DEF IsSum
<1> DEFINE x == CHOOSE x \in S : TRUE
<1>3. g[S] = f[x] + g[S \ {x}]
  BY <1>2 DEF SumStep
<1> QED BY <1>1, <1>3

\* The sum of integers is an integer.
LEMMA SumInt ==
  ASSUME NEW f, NEW S, IsFiniteSet(S), \A x \in S : f[x] \in Int
  PROVE  SumFunctionOnSet(f, S) \in Int
<1> DEFINE T == {s \in SUBSET S : SumFunctionOnSet(f, s) \in Int}
<1>1. ASSUME NEW s \in SUBSET S, \A r \in SUBSET s : r # s => r \in T
      PROVE  s \in T
  <2>1. CASE s = {}
    BY <2>1, SumEmpty
  <2>2. CASE s # {}
    <3> DEFINE x == CHOOSE x \in s : TRUE
    <3>1. x \in s /\ s \ {x} \in T
      BY <1>1, <2>2
    <3>2. IsFiniteSet(s) /\ \A y \in s : f[y] \in Int
      BY FS_Subset
    <3>3. SumFunctionOnSet(f, s) = f[x] + SumFunctionOnSet(f, s \ {x})
      BY <3>2, <2>2, SumChosen
    <3> QED BY <3>1, <3>2, <3>3
  <2> QED BY <2>1, <2>2
<1>2. S \in SUBSET S
  OBVIOUS
<1>3. S \in T
  <2> HIDE DEF T
  <2> QED BY <1>1, <1>2, StrongSetInduction
<1> QED BY <1>3

\* Any element can be taken out of a sum.
LEMMA SumElement ==
  ASSUME NEW f, NEW S, IsFiniteSet(S), \A x \in S : f[x] \in Int, NEW x \in S
  PROVE  SumFunctionOnSet(f, S) = f[x] + SumFunctionOnSet(f, S \ {x})
<1> DEFINE T == {s \in SUBSET S : \A y \in s :
                   SumFunctionOnSet(f, s) = f[y] + SumFunctionOnSet(f, s \ {y})}
<1>0. ASSUME NEW s \in SUBSET S
      PROVE  IsFiniteSet(s) /\ (\A y \in s : f[y] \in Int) /\ SumFunctionOnSet(f, s) \in Int
  BY FS_Subset, SumInt
<1>1. ASSUME NEW s \in SUBSET S, \A r \in SUBSET s : r # s => r \in T
      PROVE  s \in T
  <2> SUFFICES ASSUME NEW y \in s
               PROVE  SumFunctionOnSet(f, s) = f[y] + SumFunctionOnSet(f, s \ {y})
    OBVIOUS
  <2> DEFINE c == CHOOSE z \in s : TRUE
  <2>1. c \in s
    OBVIOUS
  <2>2. SumFunctionOnSet(f, s) = f[c] + SumFunctionOnSet(f, s \ {c})
    BY <1>0, SumChosen
  <2>3. CASE c = y
    BY <2>2, <2>3
  <2>4. CASE c # y
    <3> HIDE DEF c
    <3>1. s \ {c} \in T /\ s \ {y} \in T
      BY <1>1, <2>1
    <3>2. y \in s \ {c} /\ c \in s \ {y}
      BY <2>1, <2>4
    <3>3. SumFunctionOnSet(f, s \ {c}) = f[y] + SumFunctionOnSet(f, (s \ {c}) \ {y})
      BY <3>1, <3>2
    <3>4. SumFunctionOnSet(f, s \ {y}) = f[c] + SumFunctionOnSet(f, (s \ {y}) \ {c})
      BY <3>1, <3>2
    <3>5. (s \ {y}) \ {c} = (s \ {c}) \ {y} /\ (s \ {y}) \ {c} \in SUBSET S
      OBVIOUS
    <3>6. f[y] \in Int /\ f[c] \in Int /\ SumFunctionOnSet(f, (s \ {y}) \ {c}) \in Int
      BY <1>0, <2>1, <3>5
    <3> DEFINE R == SumFunctionOnSet(f, (s \ {y}) \ {c})
    <3>7. SumFunctionOnSet(f, s \ {c}) = f[y] + R
      BY <3>3, <3>5
    <3>8. SumFunctionOnSet(f, s) = f[c] + (f[y] + R)
      BY <2>2, <3>7
    <3>9. SumFunctionOnSet(f, s \ {y}) = f[c] + R
      BY <3>4
    <3>10. R \in Int /\ f[y] \in Int /\ f[c] \in Int
      BY <3>6
    <3> HIDE DEF T, R
    <3> QED BY <3>8, <3>9, <3>10
  <2> QED BY <2>3, <2>4
<1>2. S \in SUBSET S
  OBVIOUS
<1>3. S \in T
  <2> HIDE DEF T
  <2> QED BY <1>1, <1>2, StrongSetInduction
<1> QED BY <1>3

\* Functions that agree on a set have the same sum over it.
LEMMA SumSame ==
  ASSUME NEW f, NEW g, NEW S, IsFiniteSet(S),
         \A x \in S : f[x] \in Int /\ g[x] = f[x]
  PROVE  SumFunctionOnSet(g, S) = SumFunctionOnSet(f, S)
<1> DEFINE T == {s \in SUBSET S : SumFunctionOnSet(g, s) = SumFunctionOnSet(f, s)}
<1>1. {} \in T
  BY SumEmpty
<1>2. ASSUME NEW s \in SUBSET S, NEW x \in S \ s, s \in T
      PROVE  s \cup {x} \in T
  <2>1. /\ IsFiniteSet(s \cup {x})
        /\ (s \cup {x}) \ {x} = s
        /\ \A y \in s \cup {x} : f[y] \in Int /\ g[y] \in Int
        /\ x \in s \cup {x}
    BY FS_Subset
  <2>2. /\ SumFunctionOnSet(f, s \cup {x}) = f[x] + SumFunctionOnSet(f, s)
        /\ SumFunctionOnSet(g, s \cup {x}) = g[x] + SumFunctionOnSet(g, s)
    BY <2>1, SumElement
  <2> QED BY <1>2, <2>2
<1>3. S \in T
  <2> HIDE DEF T
  <2> QED BY <1>1, <1>2, FiniteSetInduction
<1> QED BY <1>3

\* A sum with one more element.
LEMMA SumAdd ==
  ASSUME NEW f, NEW S, IsFiniteSet(S), NEW x, x \notin S,
         \A y \in S \cup {x} : f[y] \in Int
  PROVE  SumFunctionOnSet(f, S \cup {x}) = f[x] + SumFunctionOnSet(f, S)
<1>1. IsFiniteSet(S \cup {x}) /\ x \in S \cup {x} /\ (S \cup {x}) \ {x} = S
  BY FS_AddElement
<1> QED BY <1>1, SumElement

\* What a change of one value does to a sum.
LEMMA SumChange ==
  ASSUME NEW f, NEW g, NEW S, IsFiniteSet(S), NEW x \in S,
         \A y \in S : f[y] \in Int /\ g[y] \in Int,
         \A y \in S : y # x => g[y] = f[y]
  PROVE  SumFunctionOnSet(g, S) = SumFunctionOnSet(f, S) + g[x] - f[x]
<1>1. IsFiniteSet(S \ {x})
  BY FS_RemoveElement
<1>2. SumFunctionOnSet(g, S \ {x}) = SumFunctionOnSet(f, S \ {x})
  BY <1>1, SumSame
<1>3. SumFunctionOnSet(f, S \ {x}) \in Int
  BY <1>1, SumInt
<1>4. /\ SumFunctionOnSet(f, S) = f[x] + SumFunctionOnSet(f, S \ {x})
      /\ SumFunctionOnSet(g, S) = g[x] + SumFunctionOnSet(g, S \ {x})
  BY SumElement
<1> QED BY <1>2, <1>3, <1>4

\* The sum of the pointwise sums of two functions.
LEMMA SumPlus ==
  ASSUME NEW f, NEW g, NEW h, NEW S, IsFiniteSet(S),
         \A y \in S : f[y] \in Int /\ g[y] \in Int /\ h[y] = f[y] + g[y]
  PROVE  SumFunctionOnSet(h, S) = SumFunctionOnSet(f, S) + SumFunctionOnSet(g, S)
<1> DEFINE T == {s \in SUBSET S : SumFunctionOnSet(h, s)
                                    = SumFunctionOnSet(f, s) + SumFunctionOnSet(g, s)}
<1>1. {} \in T
  BY SumEmpty
<1>2. ASSUME NEW s \in SUBSET S, NEW x \in S \ s, s \in T
      PROVE  s \cup {x} \in T
  <2>1. /\ IsFiniteSet(s)
        /\ \A y \in s \cup {x} : f[y] \in Int /\ g[y] \in Int /\ h[y] \in Int
        /\ x \notin s
    BY FS_Subset
  <2>2. /\ SumFunctionOnSet(f, s \cup {x}) = f[x] + SumFunctionOnSet(f, s)
        /\ SumFunctionOnSet(g, s \cup {x}) = g[x] + SumFunctionOnSet(g, s)
        /\ SumFunctionOnSet(h, s \cup {x}) = h[x] + SumFunctionOnSet(h, s)
    BY <2>1, SumAdd
  <2>3. SumFunctionOnSet(f, s) \in Int /\ SumFunctionOnSet(g, s) \in Int
    BY <2>1, SumInt
  <2> QED BY <1>2, <2>1, <2>2, <2>3
<1>3. S \in T
  <2> HIDE DEF T
  <2> QED BY <1>1, <1>2, FiniteSetInduction
<1> QED BY <1>3
\* What a change of two values does to a sum.
LEMMA SumChangeTwo ==
  ASSUME NEW f, NEW g, NEW S, IsFiniteSet(S), NEW x \in S, NEW y \in S, x # y,
         \A z \in S : f[z] \in Int /\ g[z] \in Int,
         \A z \in S : z # x /\ z # y => g[z] = f[z]
  PROVE  SumFunctionOnSet(g, S) = SumFunctionOnSet(f, S) + (g[x] - f[x]) + (g[y] - f[y])
<1> DEFINE h == [z \in S |-> IF z = x THEN g[x] ELSE f[z]]
<1>1. \A z \in S : h[z] \in Int
  OBVIOUS
<1>2. SumFunctionOnSet(h, S) = SumFunctionOnSet(f, S) + h[x] - f[x]
  <2>1. \A z \in S : z # x => h[z] = f[z]
    OBVIOUS
  <2> HIDE DEF h
  <2> QED BY <1>1, <2>1, SumChange
<1>3. SumFunctionOnSet(g, S) = SumFunctionOnSet(h, S) + g[y] - h[y]
  <2>1. \A z \in S : z # y => g[z] = h[z]
    OBVIOUS
  <2> HIDE DEF h
  <2> QED BY <1>1, <2>1, SumChange
<1>4. h[x] = g[x] /\ h[y] = f[y]
  OBVIOUS
<1> HIDE DEF h
<1>5. SumFunctionOnSet(f, S) \in Int
  BY SumInt
<1> QED BY <1>2, <1>3, <1>4, <1>5

\* A transfer between a summand of one sum and a summand of another keeps their total.
LEMMA SumTransfer ==
  ASSUME NEW f, NEW ff, NEW S, IsFiniteSet(S), NEW x \in S,
         NEW g, NEW gg, NEW T, IsFiniteSet(T), NEW y \in T,
         \A z \in S : f[z] \in Int /\ ff[z] \in Int /\ (z # x => ff[z] = f[z]),
         \A z \in T : g[z] \in Int /\ gg[z] \in Int /\ (z # y => gg[z] = g[z]),
         ff[x] + gg[y] = f[x] + g[y]
  PROVE  SumFunctionOnSet(ff, S) + SumFunctionOnSet(gg, T)
           = SumFunctionOnSet(f, S) + SumFunctionOnSet(g, T)
<1>1. SumFunctionOnSet(ff, S) = SumFunctionOnSet(f, S) + ff[x] - f[x]
  BY SumChange
<1>2. SumFunctionOnSet(gg, T) = SumFunctionOnSet(g, T) + gg[y] - g[y]
  BY SumChange
<1>3. SumFunctionOnSet(f, S) \in Int /\ SumFunctionOnSet(g, T) \in Int
  BY SumInt
<1> QED BY <1>1, <1>2, <1>3

\* The sum of equal summands is a product.
LEMMA SumConstant ==
  ASSUME NEW f, NEW S, IsFiniteSet(S), NEW c \in Int, \A x \in S : f[x] = c
  PROVE  SumFunctionOnSet(f, S) = c * Cardinality(S)
<1> DEFINE T == {s \in SUBSET S : SumFunctionOnSet(f, s) = c * Cardinality(s)}
<1>1. {} \in T
  <2>1. c * 0 = 0
    OBVIOUS
  <2> QED BY <2>1, SumEmpty, FS_EmptySet
<1>2. ASSUME NEW s \in SUBSET S, NEW x \in S \ s, s \in T
      PROVE  s \cup {x} \in T
  <2>1. IsFiniteSet(s) /\ x \notin s /\ \A y \in s \cup {x} : f[y] \in Int
    BY FS_Subset
  <2>2. SumFunctionOnSet(f, s \cup {x}) = c + SumFunctionOnSet(f, s)
    BY <2>1, SumAdd
  <2>3. Cardinality(s \cup {x}) = Cardinality(s) + 1 /\ Cardinality(s) \in Nat
    BY <2>1, FS_AddElement, FS_CardinalityType
  <2>4. \A n \in Nat : c * (n + 1) = c + c * n
    OBVIOUS
  <2> QED BY <1>2, <2>2, <2>3, <2>4
<1>3. S \in T
  <2> HIDE DEF T
  <2> QED BY <1>1, <1>2, FiniteSetInduction
<1> QED BY <1>3

\* A sum of one summand.
LEMMA SumOne ==
  ASSUME NEW f, NEW x, f[x] \in Int
  PROVE  SumFunctionOnSet(f, {x}) = f[x]
<1>1. \A y \in {} \cup {x} : f[y] \in Int
  OBVIOUS
<1>2. SumFunctionOnSet(f, {} \cup {x}) = f[x] + SumFunctionOnSet(f, {})
  BY <1>1, SumAdd, FS_EmptySet
<1>3. SumFunctionOnSet(f, {}) = 0 /\ {} \cup {x} = {x}
  BY SumEmpty
<1> QED BY <1>2, <1>3

\* What a summand does to a sum that is written, or added.
LEMMA SumWritten ==
  ASSUME NEW f, NEW g, NEW S, IsFiniteSet(S), NEW x, NEW n \in Int,
         \A y \in S : f[y] \in Int, \A y \in S : y # x => g[y] = f[y],
         x \in S => g[x] = f[x] + n, x \notin S => g[x] = n
  PROVE  SumFunctionOnSet(g, S \cup {x}) = SumFunctionOnSet(f, S) + n
<1>1. SumFunctionOnSet(f, S) \in Int
  BY SumInt
<1>2. CASE x \in S
  <2>1. S \cup {x} = S /\ \A y \in S : f[y] \in Int /\ g[y] \in Int
    BY <1>2
  <2>2. SumFunctionOnSet(g, S) = SumFunctionOnSet(f, S) + g[x] - f[x]
    BY <1>2, <2>1, SumChange
  <2>3. g[x] = f[x] + n /\ f[x] \in Int
    BY <1>2
  <2>4. SumFunctionOnSet(g, S) = SumFunctionOnSet(f, S) + n
    BY <1>1, <2>2, <2>3
  <2> QED BY <2>1, <2>4
<1>3. CASE x \notin S
  <2>1. \A y \in S : f[y] \in Int /\ g[y] = f[y]
    BY <1>3
  <2>2. \A y \in S \cup {x} : g[y] \in Int
    BY <1>3, <2>1
  <2>3. SumFunctionOnSet(g, S \cup {x}) = g[x] + SumFunctionOnSet(g, S)
    BY <1>3, <2>2, SumAdd
  <2>4. SumFunctionOnSet(g, S) = SumFunctionOnSet(f, S)
    BY <2>1, SumSame
  <2> QED BY <1>1, <1>3, <2>3, <2>4
<1> QED BY <1>2, <1>3
=============================================================================
