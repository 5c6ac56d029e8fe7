------------------------------ MODULE SumProofs ------------------------------
(***************************************************************************)
(* What the community modules' SumFunctionOnSet adds up to.  The library's *)
(* induction theorems take an operator, which the provers cannot supply;   *)
(* that every non-empty set of naturals, or of subsets of a finite set,    *)
(* has a least member takes only sets, and serves the same purpose.        *)
(***************************************************************************)
EXTENDS Integers, Functions, FiniteSetTheorems, WellFoundedInduction, TLAPS

LEMMA LeastNatural ==
    ASSUME NEW S \in SUBSET Nat, S # {}
    PROVE  \E x \in S : \A y \in S : x <= y
<1>1. PICK x \in S : \A y \in S : ~(<<y, x>> \in OpToRel(<, Nat))
  BY WFMin, NatLessThanWellFounded, Zenon
<1>2. ASSUME NEW y \in S PROVE x <= y
  <2>1. ~(<<y, x>> \in {ss \in Nat \X Nat : ss[1] < ss[2]})
    BY <1>1 DEF OpToRel
  <2> QED
    BY <2>1
<1> QED
  BY <1>2

LEMMA SmallestSubset ==
    ASSUME NEW S, IsFiniteSet(S), NEW T \in SUBSET (SUBSET S), T # {}
    PROVE  \E x \in T : \A y \in T : y \subseteq x => y = x
<1>1. T \subseteq FiniteSubsetsOf(S)
  BY FS_Subset DEF FiniteSubsetsOf
<1>2. PICK x \in T : \A y \in T : ~(<<y, x>> \in StrictSubsetOrdering(S))
  BY <1>1, WFMin, FS_StrictSubsetOrderingWellFounded, Zenon
<1> QED
  BY <1>2 DEF StrictSubsetOrdering

----------------------------------------------------------------------------
(* The recursive function behind the sum *)

Picked(s) == CHOOSE x \in s : TRUE

SumStep(f, g, s) == IF s = {} THEN 0 ELSE f[Picked(s)] + g[s \ {Picked(s)}]

Solves(f, S, g) == g = [s \in SUBSET S |-> SumStep(f, g, s)]

LEMMA PickedIn == ASSUME NEW s, s # {} PROVE Picked(s) \in s
  BY DEF Picked

LEMMA SumIsSolution ==
    ASSUME NEW f, NEW S, \E g : Solves(f, S, g)
    PROVE  \E g : Solves(f, S, g) /\ SumFunctionOnSet(f, S) = g[S]
<1>1. SumFunctionOnSet(f, S) = (CHOOSE g : Solves(f, S, g))[S]
  BY Zenon DEF SumFunctionOnSet, FoldFunctionOnSet, MapThenFoldSet, Solves, SumStep, Picked
<1> QED
  BY <1>1, Zenon

\* A function that is right for the subsets of at most n elements.
SolvesTo(f, S, g, n) ==
    \A s \in SUBSET S : Cardinality(s) <= n => g[s] = SumStep(f, g, s)

LEMMA SolutionExists ==
    ASSUME NEW f, NEW S, IsFiniteSet(S)
    PROVE  \E g : Solves(f, S, g)
<1> DEFINE Failing == {n \in Nat : ~\E g : SolvesTo(f, S, g, n)}
<1>1. ASSUME NEW s \in SUBSET S
      PROVE  /\ IsFiniteSet(s) /\ Cardinality(s) \in Nat
             /\ Cardinality(s) <= Cardinality(S)
             /\ Cardinality(s) = 0 => s = {}
             /\ s # {} => /\ s \ {Picked(s)} \in SUBSET S
                          /\ Cardinality(s \ {Picked(s)}) = Cardinality(s) - 1
  <2>1. IsFiniteSet(s) /\ Cardinality(s) <= Cardinality(S)
    BY FS_Subset
  <2>2. Cardinality(s) \in Nat /\ (Cardinality(s) = 0 => s = {})
    BY <2>1, FS_CardinalityType, FS_EmptySet
  <2>3. s # {} => Cardinality(s \ {Picked(s)}) = Cardinality(s) - 1
    BY <2>1, PickedIn, FS_RemoveElement
  <2> QED
    BY <2>1, <2>2, <2>3
<1>2. 0 \notin Failing
  <2> DEFINE g == [s \in SUBSET S |-> 0]
  <2>1. ASSUME NEW s \in SUBSET S, Cardinality(s) <= 0 PROVE g[s] = SumStep(f, g, s)
    <3>1. s = {}
      <4>1. Cardinality(s) \in Nat /\ (Cardinality(s) = 0 => s = {})
        BY <1>1, Zenon
      <4> QED
        BY <2>1, <4>1
    <3> QED
      BY <3>1 DEF SumStep
  <2>2. SolvesTo(f, S, g, 0)
    BY <2>1 DEF SolvesTo
  <2> QED
    BY <2>2
<1>3. ASSUME NEW n \in Nat, n \notin Failing PROVE n + 1 \notin Failing
  <2>1. PICK h : SolvesTo(f, S, h, n)
    BY <1>3
  <2> DEFINE g == [s \in SUBSET S |-> IF Cardinality(s) <= n THEN h[s] ELSE SumStep(f, h, s)]
  <2>2. ASSUME NEW s \in SUBSET S, Cardinality(s) <= n + 1 PROVE g[s] = SumStep(f, h, s)
    BY <2>1, <2>2 DEF SolvesTo
  <2>3. ASSUME NEW s \in SUBSET S, Cardinality(s) <= n + 1 PROVE SumStep(f, g, s) = SumStep(f, h, s)
    <3>1. CASE s = {}
      BY <3>1 DEF SumStep
    <3>2. CASE s # {}
      <4>1. g[s \ {Picked(s)}] = h[s \ {Picked(s)}]
        BY <1>1, <2>3, <3>2
      <4> QED
        BY <3>2, <4>1 DEF SumStep
    <3> QED
      BY <3>1, <3>2
  <2>4. SolvesTo(f, S, g, n + 1)
    BY <2>2, <2>3 DEF SolvesTo
  <2> QED
    BY <2>4
<1>4. Failing = {}
  <2> SUFFICES ASSUME Failing # {} PROVE FALSE
    OBVIOUS
  <2>1. PICK n \in Failing : \A k \in Failing : n <= k
    <3>1. Failing \in SUBSET Nat
      OBVIOUS
    <3> HIDE DEF Failing
    <3> QED
      BY <3>1, LeastNatural
  <2>2. n \in Nat /\ n # 0
    BY <1>2
  <2>3. n - 1 \in Nat /\ n - 1 \notin Failing /\ (n - 1) + 1 = n
    BY <2>1, <2>2
  <2> QED
    BY <1>3, <2>3, <2>1
<1>5. PICK h : SolvesTo(f, S, h, Cardinality(S))
  BY <1>1, <1>4
<1> DEFINE g == [s \in SUBSET S |-> h[s]]
<1>6. ASSUME NEW s \in SUBSET S PROVE g[s] = SumStep(f, g, s)
  <2>1. h[s] = SumStep(f, h, s)
    BY <1>1, <1>5 DEF SolvesTo
  <2>2. SumStep(f, g, s) = SumStep(f, h, s)
    BY <1>1 DEF SumStep
  <2> QED
    BY <2>1, <2>2
<1>7. g = [s \in SUBSET S |-> SumStep(f, g, s)]
  BY <1>6
<1> QED
  BY <1>7 DEF Solves

\* Two solutions agree where both are defined, and only what f is on the set matters.
LEMMA SolutionsAgree ==
    ASSUME NEW f, NEW h, NEW S, IsFiniteSet(S), NEW U, S \subseteq U,
           \A x \in S : f[x] = h[x],
           NEW g, NEW k, Solves(f, U, g), Solves(h, S, k)
    PROVE  g[S] = k[S]
<1> DEFINE Apart == {s \in SUBSET S : g[s] # k[s]}
<1> SUFFICES ASSUME Apart # {} PROVE FALSE
  OBVIOUS
<1>1. PICK s \in Apart : \A y \in Apart : y \subseteq s => y = s
  <2>1. Apart \in SUBSET (SUBSET S)
    OBVIOUS
  <2> HIDE DEF Apart
  <2> QED
    BY <2>1, SmallestSubset
<1>2. g[s] = SumStep(f, g, s) /\ k[s] = SumStep(h, k, s)
  BY DEF Solves
<1>3. s # {}
  BY <1>2 DEF SumStep
<1>4. Picked(s) \in s
  BY <1>3, PickedIn
<1>5. g[s \ {Picked(s)}] = k[s \ {Picked(s)}]
  BY <1>1, <1>4
<1> QED
  BY <1>2, <1>3, <1>4, <1>5 DEF SumStep

LEMMA SolutionsOfParts ==
    ASSUME NEW f, NEW S, NEW R, IsFiniteSet(R), R \subseteq S,
           NEW g, NEW k, Solves(f, S, g), Solves(f, R, k)
    PROVE  g[R] = k[R]
<1>1. \A x \in R : f[x] = f[x]
  OBVIOUS
<1> QED
  BY <1>1, SolutionsAgree, SMTT(30)

----------------------------------------------------------------------------
(* The facts about sums *)

LEMMA SumEquation ==
    ASSUME NEW f, NEW S, IsFiniteSet(S)
    PROVE  SumFunctionOnSet(f, S) =
             IF S = {} THEN 0 ELSE f[Picked(S)] + SumFunctionOnSet(f, S \ {Picked(S)})
<1>1. PICK g : Solves(f, S, g) /\ SumFunctionOnSet(f, S) = g[S]
  BY SolutionExists, SumIsSolution
<1>2. g[S] = SumStep(f, g, S)
  BY <1>1 DEF Solves
<1>3. CASE S = {}
  BY <1>1, <1>2, <1>3 DEF SumStep
<1>4. CASE S # {}
  <2> DEFINE R == S \ {Picked(S)}
  <2>1. IsFiniteSet(R)
    BY FS_RemoveElement
  <2>2. PICK k : Solves(f, R, k) /\ SumFunctionOnSet(f, R) = k[R]
    BY <2>1, SolutionExists, SumIsSolution
  <2>3. g[R] = k[R]
    BY <1>1, <2>1, <2>2, SolutionsOfParts
  <2> QED
    BY <1>1, <1>2, <1>4, <2>2, <2>3 DEF SumStep
<1> QED
  BY <1>3, <1>4

LEMMA SumSame ==
    ASSUME NEW f, NEW h, NEW S, IsFiniteSet(S), \A x \in S : f[x] = h[x]
    PROVE  SumFunctionOnSet(f, S) = SumFunctionOnSet(h, S)
<1>1. PICK g : Solves(f, S, g) /\ SumFunctionOnSet(f, S) = g[S]
  BY SolutionExists, SumIsSolution
<1>2. PICK k : Solves(h, S, k) /\ SumFunctionOnSet(h, S) = k[S]
  BY SolutionExists, SumIsSolution
<1> QED
  BY <1>1, <1>2, SolutionsAgree

LEMMA SumEmpty == ASSUME NEW f PROVE SumFunctionOnSet(f, {}) = 0
  BY SumEquation, FS_EmptySet

LEMMA SumInt ==
    ASSUME NEW f, NEW S, IsFiniteSet(S), \A x \in S : f[x] \in Int
    PROVE  SumFunctionOnSet(f, S) \in Int
<1> DEFINE Bad == {s \in SUBSET S : SumFunctionOnSet(f, s) \notin Int}
<1> SUFFICES ASSUME Bad # {} PROVE FALSE
  OBVIOUS
<1>1. PICK s \in Bad : \A y \in Bad : y \subseteq s => y = s
  <2>1. Bad \in SUBSET (SUBSET S)
    OBVIOUS
  <2> HIDE DEF Bad
  <2> QED
    BY <2>1, SmallestSubset
<1>2. IsFiniteSet(s)
  BY FS_Subset
<1>3. s # {}
  BY SumEmpty
<1>4. Picked(s) \in s
  BY <1>3, PickedIn
<1>5. SumFunctionOnSet(f, s \ {Picked(s)}) \in Int
  BY <1>1, <1>4
<1>6. SumFunctionOnSet(f, s) = f[Picked(s)] + SumFunctionOnSet(f, s \ {Picked(s)})
  BY <1>2, <1>3, SumEquation
<1> QED
  BY <1>4, <1>5, <1>6

LEMMA SumRemove ==
    ASSUME NEW f, NEW S, IsFiniteSet(S), \A x \in S : f[x] \in Int, NEW x \in S
    PROVE  SumFunctionOnSet(f, S) = f[x] + SumFunctionOnSet(f, S \ {x})
<1> DEFINE Bad == {s \in SUBSET S : \E y \in s :
                     SumFunctionOnSet(f, s) # f[y] + SumFunctionOnSet(f, s \ {y})}
<1> SUFFICES ASSUME Bad # {} PROVE FALSE
  OBVIOUS
<1>1. PICK s \in Bad : \A y \in Bad : y \subseteq s => y = s
  <2>1. Bad \in SUBSET (SUBSET S)
    OBVIOUS
  <2> HIDE DEF Bad
  <2> QED
    BY <2>1, SmallestSubset
<1>2. PICK y \in s : SumFunctionOnSet(f, s) # f[y] + SumFunctionOnSet(f, s \ {y})
  OBVIOUS
<1> DEFINE c == Picked(s)
           r == (s \ {c}) \ {y}
<1>3. c \in s
  BY <1>2, PickedIn
<1>4. IsFiniteSet(s) /\ IsFiniteSet(r)
  BY FS_Subset
<1>5. SumFunctionOnSet(f, s) = f[c] + SumFunctionOnSet(f, s \ {c})
  BY <1>2, <1>4, SumEquation
<1>6. c # y
  BY <1>2, <1>5
<1>7. SumFunctionOnSet(f, s \ {c}) = f[y] + SumFunctionOnSet(f, r)
  <2>1. s \ {c} \notin Bad
    BY <1>1, <1>3
  <2>2. y \in s \ {c} /\ s \ {c} \in SUBSET S
    BY <1>6
  <2> QED
    BY <2>1, <2>2
<1>8. SumFunctionOnSet(f, s \ {y}) = f[c] + SumFunctionOnSet(f, r)
  <2>1. s \ {y} \notin Bad
    BY <1>1
  <2>2. c \in s \ {y} /\ s \ {y} \in SUBSET S /\ (s \ {y}) \ {c} = r
    BY <1>3, <1>6
  <2> QED
    BY <2>1, <2>2
<1>9. f[c] \in Int /\ f[y] \in Int /\ SumFunctionOnSet(f, r) \in Int
  BY <1>3, <1>4, SumInt
<1> QED
  BY <1>2, <1>5, <1>7, <1>8, <1>9

LEMMA SumZero ==
    ASSUME NEW f, NEW S, IsFiniteSet(S), \A x \in S : f[x] = 0
    PROVE  SumFunctionOnSet(f, S) = 0
<1> DEFINE Bad == {s \in SUBSET S : SumFunctionOnSet(f, s) # 0}
<1> SUFFICES ASSUME Bad # {} PROVE FALSE
  OBVIOUS
<1>1. PICK s \in Bad : \A y \in Bad : y \subseteq s => y = s
  <2>1. Bad \in SUBSET (SUBSET S)
    OBVIOUS
  <2> HIDE DEF Bad
  <2> QED
    BY <2>1, SmallestSubset
<1>2. IsFiniteSet(s) /\ s # {}
  BY FS_Subset, SumEmpty
<1>3. Picked(s) \in s
  BY <1>2, PickedIn
<1>4. SumFunctionOnSet(f, s \ {Picked(s)}) = 0
  BY <1>1, <1>3
<1> QED
  BY <1>2, <1>3, <1>4, SumEquation

\* One more term.
LEMMA SumAdd ==
    ASSUME NEW f, NEW S, IsFiniteSet(S), \A x \in S : f[x] \in Int,
           NEW y, y \notin S, f[y] \in Int
    PROVE  SumFunctionOnSet(f, S \cup {y}) = SumFunctionOnSet(f, S) + f[y]
<1>1. IsFiniteSet(S \cup {y}) /\ (S \cup {y}) \ {y} = S
  BY FS_AddElement
<1>2. SumFunctionOnSet(f, S \cup {y}) = f[y] + SumFunctionOnSet(f, S)
  BY <1>1, SumRemove
<1> QED
  BY <1>2, SumInt

\* One term changes.
LEMMA SumChange ==
    ASSUME NEW f, NEW h, NEW S, IsFiniteSet(S), NEW y \in S,
           \A x \in S : f[x] \in Int, h[y] \in Int, \A x \in S \ {y} : h[x] = f[x]
    PROVE  SumFunctionOnSet(h, S) = SumFunctionOnSet(f, S) - f[y] + h[y]
<1>1. IsFiniteSet(S \ {y})
  BY FS_RemoveElement
<1>2. SumFunctionOnSet(f, S \ {y}) = SumFunctionOnSet(h, S \ {y})
  BY <1>1, SumSame
<1>3. SumFunctionOnSet(f, S) = f[y] + SumFunctionOnSet(f, S \ {y})
  BY SumRemove
<1>4. SumFunctionOnSet(h, S) = h[y] + SumFunctionOnSet(h, S \ {y})
  BY SumRemove
<1>5. SumFunctionOnSet(f, S \ {y}) \in Int
  BY <1>1, SumInt
<1> QED
  BY <1>2, <1>3, <1>4, <1>5

\* Fewer terms that are not negative come to no more.
LEMMA SumSubset ==
    ASSUME NEW f, NEW S, IsFiniteSet(S), \A x \in S : f[x] \in Nat, NEW R \in SUBSET S
    PROVE  SumFunctionOnSet(f, R) <= SumFunctionOnSet(f, S)
<1> DEFINE Bad == {s \in SUBSET S : R \subseteq s /\ SumFunctionOnSet(f, s) < SumFunctionOnSet(f, R)}
<1>1. ASSUME NEW s \in SUBSET S
      PROVE  IsFiniteSet(s) /\ SumFunctionOnSet(f, s) \in Int
  BY FS_Subset, SumInt
<1> SUFFICES ASSUME Bad # {} PROVE FALSE
  BY <1>1
<1>2. PICK s \in Bad : \A y \in Bad : y \subseteq s => y = s
  <2>1. Bad \in SUBSET (SUBSET S)
    OBVIOUS
  <2> HIDE DEF Bad
  <2> QED
    BY <2>1, SmallestSubset
<1>3. PICK y \in s : y \notin R
  <2>1. s # R
    BY <1>1
  <2> QED
    BY <2>1
<1>4. SumFunctionOnSet(f, s) = f[y] + SumFunctionOnSet(f, s \ {y})
  BY <1>1, SumRemove
<1>5. SumFunctionOnSet(f, s \ {y}) >= SumFunctionOnSet(f, R)
  <2>1. s \ {y} \notin Bad
    BY <1>2
  <2>2. s \ {y} \in SUBSET S /\ R \subseteq s \ {y}
    BY <1>3
  <2> QED
    BY <1>1, <2>1, <2>2
<1> QED
  BY <1>1, <1>4, <1>5
=============================================================================
