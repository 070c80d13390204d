---------------------------- MODULE Sums_proofs ----------------------------
(***************************************************************************)
(* What SumOver computes, by induction over the size of the set.           *)
(***************************************************************************)
EXTENDS Sums, FiniteSetTheorems, WellFoundedInduction, TLAPS

Less == {ss \in Nat \X Nat : ss[1] < ss[2]}

\* The order of Nat, as a set of pairs, has no infinite descent.
LEMMA LessWellFounded == IsWellFoundedOn(Less, Nat)
  BY NatLessThanWellFounded DEF OpToRel, Less

\* Induction over Nat, for a set in place of a predicate.
LEMMA SetInduction ==
  ASSUME NEW P, 0 \in P, \A n \in Nat : n \in P => n + 1 \in P
  PROVE  Nat \subseteq P
<1> DEFINE T == Nat \ P
<1> SUFFICES ASSUME T # {} PROVE FALSE
  OBVIOUS
<1>1. T \subseteq Nat
  OBVIOUS
<1>2. PICK x \in T : \A y \in T : <<y, x>> \notin Less
  <2> HIDE DEF T
  <2> QED
    BY <1>1, LessWellFounded, WFMin
<1>3. x # 0 /\ x - 1 \in Nat /\ (x-1)+1 = x
  OBVIOUS
<1>4. x - 1 \notin P
  BY <1>3
<1>5. <<x - 1, x>> \in Less
  BY <1>3 DEF Less
<1> QED
  BY <1>2, <1>3, <1>4, <1>5

-----------------------------------------------------------------------------
Body(g, f, T) == IF T = {} THEN 0 ELSE f[Pick(T)] + g[T \ {Pick(T)}]
Solves(g, f, S) == g = [T \in SUBSET S |-> Body(g, f, T)]

\* SumOver is defined as the value of a solution of its recursion.
LEMMA SumIsSolution ==
  ASSUME NEW f, NEW S
  PROVE  SumOver(f, S) = (CHOOSE g : Solves(g, f, S))[S]
BY DEF SumOver, MapThenFoldSet, Solves, Body

\* Removing the picked element gives a smaller set.
LEMMA PickSmaller ==
  ASSUME NEW T, IsFiniteSet(T), T # {}
  PROVE  /\ Pick(T) \in T /\ IsFiniteSet(T \ {Pick(T)})
         /\ Cardinality(T) \in Nat /\ Cardinality(T) > 0
         /\ Cardinality(T \ {Pick(T)}) = Cardinality(T) - 1
<1>1. Pick(T) \in T
  BY DEF Pick
<1>2. Cardinality(T) \in Nat /\ Cardinality(T) # 0
  BY FS_CardinalityType, FS_EmptySet
<1> QED
  BY <1>1, <1>2, FS_RemoveElement

\* Only the empty set has no elements.
LEMMA EmptyWhenZero ==
  ASSUME NEW T, IsFiniteSet(T), Cardinality(T) <= 0
  PROVE  T = {}
<1>1. T # {} => Cardinality(T) \in Nat /\ Cardinality(T) > 0
  BY PickSmaller
<1> QED
  BY <1>1

\* The recursion has a solution.
LEMMA SolutionExists ==
  ASSUME NEW f, NEW S, IsFiniteSet(S)
  PROVE  \E g : Solves(g, f, S)
<1> DEFINE Upto(g, n) == \A T \in SUBSET S : Cardinality(T) <= n => g[T] = Body(g, f, T)
           P == {n \in Nat : \E g : Upto(g, n)}
<1>0. \A T \in SUBSET S : IsFiniteSet(T) /\ Cardinality(T) \in Nat /\ Cardinality(T) <= Cardinality(S)
  BY FS_Subset, FS_CardinalityType
<1>1. 0 \in P
  <2> DEFINE g == [T \in SUBSET S |-> 0]
  <2>1. Upto(g, 0)
    <3> SUFFICES ASSUME NEW T \in SUBSET S, Cardinality(T) <= 0 PROVE g[T] = Body(g, f, T)
      OBVIOUS
    <3>1. T = {}
      BY <1>0, EmptyWhenZero
    <3> QED
      BY <3>1 DEF Body
  <2> QED
    BY <2>1
<1>2. ASSUME NEW n \in Nat, n \in P PROVE n + 1 \in P
  <2>1. PICK g : Upto(g, n)
    BY <1>2
  <2> DEFINE h == [T \in SUBSET S |-> IF Cardinality(T) <= n THEN g[T] ELSE Body(g, f, T)]
  <2>2. ASSUME NEW T \in SUBSET S, Cardinality(T) <= n + 1 PROVE h[T] = Body(h, f, T)
    <3>1. h[T] = Body(g, f, T)
      BY <2>1
    <3>2. CASE T = {}
      BY <3>1, <3>2 DEF Body
    <3>3. CASE T # {}
      <4> DEFINE U == T \ {Pick(T)}
      <4>1. U \in SUBSET S /\ Cardinality(U) <= n
        BY <1>0, <2>2, <3>3, PickSmaller
      <4>2. h[U] = g[U]
        BY <4>1
      <4> HIDE DEF h
      <4> QED
        BY <3>1, <3>3, <4>2 DEF Body
    <3> QED
      BY <3>2, <3>3
  <2>3. Upto(h, n + 1)
    BY <2>2
  <2>4. \E k : Upto(k, n + 1)
    <3> HIDE DEF h, Upto
    <3> QED
      BY <2>3
  <2> QED
    BY <2>4
<1>3. Cardinality(S) \in P
  <2>1. Nat \subseteq P
    <3> HIDE DEF P
    <3> QED
      BY <1>1, <1>2, SetInduction
  <2> QED
    BY <2>1, <1>0
<1>4. PICK g : Upto(g, Cardinality(S))
  BY <1>3
<1> DEFINE h == [T \in SUBSET S |-> g[T]]
<1>5. ASSUME NEW T \in SUBSET S PROVE h[T] = Body(h, f, T)
  <2>1. h[T] = Body(g, f, T)
    BY <1>0, <1>4
  <2>2. T \ {Pick(T)} \in SUBSET S
    OBVIOUS
  <2>3. h[T \ {Pick(T)}] = g[T \ {Pick(T)}]
    BY <2>2
  <2> HIDE DEF h
  <2> QED
    BY <2>1, <2>3 DEF Body
<1>6. Solves(h, f, S)
  BY <1>5 DEF Solves
<1> QED
  BY <1>6

\* Solutions agree where their domains and summands do.
LEMMA SolutionsAgree ==
  ASSUME NEW f, NEW S, NEW g, Solves(g, f, S), NEW ff, NEW SS, NEW gg, Solves(gg, ff, SS),
         NEW D, D \subseteq S, D \subseteq SS, IsFiniteSet(D), \A x \in D : f[x] = ff[x]
  PROVE  g[D] = gg[D]
<1> DEFINE P == {n \in Nat : \A T \in SUBSET D : Cardinality(T) = n => g[T] = gg[T]}
<1>0. \A T \in SUBSET D : IsFiniteSet(T) /\ Cardinality(T) \in Nat
  BY FS_Subset, FS_CardinalityType
<1>a. \A T \in SUBSET D : g[T] = Body(g, f, T) /\ gg[T] = Body(gg, ff, T)
  BY DEF Solves
<1>1. 0 \in P
  <2> SUFFICES ASSUME NEW T \in SUBSET D, Cardinality(T) = 0 PROVE g[T] = gg[T]
    OBVIOUS
  <2>1. T = {}
    BY <1>0, EmptyWhenZero
  <2> QED
    BY <1>a, <2>1 DEF Body
<1>2. ASSUME NEW n \in Nat, n \in P PROVE n + 1 \in P
  <2> SUFFICES ASSUME NEW T \in SUBSET D, Cardinality(T) = n + 1 PROVE g[T] = gg[T]
    OBVIOUS
  <2>1. T # {}
    BY FS_EmptySet
  <2> DEFINE U == T \ {Pick(T)}
  <2>2. Pick(T) \in T /\ U \in SUBSET D /\ Cardinality(U) = n
    BY <1>0, <2>1, PickSmaller
  <2>3. g[U] = gg[U]
    BY <1>2, <2>2
  <2>4. f[Pick(T)] = ff[Pick(T)]
    BY <2>2
  <2>5. g[T] = f[Pick(T)] + g[U] /\ gg[T] = ff[Pick(T)] + gg[U]
    BY <1>a, <2>1 DEF Body
  <2> QED
    BY <2>3, <2>4, <2>5
<1>3. Nat \subseteq P
  <2> HIDE DEF P
  <2> QED
    BY <1>1, <1>2, SetInduction
<1>4. Cardinality(D) \in P
  BY <1>0, <1>3
<1> QED
  BY <1>4

-----------------------------------------------------------------------------
\* SumOver is the value of any solution.
LEMMA SumBySolution ==
  ASSUME NEW f, NEW S, IsFiniteSet(S), NEW g, NEW U, S \subseteq U, Solves(g, f, U)
  PROVE  SumOver(f, S) = g[S]
<1> DEFINE G == CHOOSE h : Solves(h, f, S)
<1>1. Solves(G, f, S)
  BY SolutionExists
<1>2. SumOver(f, S) = G[S]
  BY SumIsSolution
<1> HIDE DEF G
<1> QED
  BY <1>1, <1>2, SolutionsAgree

\* The empty sum.
LEMMA SumEmpty ==
  ASSUME NEW f
  PROVE  SumOver(f, {}) = 0
<1>1. IsFiniteSet({})
  BY FS_EmptySet
<1>2. PICK g : Solves(g, f, {})
  BY <1>1, SolutionExists
<1>3. SumOver(f, {}) = g[{}]
  BY <1>1, <1>2, SumBySolution
<1> QED
  BY <1>2, <1>3 DEF Solves, Body

\* Only the values on the set matter.
LEMMA SumSame ==
  ASSUME NEW f, NEW ff, NEW S, IsFiniteSet(S), \A x \in S : f[x] = ff[x]
  PROVE  SumOver(f, S) = SumOver(ff, S)
<1>1. PICK g : Solves(g, f, S)
  BY SolutionExists
<1>2. PICK gg : Solves(gg, ff, S)
  BY SolutionExists
<1>3. SumOver(f, S) = g[S] /\ SumOver(ff, S) = gg[S]
  BY <1>1, <1>2, SumBySolution
<1> QED
  BY <1>1, <1>2, <1>3, SolutionsAgree

\* One step of the recursion.
LEMMA SumPick ==
  ASSUME NEW f, NEW S, IsFiniteSet(S), S # {}
  PROVE  SumOver(f, S) = f[Pick(S)] + SumOver(f, S \ {Pick(S)})
<1>1. PICK g : Solves(g, f, S)
  BY SolutionExists
<1>2. IsFiniteSet(S \ {Pick(S)}) /\ S \ {Pick(S)} \subseteq S
  BY PickSmaller
<1>3. SumOver(f, S) = g[S] /\ SumOver(f, S \ {Pick(S)}) = g[S \ {Pick(S)}]
  BY <1>1, <1>2, SumBySolution
<1> QED
  BY <1>1, <1>3 DEF Solves, Body

\* A sum of integers is an integer.
LEMMA SumInt ==
  ASSUME NEW f, NEW S, IsFiniteSet(S), \A x \in S : f[x] \in Int
  PROVE  SumOver(f, S) \in Int
<1> DEFINE P == {n \in Nat : \A T \in SUBSET S : Cardinality(T) = n => SumOver(f, T) \in Int}
<1>0. \A T \in SUBSET S : IsFiniteSet(T) /\ Cardinality(T) \in Nat
  BY FS_Subset, FS_CardinalityType
<1>1. 0 \in P
  <2>1. \A T \in SUBSET S : Cardinality(T) = 0 => T = {}
    BY <1>0, EmptyWhenZero
  <2> QED
    BY <2>1, SumEmpty
<1>2. ASSUME NEW n \in Nat, n \in P PROVE n + 1 \in P
  <2> SUFFICES ASSUME NEW T \in SUBSET S, Cardinality(T) = n + 1 PROVE SumOver(f, T) \in Int
    OBVIOUS
  <2>1. T # {}
    BY FS_EmptySet
  <2> DEFINE U == T \ {Pick(T)}
  <2>2. Pick(T) \in T /\ U \in SUBSET S /\ Cardinality(U) = n
    BY <1>0, <2>1, PickSmaller
  <2>3. SumOver(f, U) \in Int /\ f[Pick(T)] \in Int
    BY <1>2, <2>2
  <2>4. SumOver(f, T) = f[Pick(T)] + SumOver(f, U)
    BY <1>0, <2>1, SumPick
  <2> QED
    BY <2>3, <2>4
<1>3. Nat \subseteq P
  <2> HIDE DEF P
  <2> QED
    BY <1>1, <1>2, SetInduction
<1>4. Cardinality(S) \in P
  BY <1>0, <1>3
<1> QED
  BY <1>4

\* Any element may be taken out first.
LEMMA SumRemove ==
  ASSUME NEW f, NEW S, IsFiniteSet(S), \A x \in S : f[x] \in Int, NEW y \in S
  PROVE  SumOver(f, S) = f[y] + SumOver(f, S \ {y})
<1> DEFINE P == {n \in Nat : \A T \in SUBSET S : Cardinality(T) = n =>
                    \A x \in T : SumOver(f, T) = f[x] + SumOver(f, T \ {x})}
<1>0. \A T \in SUBSET S : IsFiniteSet(T) /\ Cardinality(T) \in Nat
  BY FS_Subset, FS_CardinalityType
<1>1. 0 \in P
  <2>1. \A T \in SUBSET S : Cardinality(T) = 0 => T = {}
    BY <1>0, EmptyWhenZero
  <2> QED
    BY <2>1
<1>2. ASSUME NEW n \in Nat, n \in P PROVE n + 1 \in P
  <2> SUFFICES ASSUME NEW T \in SUBSET S, Cardinality(T) = n + 1, NEW x \in T
               PROVE  SumOver(f, T) = f[x] + SumOver(f, T \ {x})
    OBVIOUS
  <2> DEFINE p == Pick(T)
  <2>1. p \in T /\ SumOver(f, T) = f[p] + SumOver(f, T \ {p})
    BY <1>0, SumPick, PickSmaller
  <2>2. CASE x = p
    BY <2>1, <2>2
  <2>3. CASE x # p
    <3> HIDE DEF p
    <3> DEFINE U == (T \ {x}) \ {p}
    <3>1. /\ T \ {x} \in SUBSET S /\ Cardinality(T \ {x}) = n /\ p \in T \ {x}
          /\ T \ {p} \in SUBSET S /\ Cardinality(T \ {p}) = n /\ x \in T \ {p}
      <4>1. /\ IsFiniteSet(T) /\ x \in T /\ p \in T /\ Cardinality(T \ {x}) = Cardinality(T) - 1
            /\ Cardinality(T \ {p}) = Cardinality(T) - 1
        BY <1>0, <2>1, FS_RemoveElement
      <4> QED
        BY <2>3, <4>1
    <3>2. SumOver(f, T \ {x}) = f[p] + SumOver(f, U)
      BY <1>2, <3>1
    <3>3. SumOver(f, T \ {p}) = f[x] + SumOver(f, (T \ {p}) \ {x})
      BY <1>2, <3>1
    <3>4. SumOver(f, (T \ {p}) \ {x}) = SumOver(f, U)
      <4>1. (T \ {p}) \ {x} = U
        OBVIOUS
      <4> QED
        BY <4>1, Zenon
    <3>5. f[x] \in Int /\ f[p] \in Int /\ SumOver(f, U) \in Int
      BY <1>0, <2>1, SumInt
    <3> HIDE DEF U, P
    <3> QED
      BY <2>1, <3>2, <3>3, <3>4, <3>5
  <2> QED
    BY <2>2, <2>3
<1>3. Nat \subseteq P
  <2> HIDE DEF P
  <2> QED
    BY <1>1, <1>2, SetInduction
<1>4. Cardinality(S) \in P
  BY <1>0, <1>3
<1> QED
  BY <1>4

\* One more element.
LEMMA SumAdd ==
  ASSUME NEW f, NEW S, IsFiniteSet(S), NEW y, y \notin S, \A x \in S \cup {y} : f[x] \in Int
  PROVE  SumOver(f, S \cup {y}) = SumOver(f, S) + f[y]
<1>1. IsFiniteSet(S \cup {y}) /\ (S \cup {y}) \ {y} = S /\ y \in S \cup {y}
  BY FS_AddElement
<1>2. SumOver(f, S \cup {y}) = f[y] + SumOver(f, (S \cup {y}) \ {y})
  BY <1>1, SumRemove
<1>3. SumOver(f, S) \in Int /\ f[y] \in Int
  BY SumInt
<1>4. SumOver(f, (S \cup {y}) \ {y}) = SumOver(f, S)
  BY <1>1, Zenon
<1> QED
  BY <1>2, <1>3, <1>4

\* One value changes.
LEMMA SumChange ==
  ASSUME NEW f, NEW g, NEW S, IsFiniteSet(S), NEW y \in S,
         \A x \in S : f[x] \in Int /\ g[x] \in Int, \A x \in S \ {y} : g[x] = f[x]
  PROVE  SumOver(g, S) = SumOver(f, S) + (g[y] - f[y])
<1>1. IsFiniteSet(S \ {y})
  BY FS_RemoveElement
<1>2. SumOver(f, S) = f[y] + SumOver(f, S \ {y}) /\ SumOver(g, S) = g[y] + SumOver(g, S \ {y})
  BY SumRemove
<1>3. SumOver(f, S \ {y}) = SumOver(g, S \ {y}) /\ SumOver(f, S \ {y}) \in Int
  BY <1>1, SumSame, SumInt
<1> QED
  BY <1>2, <1>3

\* A sum of zeros.
LEMMA SumZero ==
  ASSUME NEW f, NEW S, IsFiniteSet(S), \A x \in S : f[x] = 0
  PROVE  SumOver(f, S) = 0
<1> DEFINE P == {n \in Nat : \A T \in SUBSET S : Cardinality(T) = n => SumOver(f, T) = 0}
<1>0. \A T \in SUBSET S : IsFiniteSet(T) /\ Cardinality(T) \in Nat
  BY FS_Subset, FS_CardinalityType
<1>1. 0 \in P
  <2>1. \A T \in SUBSET S : Cardinality(T) = 0 => T = {}
    BY <1>0, EmptyWhenZero
  <2> QED
    BY <2>1, SumEmpty
<1>2. ASSUME NEW n \in Nat, n \in P PROVE n + 1 \in P
  <2> SUFFICES ASSUME NEW T \in SUBSET S, Cardinality(T) = n + 1 PROVE SumOver(f, T) = 0
    OBVIOUS
  <2>1. T # {}
    BY FS_EmptySet
  <2> DEFINE U == T \ {Pick(T)}
  <2>2. Pick(T) \in T /\ U \in SUBSET S /\ Cardinality(U) = n
    BY <1>0, <2>1, PickSmaller
  <2>3. SumOver(f, U) = 0 /\ f[Pick(T)] = 0
    BY <1>2, <2>2
  <2>4. SumOver(f, T) = f[Pick(T)] + SumOver(f, U)
    BY <1>0, <2>1, SumPick
  <2> QED
    BY <2>3, <2>4
<1>3. Nat \subseteq P
  <2> HIDE DEF P
  <2> QED
    BY <1>1, <1>2, SetInduction
<1>4. Cardinality(S) \in P
  BY <1>0, <1>3
<1> QED
  BY <1>4

\* Adding d to the value at one key, new or old, adds d to the sum.
LEMMA SumAtKey ==
  ASSUME NEW f, NEW g, NEW D, IsFiniteSet(D), NEW key, NEW d \in Int,
         \A k \in D : f[k] \in Int, \A k \in D \ {key} : g[k] = f[k],
         g[key] = (IF key \in D THEN f[key] ELSE 0) + d
  PROVE  SumOver(g, D \cup {key}) = SumOver(f, D) + d
<1>1. SumOver(f, D) \in Int
  BY SumInt
<1>2. CASE key \in D
  <2>1. \A k \in D : f[k] \in Int /\ g[k] \in Int
    BY <1>2
  <2>2. SumOver(g, D) = SumOver(f, D) + (g[key] - f[key])
    BY <1>2, <2>1, SumChange
  <2>3. D \cup {key} = D /\ f[key] \in Int /\ g[key] = f[key] + d
    BY <1>2
  <2>4. SumOver(g, D \cup {key}) = SumOver(g, D)
    BY <2>3, Zenon
  <2> QED
    BY <1>1, <2>2, <2>3, <2>4
<1>3. CASE key \notin D
  <2>1. g[key] = d /\ \A k \in D : g[k] = f[k]
    BY <1>3
  <2>2. \A k \in D \cup {key} : g[k] \in Int
    BY <2>1
  <2>3. SumOver(g, D \cup {key}) = SumOver(g, D) + g[key]
    BY <1>3, <2>2, SumAdd
  <2>4. SumOver(f, D) = SumOver(g, D)
    BY <2>1, SumSame
  <2> QED
    BY <2>1, <2>3, <2>4
<1> QED
  BY <1>2, <1>3

\* Part of a set sums to no more than the whole, for values in Nat.
LEMMA SumPart ==
  ASSUME NEW f, NEW S, IsFiniteSet(S), \A x \in S : f[x] \in Nat, NEW R, R \subseteq S
  PROVE  SumOver(f, R) <= SumOver(f, S)
<1> DEFINE P == {n \in Nat : \A T \in SUBSET S : Cardinality(T) = n =>
                   SumOver(f, T \cap R) <= SumOver(f, T)}
<1>0. \A T \in SUBSET S : IsFiniteSet(T) /\ Cardinality(T) \in Nat
  BY FS_Subset, FS_CardinalityType
<1>b. \A T \in SUBSET S : T \cap R \in SUBSET S
  OBVIOUS
<1>a. \A T \in SUBSET S : SumOver(f, T) \in Int /\ SumOver(f, T \cap R) \in Int
  BY <1>0, <1>b, SumInt
<1>1. 0 \in P
  <2>1. \A T \in SUBSET S : Cardinality(T) = 0 => T = {}
    BY <1>0, EmptyWhenZero
  <2>2. \A T \in SUBSET S : T = {} => T \cap R = T
    OBVIOUS
  <2>3. ASSUME NEW T \in SUBSET S, Cardinality(T) = 0 PROVE SumOver(f, T \cap R) <= SumOver(f, T)
    <3>1. SumOver(f, T \cap R) = SumOver(f, T) /\ SumOver(f, T) \in Int
      BY <1>a, <2>1, <2>2, <2>3, Zenon
    <3> QED
      BY <3>1
  <2> QED
    BY <2>3
<1>2. ASSUME NEW n \in Nat, n \in P PROVE n + 1 \in P
  <2> SUFFICES ASSUME NEW T \in SUBSET S, Cardinality(T) = n + 1
               PROVE  SumOver(f, T \cap R) <= SumOver(f, T)
    OBVIOUS
  <2>1. T # {}
    BY FS_EmptySet
  <2>2. PICK x \in T : TRUE
    BY <2>1
  <2>3. PICK U : U = T \ {x}
    OBVIOUS
  <2>4. U \in SUBSET S /\ IsFiniteSet(U) /\ Cardinality(U) = n
    <3>1. IsFiniteSet(T) /\ x \in T
      BY <1>0
    <3>2. Cardinality(T \ {x}) = Cardinality(T) - 1 /\ U \in SUBSET S
      BY <2>3, <3>1, FS_RemoveElement
    <3> QED
      BY <1>0, <2>3, <3>2
  <2>5. SumOver(f, U \cap R) <= SumOver(f, U)
    BY <1>2, <2>4
  <2>6. SumOver(f, T) = f[x] + SumOver(f, U)
    <3>1. IsFiniteSet(T) /\ x \in T /\ \A y \in T : f[y] \in Int
      BY <1>0
    <3>2. SumOver(f, T) = f[x] + SumOver(f, T \ {x})
      BY <3>1, SumRemove
    <3> QED
      BY <2>3, <3>2
  <2>7. f[x] \in Nat /\ SumOver(f, U) \in Int /\ SumOver(f, U \cap R) \in Int
    BY <1>a, <2>4
  <2>8. CASE x \in R
    <3>1. PICK V : V = T \cap R
      OBVIOUS
    <3>2. IsFiniteSet(V) /\ x \in V /\ V \ {x} = U \cap R /\ \A y \in V : f[y] \in Int
      BY <1>0, <1>b, <2>3, <2>8, <3>1
    <3>3. SumOver(f, V) = f[x] + SumOver(f, V \ {x})
      BY <3>2, SumRemove
    <3> QED
      <4>1. SumOver(f, T \cap R) = f[x] + SumOver(f, U \cap R)
        BY <3>1, <3>2, <3>3, Zenon
      <4> QED
        BY <2>5, <2>6, <2>7, <4>1
  <2>9. CASE x \notin R
    <3>1. T \cap R = U \cap R
      BY <2>3, <2>9
    <3> QED
      BY <2>5, <2>6, <2>7, <3>1
  <2> QED
    BY <2>8, <2>9
<1>3. Nat \subseteq P
  <2> HIDE DEF P
  <2> QED
    BY <1>1, <1>2, SetInduction
<1>4. S \in SUBSET S /\ Cardinality(S) \in P /\ S \cap R = R
  BY <1>0, <1>3
<1> QED
  BY <1>4
=============================================================================
