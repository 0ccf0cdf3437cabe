----------------------------- MODULE SumTheorems -----------------------------
(***************************************************************************)
(* Induction over numbers and over finite sets, stated of sets instead of  *)
(* predicates, and what follows from it: what SumFunctionOnSet computes,   *)
(* which is the number of pairs <<x, i>> with i in 1 .. f[x], the laws of  *)
(* such sums, functions defined by a start and a step, and how a finite    *)
(* set of numbers is listed in order.                                      *)
(***************************************************************************)
EXTENDS Integers, FiniteSetTheorems, FiniteSetsExt, TLAPS

\* The numbers that are less are a well-founded relation.
LEMMA LessWellFounded == IsWellFoundedOn({ss \in Nat \X Nat : ss[1] < ss[2]}, Nat)
BY NatLessThanWellFounded DEF OpToRel

\* A set of natural numbers has a least element, and Min gives it.
LEMMA LeastNumber ==
  ASSUME NEW T, T \subseteq Nat, T # {}
  PROVE  Min(T) \in T /\ \A y \in T : Min(T) <= y
<1> DEFINE R == {ss \in Nat \X Nat : ss[1] < ss[2]}
<1>1. PICK x \in T : \A y \in T : <<y, x>> \notin R
  <2> HIDE DEF R
  <2>1. IsWellFoundedOn(R, Nat)
    BY LessWellFounded DEF R
  <2> QED
    BY <2>1, WFMin
<1>2. \A y \in T : x <= y
  <2> SUFFICES ASSUME NEW y \in T PROVE x <= y
    OBVIOUS
  <2>1. <<y, x>> \in Nat \X Nat /\ <<y, x>>[1] = y /\ <<y, x>>[2] = x
    OBVIOUS
  <2>2. ~(y < x)
    BY <1>1, <2>1
  <2> QED
    BY <2>2
<1> QED
  BY <1>1, <1>2 DEF Min

\* Induction over the natural numbers.
LEMMA NumbersByInduction ==
  ASSUME NEW Q, 0 \in Q, \A n \in Nat : n \in Q => n + 1 \in Q
  PROVE  Nat \subseteq Q
<1> SUFFICES ASSUME ~(Nat \subseteq Q) PROVE FALSE
  OBVIOUS
<1>1. Nat \ Q \subseteq Nat /\ Nat \ Q # {}
  OBVIOUS
<1>2. PICK x \in Nat \ Q : \A y \in Nat \ Q : x <= y
  BY <1>1, LeastNumber
<1>3. x # 0 /\ x - 1 \in Nat /\ x - 1 \in Q
  BY <1>2
<1> QED
  BY <1>2, <1>3

\* Induction over the subsets of a finite set.
LEMMA SetsByInduction ==
  ASSUME NEW S, IsFiniteSet(S), NEW Q, {} \in Q,
         \A T \in SUBSET S : \A x \in S \ T : T \in Q => T \union {x} \in Q
  PROVE  S \in Q
<1> DEFINE N == {n \in Nat : \A T \in SUBSET S : Cardinality(T) = n => T \in Q}
<1>1. 0 \in N
  <2>1. ASSUME NEW T \in SUBSET S, Cardinality(T) = 0 PROVE T = {}
    BY <2>1, FS_Subset, FS_EmptySet
  <2> QED
    BY <2>1
<1>2. ASSUME NEW n \in Nat, n \in N PROVE n + 1 \in N
  <2> SUFFICES ASSUME NEW T \in SUBSET S, Cardinality(T) = n + 1 PROVE T \in Q
    OBVIOUS
  <2>1. IsFiniteSet(T)
    BY FS_Subset
  <2>2. T # {}
    <3>1. Cardinality({}) = 0 /\ n + 1 # 0
      BY FS_EmptySet
    <3> QED
      BY <3>1
  <2>3. PICK x \in T : TRUE
    BY <2>2
  <2>4. Cardinality(T \ {x}) = n
    <3>1. Cardinality(T \ {x}) = Cardinality(T) - 1
      BY <2>1, <2>3, FS_RemoveElement
    <3> QED
      BY <3>1
  <2>5. T \ {x} \in SUBSET S /\ x \in S \ (T \ {x}) /\ (T \ {x}) \union {x} = T
    OBVIOUS
  <2>6. T \ {x} \in Q
    BY <1>2, <2>4, <2>5
  <2> QED
    BY <2>5, <2>6
<1> HIDE DEF N
<1>3. Nat \subseteq N
  BY <1>1, <1>2, NumbersByInduction
<1>4. Cardinality(S) \in Nat
  BY FS_CardinalityType
<1> QED
  BY <1>3, <1>4 DEF N

-----------------------------------------------------------------------------
\* f[x] things for each x.
Counted(f, S) == UNION {{x} \X (1 .. f[x]) : x \in S}

\* The things of one element.
LEMMA OneCounted ==
  ASSUME NEW x, NEW n \in Nat
  PROVE  IsFiniteSet({x} \X (1 .. n)) /\ Cardinality({x} \X (1 .. n)) = n
<1>1. IsFiniteSet(1 .. n) /\ Cardinality(1 .. n) = n
  BY FS_Interval
<1>2. IsFiniteSet({x}) /\ Cardinality({x}) = 1
  BY FS_Singleton
<1>3. /\ IsFiniteSet({x} \X (1 .. n))
      /\ Cardinality({x} \X (1 .. n)) = Cardinality({x}) * Cardinality(1 .. n)
  BY ONLY <1>1, <1>2, FS_Product
<1>4. 1 * n = n
  OBVIOUS
<1> QED
  BY <1>1, <1>2, <1>3, <1>4

\* They are finitely many.
LEMMA CountedFinite ==
  ASSUME NEW S, IsFiniteSet(S), NEW f, \A x \in S : f[x] \in Nat
  PROVE  IsFiniteSet(Counted(f, S))
<1> DEFINE T == {{x} \X (1 .. f[x]) : x \in S}
           g == [x \in S |-> {x} \X (1 .. f[x])]
<1>1. g \in Surjection(S, T)
  BY DEF Surjection
<1>2. IsFiniteSet(T)
  BY <1>1, FS_Surjection
<1>3. ASSUME NEW U \in T PROVE IsFiniteSet(U)
  <2>1. PICK x \in S : U = {x} \X (1 .. f[x])
    OBVIOUS
  <2>2. f[x] \in Nat
    OBVIOUS
  <2> QED
    BY <2>1, <2>2, OneCounted
<1>4. IsFiniteSet(UNION T)
  BY <1>2, <1>3, FS_UNION
<1> QED
  BY <1>4 DEF Counted

\* One element of the set taken out.
LEMMA CountedSplit ==
  ASSUME NEW S, IsFiniteSet(S), NEW f, \A x \in S : f[x] \in Nat, NEW y \in S
  PROVE  /\ Cardinality(Counted(f, S)) = f[y] + Cardinality(Counted(f, S \ {y}))
         /\ Cardinality(Counted(f, S \ {y})) \in Nat
<1> DEFINE A == Counted(f, S \ {y})
           B == {y} \X (1 .. f[y])
<1>1. IsFiniteSet(S \ {y})
  BY FS_RemoveElement
<1>2. IsFiniteSet(A)
  BY <1>1, CountedFinite
<1>a. Cardinality(A) \in Nat
  BY <1>2, FS_CardinalityType
<1>3. IsFiniteSet(B) /\ Cardinality(B) = f[y]
  BY OneCounted
<1>4. Counted(f, S) = A \union B
  BY DEF Counted
<1>5. A \cap B = {}
  BY DEF Counted
<1> HIDE DEF A, B
<1>6. Cardinality(A \union B) = Cardinality(A) + Cardinality(B) - Cardinality(A \cap B)
  BY <1>2, <1>3, FS_Union
<1>7. Cardinality(A \cap B) = 0
  BY <1>5, FS_EmptySet
<1>8. f[y] \in Nat
  OBVIOUS
<1>9. Cardinality(A \union B) = f[y] + Cardinality(A)
  BY <1>a, <1>3, <1>6, <1>7, <1>8
<1> QED
  BY <1>a, <1>4, <1>9 DEF A

-----------------------------------------------------------------------------
\* The fold, in whichever order it goes through the set, counts these things.
LEMMA SumIsCount ==
  ASSUME NEW S, IsFiniteSet(S), NEW f, \A x \in S : f[x] \in Nat
  PROVE  SumFunctionOnSet(f, S) = Cardinality(Counted(f, S))
<1> DEFINE Pick(s) == CHOOSE x \in s : TRUE
           Body(g, s) == IF s = {} THEN 0 ELSE f[Pick(s)] + g[s \ {Pick(s)}]
           Recurs(g) == g = [s \in SUBSET S |-> Body(g, s)]
           iter == CHOOSE g : Recurs(g)
           count == [s \in SUBSET S |-> Cardinality(Counted(f, s))]
<1>1. SumFunctionOnSet(f, S) = iter[S]
  BY Zenon DEF SumFunctionOnSet, FoldFunctionOnSet, MapThenFoldSet
<1>2. ASSUME NEW s \in SUBSET S, s # {}
      PROVE  /\ Pick(s) \in s /\ s \ {Pick(s)} \in SUBSET S /\ f[Pick(s)] \in Nat
             /\ Cardinality(Counted(f, s)) = f[Pick(s)] + Cardinality(Counted(f, s \ {Pick(s)}))
  <2>1. Pick(s) \in s
    BY <1>2
  <2>2. IsFiniteSet(s) /\ \A x \in s : f[x] \in Nat
    BY FS_Subset
  <2>3. f[Pick(s)] \in Nat /\ s \ {Pick(s)} \in SUBSET S
    BY <2>1
  <2> HIDE DEF Pick
  <2>4. Cardinality(Counted(f, s)) = f[Pick(s)] + Cardinality(Counted(f, s \ {Pick(s)}))
    BY <2>1, <2>2, CountedSplit
  <2> QED
    BY <2>1, <2>3, <2>4
<1>3. Cardinality(Counted(f, {})) = 0
  BY FS_EmptySet DEF Counted
<1>4. Recurs(count)
  <2> HIDE DEF Pick
  <2>1. ASSUME NEW s \in SUBSET S PROVE count[s] = Body(count, s)
    <3>1. CASE s = {}
      BY <3>1, <1>3
    <3>2. CASE s # {}
      BY <3>2, <1>2
    <3> QED
      BY <3>1, <3>2
  <2> QED
    BY <2>1
<1>5. Recurs(iter)
  <2> HIDE DEF Recurs, count
  <2> QED
    BY <1>4
<1> DEFINE Q == {s \in SUBSET S : iter[s] = count[s]}
<1>6. ASSUME NEW s \in SUBSET S, s # {}, iter[s \ {Pick(s)}] = count[s \ {Pick(s)}]
      PROVE  iter[s] = count[s]
  <2> HIDE DEF Pick, iter
  <2>1. iter[s] = f[Pick(s)] + iter[s \ {Pick(s)}]
    BY <1>5, <1>6
  <2> QED
    BY <1>2, <1>6, <2>1
<1>7. iter[{}] = count[{}]
  <2> HIDE DEF Pick, iter
  <2> QED
    BY <1>5, <1>3
<1> DEFINE N == {n \in Nat : \A s \in SUBSET S : Cardinality(s) = n => iter[s] = count[s]}
<1> HIDE DEF iter, count, Recurs
<1>8. 0 \in N
  <2>1. ASSUME NEW s \in SUBSET S, Cardinality(s) = 0 PROVE s = {}
    BY <2>1, FS_Subset, FS_EmptySet
  <2> QED
    BY <1>7, <2>1
<1>9. ASSUME NEW n \in Nat, n \in N PROVE n + 1 \in N
  <2> SUFFICES ASSUME NEW s \in SUBSET S, Cardinality(s) = n + 1 PROVE iter[s] = count[s]
    OBVIOUS
  <2>1. IsFiniteSet(s)
    BY FS_Subset
  <2>2. s # {}
    <3>1. Cardinality({}) = 0 /\ n + 1 # 0
      BY FS_EmptySet
    <3> QED
      BY <3>1
  <2>3. Pick(s) \in s /\ s \ {Pick(s)} \in SUBSET S
    BY <1>2, <2>2
  <2>4. Cardinality(s \ {Pick(s)}) = n
    <3> HIDE DEF Pick
    <3>1. Cardinality(s \ {Pick(s)}) = Cardinality(s) - 1
      BY <2>1, <2>3, FS_RemoveElement
    <3> QED
      BY <3>1
  <2>5. iter[s \ {Pick(s)}] = count[s \ {Pick(s)}]
    BY <1>9, <2>3, <2>4
  <2> QED
    BY <1>6, <2>2, <2>5
<1> HIDE DEF N
<1>10. Nat \subseteq N
  BY <1>8, <1>9, NumbersByInduction
<1>11. iter[S] = count[S]
  <2>1. Cardinality(S) \in N /\ S \in SUBSET S
    BY <1>10, FS_CardinalityType
  <2> QED
    BY <2>1 DEF N
<1>12. count[S] = Cardinality(Counted(f, S))
  BY DEF count
<1> QED
  BY <1>1, <1>11, <1>12
-----------------------------------------------------------------------------
(* The laws of sums of natural numbers. *)

\* A sum is a number.
LEMMA SumType ==
  ASSUME NEW S, IsFiniteSet(S), NEW f, \A x \in S : f[x] \in Nat
  PROVE  SumFunctionOnSet(f, S) \in Nat
BY SumIsCount, CountedFinite, FS_CardinalityType

\* It depends on the values in the set only.
LEMMA SumSame ==
  ASSUME NEW S, IsFiniteSet(S), NEW f, NEW g, \A x \in S : f[x] \in Nat /\ f[x] = g[x]
  PROVE  SumFunctionOnSet(f, S) = SumFunctionOnSet(g, S)
<1>1. Counted(f, S) = Counted(g, S)
  BY DEF Counted
<1>2. SumFunctionOnSet(f, S) = Cardinality(Counted(f, S))
  BY SumIsCount
<1>3. SumFunctionOnSet(g, S) = Cardinality(Counted(g, S))
  <2>1. \A x \in S : g[x] \in Nat
    OBVIOUS
  <2> QED
    BY <2>1, SumIsCount
<1> QED
  BY <1>1, <1>2, <1>3

\* A sum of zeros.
LEMMA SumOfNothing ==
  ASSUME NEW S, IsFiniteSet(S), NEW f, \A x \in S : f[x] = 0
  PROVE  SumFunctionOnSet(f, S) = 0
<1>1. Counted(f, S) = {}
  <2>1. 1 .. 0 = {}
    OBVIOUS
  <2> QED
    BY <2>1 DEF Counted
<1> QED
  BY <1>1, SumIsCount, FS_EmptySet

\* One element taken out.
LEMMA SumSplit ==
  ASSUME NEW S, IsFiniteSet(S), NEW f, \A x \in S : f[x] \in Nat, NEW y \in S
  PROVE  /\ SumFunctionOnSet(f, S) = f[y] + SumFunctionOnSet(f, S \ {y})
         /\ SumFunctionOnSet(f, S \ {y}) \in Nat
<1>1. IsFiniteSet(S \ {y})
  BY FS_RemoveElement
<1> QED
  BY <1>1, SumIsCount, SumType, CountedSplit

\* One element added.
LEMMA SumExtended ==
  ASSUME NEW S, IsFiniteSet(S), NEW y, y \notin S, NEW f,
         \A x \in S \union {y} : f[x] \in Nat
  PROVE  /\ SumFunctionOnSet(f, S \union {y}) = f[y] + SumFunctionOnSet(f, S)
         /\ SumFunctionOnSet(f, S) \in Nat
<1>1. IsFiniteSet(S \union {y}) /\ (S \union {y}) \ {y} = S /\ y \in S \union {y}
  BY FS_AddElement
<1> QED
  BY <1>1, SumSplit

\* The value of one element changes.
LEMMA SumChanged ==
  ASSUME NEW S, IsFiniteSet(S), NEW f, \A x \in S : f[x] \in Nat,
         NEW g, \A x \in S : g[x] \in Nat, NEW y \in S, \A x \in S : x # y => g[x] = f[x]
  PROVE  /\ SumFunctionOnSet(g, S) = SumFunctionOnSet(f, S) - f[y] + g[y]
         /\ SumFunctionOnSet(f, S) \in Nat /\ SumFunctionOnSet(g, S) \in Nat
<1>1. /\ SumFunctionOnSet(f, S) = f[y] + SumFunctionOnSet(f, S \ {y})
      /\ SumFunctionOnSet(f, S \ {y}) \in Nat
  BY SumSplit
<1>2. SumFunctionOnSet(g, S) = g[y] + SumFunctionOnSet(g, S \ {y})
  BY SumSplit
<1>3. SumFunctionOnSet(g, S \ {y}) = SumFunctionOnSet(f, S \ {y})
  <2>1. IsFiniteSet(S \ {y})
    BY FS_RemoveElement
  <2>2. \A x \in S \ {y} : g[x] \in Nat /\ g[x] = f[x]
    OBVIOUS
  <2> QED
    BY <2>1, <2>2, SumSame
<1>4. f[y] \in Nat /\ g[y] \in Nat
  OBVIOUS
<1> QED
  BY <1>1, <1>2, <1>3, <1>4

\* A larger set, whose other elements may count for nothing in the smaller one.
LEMMA SumMore ==
  ASSUME NEW S, NEW T, IsFiniteSet(S), IsFiniteSet(T), NEW f, \A x \in T : f[x] \in Nat,
         \A x \in S : x \in T \/ f[x] = 0
  PROVE  /\ SumFunctionOnSet(f, S) <= SumFunctionOnSet(f, T)
         /\ SumFunctionOnSet(f, S) \in Nat /\ SumFunctionOnSet(f, T) \in Nat
<1>1. Counted(f, S) \subseteq Counted(f, T)
  <2>1. 1 .. 0 = {}
    OBVIOUS
  <2> QED
    BY <2>1 DEF Counted
<1>2. IsFiniteSet(Counted(f, T))
  BY CountedFinite
<1>3. Cardinality(Counted(f, S)) <= Cardinality(Counted(f, T))
  BY <1>1, <1>2, FS_Subset
<1>4. \A x \in S : f[x] \in Nat
  OBVIOUS
<1>5. SumFunctionOnSet(f, S) = Cardinality(Counted(f, S)) /\ SumFunctionOnSet(f, S) \in Nat
  BY <1>4, SumIsCount, SumType
<1>6. SumFunctionOnSet(f, T) = Cardinality(Counted(f, T)) /\ SumFunctionOnSet(f, T) \in Nat
  BY SumIsCount, SumType
<1> QED
  BY <1>3, <1>5, <1>6

\* The elements that are left out count for nothing.
LEMMA SumOfSome ==
  ASSUME NEW S, NEW T, IsFiniteSet(S), IsFiniteSet(T), NEW f,
         \A x \in T : f[x] \in Nat, \A x \in S : f[x] \in Nat,
         \A x \in S : x \in T \/ f[x] = 0, \A x \in T : x \in S \/ f[x] = 0
  PROVE  SumFunctionOnSet(f, S) = SumFunctionOnSet(f, T)
<1>1. SumFunctionOnSet(f, S) <= SumFunctionOnSet(f, T)
  BY SumMore
<1>2. SumFunctionOnSet(f, T) <= SumFunctionOnSet(f, S)
  BY SumMore
<1>3. SumFunctionOnSet(f, S) \in Nat /\ SumFunctionOnSet(f, T) \in Nat
  BY SumType
<1> QED
  BY <1>1, <1>2, <1>3

\* Two sets that have nothing in common.
LEMMA SumOfTwo ==
  ASSUME NEW S, NEW T, IsFiniteSet(S), IsFiniteSet(T), S \intersect T = {}, NEW f,
         \A x \in S \union T : f[x] \in Nat
  PROVE  /\ SumFunctionOnSet(f, S \union T) = SumFunctionOnSet(f, S) + SumFunctionOnSet(f, T)
         /\ SumFunctionOnSet(f, S) \in Nat /\ SumFunctionOnSet(f, T) \in Nat
<1>1. IsFiniteSet(S \union T)
  BY FS_Union
<1>2. Counted(f, S \union T) = Counted(f, S) \union Counted(f, T)
  BY DEF Counted
<1>3. Counted(f, S) \intersect Counted(f, T) = {}
  BY DEF Counted
<1>4. (\A x \in S : f[x] \in Nat) /\ (\A x \in T : f[x] \in Nat)
  OBVIOUS
<1>5. IsFiniteSet(Counted(f, S)) /\ IsFiniteSet(Counted(f, T))
  BY <1>4, CountedFinite
<1>6. Cardinality(Counted(f, S) \union Counted(f, T))
        = Cardinality(Counted(f, S)) + Cardinality(Counted(f, T))
          - Cardinality(Counted(f, S) \intersect Counted(f, T))
  BY <1>5, FS_Union
<1>7. Cardinality(Counted(f, S) \intersect Counted(f, T)) = 0
  BY <1>3, FS_EmptySet
<1>8. /\ SumFunctionOnSet(f, S) = Cardinality(Counted(f, S))
      /\ SumFunctionOnSet(f, T) = Cardinality(Counted(f, T))
      /\ SumFunctionOnSet(f, S \union T) = Cardinality(Counted(f, S \union T))
  BY <1>1, <1>4, SumIsCount
<1>9. SumFunctionOnSet(f, S) \in Nat /\ SumFunctionOnSet(f, T) \in Nat
  BY <1>4, SumType
<1>10. PICK a, b \in Nat : a = SumFunctionOnSet(f, S) /\ b = SumFunctionOnSet(f, T)
  BY <1>9
<1>11. Cardinality(Counted(f, S) \union Counted(f, T)) = a + b - 0
  BY <1>6, <1>7, <1>8, <1>10
<1>12. SumFunctionOnSet(f, S \union T) = a + b
  <2>1. a + b - 0 = a + b
    OBVIOUS
  <2> QED
    BY ONLY <2>1, <1>2, <1>8, <1>11, Zenon
<1> QED
  BY <1>9, <1>10, <1>12

\* k is added to each of the elements in M.
LEMMA SumMarked ==
  ASSUME NEW S, IsFiniteSet(S), NEW f, \A x \in S : f[x] \in Nat, NEW k \in Nat,
         NEW M \in SUBSET S, NEW g, \A x \in S : g[x] = IF x \in M THEN f[x] + k ELSE f[x]
  PROVE  SumFunctionOnSet(g, S) = SumFunctionOnSet(f, S) + k * Cardinality(M)
<1> DEFINE Q == {T \in SUBSET S : SumFunctionOnSet(g, T)
                                    = SumFunctionOnSet(f, T) + k * Cardinality(M \intersect T)}
<1>1. {} \in Q
  <2>1. SumFunctionOnSet(g, {}) = 0 /\ SumFunctionOnSet(f, {}) = 0
    BY SumOfNothing, FS_EmptySet
  <2>2. Cardinality(M \intersect {}) = 0 /\ k * 0 = 0
    BY FS_EmptySet
  <2> QED
    BY <2>1, <2>2
<1>2. ASSUME NEW T \in SUBSET S, NEW x \in S \ T, T \in Q PROVE T \union {x} \in Q
  <2>1. IsFiniteSet(T)
    BY FS_Subset
  <2>2. /\ SumFunctionOnSet(f, T \union {x}) = f[x] + SumFunctionOnSet(f, T)
        /\ SumFunctionOnSet(f, T) \in Nat
    BY <2>1, SumExtended
  <2>a. \A y \in T \union {x} : g[y] \in Nat
    OBVIOUS
  <2>3. /\ SumFunctionOnSet(g, T \union {x}) = g[x] + SumFunctionOnSet(g, T)
        /\ SumFunctionOnSet(g, T) \in Nat
    BY <2>1, <2>a, SumExtended
  <2>4. IsFiniteSet(M \intersect T) /\ Cardinality(M \intersect T) \in Nat
    BY <2>1, FS_Intersection, FS_CardinalityType
  <2>5. SumFunctionOnSet(g, T) = SumFunctionOnSet(f, T) + k * Cardinality(M \intersect T)
    BY <1>2
  <2>6. CASE x \in M
    <3>1. M \intersect (T \union {x}) = (M \intersect T) \union {x}
      BY <2>6
    <3>2. Cardinality((M \intersect T) \union {x}) = Cardinality(M \intersect T) + 1
      BY <2>4, FS_AddElement
    <3>3. \A c \in Nat : k * (c + 1) = k * c + k /\ k * c \in Nat
      OBVIOUS
    <3>4. g[x] = f[x] + k /\ f[x] \in Nat
      BY <2>6
    <3>5. SumFunctionOnSet(g, T \union {x})
            = SumFunctionOnSet(f, T \union {x}) + k * Cardinality(M \intersect (T \union {x}))
      <4>1. PICK F, G, c, a \in Nat : /\ F = SumFunctionOnSet(f, T) /\ G = SumFunctionOnSet(g, T)
                                      /\ c = Cardinality(M \intersect T) /\ a = f[x]
        BY <2>2, <2>3, <2>4, <3>4
      <4>2. G = F + k * c /\ k * (c + 1) = k * c + k /\ k * c \in Nat
        BY <2>5, <3>3, <4>1
      <4>3. (a + k) + G = (a + F) + k * (c + 1)
        BY ONLY <4>2, a \in Nat, k \in Nat, F \in Nat, G \in Nat
      <4> QED
        BY <2>2, <2>3, <3>1, <3>2, <3>4, <4>1, <4>3
    <3> QED
      BY <3>5
  <2>7. CASE x \notin M
    <3>1. M \intersect (T \union {x}) = M \intersect T
      BY <2>7
    <3>2. g[x] = f[x] /\ f[x] \in Nat
      BY <2>7
    <3>3. SumFunctionOnSet(g, T \union {x})
            = SumFunctionOnSet(f, T \union {x}) + k * Cardinality(M \intersect (T \union {x}))
      <4>1. PICK F, G, c, a \in Nat : /\ F = SumFunctionOnSet(f, T) /\ G = SumFunctionOnSet(g, T)
                                      /\ c = Cardinality(M \intersect T) /\ a = f[x]
        BY <2>2, <2>3, <2>4, <3>2
      <4>2. G = F + k * c /\ k * c \in Nat
        BY <2>5, <4>1
      <4>3. a + G = (a + F) + k * c
        BY ONLY <4>2, a \in Nat, F \in Nat, G \in Nat
      <4> QED
        BY <2>2, <2>3, <3>1, <3>2, <4>1, <4>3
    <3> QED
      BY <3>3
  <2> QED
    BY <2>6, <2>7
<1> HIDE DEF Q
<1>3. S \in Q
  BY <1>1, <1>2, SetsByInduction
<1>4. M \intersect S = M
  OBVIOUS
<1> QED
  BY <1>3, <1>4 DEF Q

\* Values between two multiples of what is counted.
LEMMA SumBetween ==
  ASSUME NEW S, IsFiniteSet(S), NEW f, \A x \in S : f[x] \in Nat,
         NEW low \in Nat, NEW high \in Nat, NEW g, \A x \in S : g[x] \in Nat,
         \A x \in S : low * f[x] <= g[x] /\ g[x] <= high * f[x]
  PROVE  /\ low * SumFunctionOnSet(f, S) <= SumFunctionOnSet(g, S)
         /\ SumFunctionOnSet(g, S) <= high * SumFunctionOnSet(f, S)
<1> DEFINE Q == {T \in SUBSET S : /\ low * SumFunctionOnSet(f, T) <= SumFunctionOnSet(g, T)
                                  /\ SumFunctionOnSet(g, T) <= high * SumFunctionOnSet(f, T)}
<1>1. {} \in Q
  <2>1. SumFunctionOnSet(g, {}) = 0 /\ SumFunctionOnSet(f, {}) = 0
    BY SumOfNothing, FS_EmptySet
  <2>2. low * 0 = 0 /\ high * 0 = 0
    OBVIOUS
  <2> QED
    BY <2>1, <2>2
<1>2. ASSUME NEW T \in SUBSET S, NEW x \in S \ T, T \in Q PROVE T \union {x} \in Q
  <2>1. IsFiniteSet(T)
    BY FS_Subset
  <2>2. /\ SumFunctionOnSet(f, T \union {x}) = f[x] + SumFunctionOnSet(f, T)
        /\ SumFunctionOnSet(f, T) \in Nat
    BY <2>1, SumExtended
  <2>3. /\ SumFunctionOnSet(g, T \union {x}) = g[x] + SumFunctionOnSet(g, T)
        /\ SumFunctionOnSet(g, T) \in Nat
    BY <2>1, SumExtended
  <2>4. /\ low * SumFunctionOnSet(f, T) <= SumFunctionOnSet(g, T)
        /\ SumFunctionOnSet(g, T) <= high * SumFunctionOnSet(f, T)
    BY <1>2
  <2>5. \A k, a, b \in Nat : k * (a + b) = k * a + k * b /\ k * a \in Nat /\ k * b \in Nat
    OBVIOUS
  <2>6. f[x] \in Nat /\ g[x] \in Nat /\ low * f[x] <= g[x] /\ g[x] <= high * f[x]
    OBVIOUS
  <2>7. /\ low * (f[x] + SumFunctionOnSet(f, T)) <= g[x] + SumFunctionOnSet(g, T)
        /\ g[x] + SumFunctionOnSet(g, T) <= high * (f[x] + SumFunctionOnSet(f, T))
    <3>1. PICK F, G, a, b \in Nat : /\ F = SumFunctionOnSet(f, T) /\ G = SumFunctionOnSet(g, T)
                                    /\ a = f[x] /\ b = g[x]
      BY <2>2, <2>3, <2>6
    <3>2. /\ low * (a + F) = low * a + low * F /\ low * a \in Nat /\ low * F \in Nat
          /\ high * (a + F) = high * a + high * F /\ high * a \in Nat /\ high * F \in Nat
      BY <2>5
    <3>3. low * F <= G /\ G <= high * F /\ low * a <= b /\ b <= high * a
      BY <2>4, <2>6, <3>1
    <3>4. low * (a + F) <= b + G /\ b + G <= high * (a + F)
      BY ONLY <3>2, <3>3, a \in Nat, b \in Nat, F \in Nat, G \in Nat
    <3> QED
      BY <3>1, <3>4
  <2> QED
    BY <2>2, <2>3, <2>7
<1> HIDE DEF Q
<1>3. S \in Q
  BY <1>1, <1>2, SetsByInduction
<1> QED
  BY <1>3 DEF Q

\* The sum of the sums of parts that have nothing in common.
LEMMA SumOfParts ==
  ASSUME NEW S, IsFiniteSet(S), NEW f, \A x \in S : f[x] \in Nat,
         NEW I, IsFiniteSet(I), NEW P, \A i \in I : P[i] \subseteq S,
         \A i, j \in I : i # j => P[i] \intersect P[j] = {},
         NEW b, \A i \in I : b[i] = SumFunctionOnSet(f, P[i]),
         NEW U, \A x : x \in U <=> \E i \in I : x \in P[i]
  PROVE  SumFunctionOnSet(b, I) = SumFunctionOnSet(f, U)
<1> DEFINE All(J) == UNION {P[i] : i \in J}
           Q == {J \in SUBSET I : SumFunctionOnSet(b, J) = SumFunctionOnSet(f, All(J))}
<1>1. {} \in Q
  <2>1. SumFunctionOnSet(b, {}) = 0 /\ SumFunctionOnSet(f, {}) = 0
    BY SumOfNothing, FS_EmptySet
  <2>2. All({}) = {}
    OBVIOUS
  <2> HIDE DEF All
  <2> QED
    BY <2>1, <2>2
<1>2. ASSUME NEW J \in SUBSET I, NEW i \in I \ J, J \in Q PROVE J \union {i} \in Q
  <2>1. IsFiniteSet(J)
    BY FS_Subset
  <2>2. ASSUME NEW j \in I PROVE IsFiniteSet(P[j]) /\ b[j] \in Nat
    <3>1. IsFiniteSet(P[j]) /\ \A x \in P[j] : f[x] \in Nat
      BY FS_Subset
    <3> QED
      BY <3>1, SumType
  <2>3. /\ SumFunctionOnSet(b, J \union {i}) = b[i] + SumFunctionOnSet(b, J)
        /\ SumFunctionOnSet(b, J) \in Nat
    BY <2>1, <2>2, SumExtended
  <2>4. All(J \union {i}) = All(J) \union P[i] /\ All(J) \intersect P[i] = {} /\ All(J) \subseteq S
    OBVIOUS
  <2>5. b[i] = SumFunctionOnSet(f, P[i]) /\ SumFunctionOnSet(b, J) = SumFunctionOnSet(f, All(J))
    BY <1>2
  <2> HIDE DEF All
  <2>6. SumFunctionOnSet(f, All(J) \union P[i]) = SumFunctionOnSet(f, All(J)) + SumFunctionOnSet(f, P[i])
    <3>1. IsFiniteSet(All(J)) /\ IsFiniteSet(P[i])
      BY <2>2, <2>4, FS_Subset
    <3>2. \A x \in All(J) \union P[i] : f[x] \in Nat
      BY <2>4
    <3> QED
      BY <2>4, <3>1, <3>2, SumOfTwo
  <2>7. SumFunctionOnSet(b, J \union {i}) = SumFunctionOnSet(f, All(J \union {i}))
    <3>1. PICK a, c \in Nat : a = b[i] /\ c = SumFunctionOnSet(b, J)
      BY <2>2, <2>3
    <3>2. SumFunctionOnSet(f, All(J) \union P[i]) = c + a
      BY <2>5, <2>6, <3>1
    <3>3. SumFunctionOnSet(b, J \union {i}) = a + c /\ a + c = c + a
      BY <2>3, <3>1
    <3> QED
      BY ONLY <2>4, <3>2, <3>3, Zenon
  <2> QED
    BY <2>7
<1> HIDE DEF Q
<1>3. I \in Q
  BY <1>1, <1>2, SetsByInduction
<1>4. All(I) = U
  OBVIOUS
<1> QED
  BY <1>3, <1>4 DEF Q

-----------------------------------------------------------------------------
\* A function of the numbers defined by a start and a step exists.
LEMMA Iterated ==
  ASSUME NEW S, NEW a, a \in S, NEW step, \A x \in S : step[x] \in S
  PROVE  \E f \in [Nat -> S] : f[0] = a /\ \A k \in Nat : f[k + 1] = step[f[k]]
<1> DEFINE Good(f, m) == f \in [Nat -> S] /\ f[0] = a /\ \A k \in Nat : k < m => f[k + 1] = step[f[k]]
           Q == {m \in Nat : \E f : Good(f, m)}
<1>1. 0 \in Q
  <2>1. Good([k \in Nat |-> a], 0)
    OBVIOUS
  <2> QED
    BY <2>1
<1>2. ASSUME NEW m \in Nat, m \in Q PROVE m + 1 \in Q
  <2>1. PICK f : Good(f, m)
    BY <1>2
  <2> DEFINE g == [k \in Nat |-> IF k = m + 1 THEN step[f[m]] ELSE f[k]]
  <2>2. g \in [Nat -> S]
    BY <2>1
  <2>3. g[0] = a
    BY <2>1
  <2>4. ASSUME NEW k \in Nat, k < m + 1 PROVE g[k + 1] = step[g[k]]
    <3>1. g[k] = f[k] /\ (k = m => g[k + 1] = step[f[m]])
      BY <2>4
    <3>2. k # m => k < m /\ g[k + 1] = f[k + 1]
      BY <2>4
    <3> HIDE DEF g
    <3> QED
      BY <2>1, <3>1, <3>2
  <2> HIDE DEF g
  <2> QED
    BY <2>2, <2>3, <2>4
<1>3. Nat \subseteq Q
  <2> HIDE DEF Q
  <2> QED
    BY <1>1, <1>2, NumbersByInduction
<1>4. ASSUME NEW m \in Nat, NEW f, NEW g, Good(f, m), Good(g, m)
      PROVE  \A k \in Nat : k <= m => f[k] = g[k]
  <2> DEFINE E == {k \in Nat : k <= m => f[k] = g[k]}
  <2>1. 0 \in E
    BY <1>4
  <2>2. ASSUME NEW k \in Nat, k \in E PROVE k + 1 \in E
    BY <1>4, <2>2
  <2>3. Nat \subseteq E
    <3> HIDE DEF E
    <3> QED
      BY <2>1, <2>2, NumbersByInduction
  <2> QED
    BY <2>3
<1> DEFINE Up(m) == CHOOSE f : Good(f, m)
           h == [m \in Nat |-> Up(m)[m]]
<1>5. \A m \in Nat : Good(Up(m), m)
  <2> HIDE DEF Good
  <2> QED
    BY <1>3
<1>6. h \in [Nat -> S]
  BY <1>5
<1>7. h[0] = a
  BY <1>5
<1>8. ASSUME NEW k \in Nat PROVE h[k + 1] = step[h[k]]
  <2>1. Good(Up(k + 1), k) /\ Up(k + 1)[k + 1] = step[Up(k + 1)[k]]
    <3>0. k + 1 \in Nat
      OBVIOUS
    <3>1. Good(Up(k + 1), k + 1)
      <4> HIDE DEF Good, Up
      <4> QED
        BY <1>5, <3>0
    <3> HIDE DEF Up
    <3> QED
      BY <3>1
  <2>2. Up(k + 1)[k] = Up(k)[k]
    <3> HIDE DEF Good, Up
    <3> QED
      BY <1>4, <1>5, <2>1
  <2>3. h[k + 1] = Up(k + 1)[k + 1] /\ h[k] = Up(k)[k]
    <3>1. k + 1 \in Nat
      OBVIOUS
    <3> HIDE DEF Up
    <3> QED
      BY <3>1
  <2> QED
    BY ONLY <2>1, <2>2, <2>3
<1> HIDE DEF h
<1> QED
  BY <1>6, <1>7, <1>8

-----------------------------------------------------------------------------
\* The greatest of a bounded set of numbers.
LEMMA GreatestNumber ==
  ASSUME NEW T, T \subseteq Nat, T # {}, NEW b \in Nat, \A y \in T : y <= b
  PROVE  Max(T) \in T /\ \A y \in T : y <= Max(T)
<1> DEFINE B == {k \in Nat : \A y \in T : y <= k}
           m == Min(B)
<1>1. B \subseteq Nat /\ b \in B
  OBVIOUS
<1>2. m \in B /\ \A k \in B : m <= k
  <2> HIDE DEF B
  <2> QED
    BY <1>1, LeastNumber
<1> HIDE DEF m
<1>3. m \in T
  <2> SUFFICES ASSUME m \notin T PROVE FALSE
    OBVIOUS
  <2>1. PICK y \in T : TRUE
    OBVIOUS
  <2>2. m \in Nat /\ \A z \in T : z \in Nat /\ z <= m /\ z # m
    BY <1>2
  <2>3. m - 1 \in B
    BY <2>1, <2>2
  <2> QED
    BY <1>2, <2>2, <2>3
<1>4. \A y \in T : m >= y
  BY <1>2, <1>3
<1>5. Max(T) \in T /\ \A y \in T : Max(T) >= y
  BY <1>3, <1>4 DEF Max
<1> QED
  BY <1>5

\* Where a number stands among the numbers of a finite set.
Below(S, v) == {j \in S : j < v}

\* A finite set of numbers is listed in order by how many are below.
LEMMA Ranked ==
  ASSUME NEW S, S \subseteq Nat, IsFiniteSet(S)
  PROVE  /\ \A v \in S : Cardinality(Below(S, v)) \in 0 .. Cardinality(S) - 1
         /\ \A v, w \in S : v < w => Cardinality(Below(S, v)) < Cardinality(Below(S, w))
         /\ \A k \in 0 .. Cardinality(S) - 1 : \E v \in S : Cardinality(Below(S, v)) = k
<1> DEFINE c == Cardinality(S)
           r == [v \in S |-> Cardinality(Below(S, v))]
<1>1. c \in Nat
  BY FS_CardinalityType
<1>2. ASSUME NEW T \in SUBSET S, NEW U \in SUBSET T, U # T
      PROVE  Cardinality(U) < Cardinality(T) /\ Cardinality(U) \in Nat /\ Cardinality(T) \in Nat
  <2>1. IsFiniteSet(T)
    BY FS_Subset
  <2>2. IsFiniteSet(U) /\ Cardinality(U) <= Cardinality(T) /\ Cardinality(U) # Cardinality(T)
    BY <1>2, <2>1, FS_Subset
  <2>3. Cardinality(U) \in Nat /\ Cardinality(T) \in Nat
    BY <2>1, <2>2, FS_CardinalityType
  <2> QED
    BY <2>2, <2>3
<1>3. ASSUME NEW v \in S PROVE r[v] \in 0 .. c - 1
  <2>1. Below(S, v) \in SUBSET S /\ Below(S, v) # S
    BY DEF Below
  <2>2. Cardinality(Below(S, v)) < c /\ Cardinality(Below(S, v)) \in Nat
    BY <2>1, <1>2
  <2> QED
    BY <2>2, <1>1
<1>4. ASSUME NEW v \in S, NEW w \in S, v < w PROVE r[v] < r[w]
  <2>1. Below(S, v) \subseteq Below(S, w) /\ v \in Below(S, w) /\ v \notin Below(S, v)
    <3>1. v \in Nat /\ w \in Nat /\ \A j \in S : j \in Nat
      OBVIOUS
    <3>2. \A j \in S : j < v => j < w
      BY <1>4, <3>1
    <3>3. ~(v < v)
      BY <3>1
    <3> QED
      BY <1>4, <3>2, <3>3 DEF Below
  <2>2. Below(S, w) \in SUBSET S
    BY DEF Below
  <2>3. Cardinality(Below(S, v)) < Cardinality(Below(S, w))
    <3> HIDE DEF c, r
    <3>1. Below(S, v) \in SUBSET Below(S, w) /\ Below(S, v) # Below(S, w)
      BY <2>1
    <3> QED
      BY <1>2, <2>2, <3>1
  <2> QED
    BY <2>3
<1> DEFINE R == {r[v] : v \in S}
<1>5. R \subseteq 0 .. c - 1
  BY <1>3
<1>6. Cardinality(R) = c
  <2>1. r \in [S -> R]
    OBVIOUS
  <2>2. \A v, w \in S : r[v] = r[w] => v = w
    <3> SUFFICES ASSUME NEW v \in S, NEW w \in S, r[v] = r[w] PROVE v = w
      OBVIOUS
    <3>1. r[v] \in Int /\ r[w] \in Int /\ v \in Nat /\ w \in Nat
      BY <1>3
    <3>2. ~(v < w) /\ ~(w < v)
      <4> HIDE DEF r
      <4> QED
        BY <1>4, <3>1
    <3> QED
      BY <3>1, <3>2
  <2>3. \A y \in R : \E v \in S : r[v] = y
    OBVIOUS
  <2> HIDE DEF r, R
  <2>4. r \in Bijection(S, R)
    BY <2>1, <2>2, <2>3 DEF Bijection, Injection, Surjection, IsInjective
  <2> QED
    BY <2>4, FS_Bijection DEF ExistsBijection
<1>7. R = 0 .. c - 1
  <2> HIDE DEF c, R
  <2>1. IsFiniteSet(0 .. c - 1) /\ Cardinality(0 .. c - 1) = c
    <3>1. Cardinality(0 .. c - 1) = (IF 0 > c - 1 THEN 0 ELSE (c - 1) - 0 + 1) /\ IsFiniteSet(0 .. c - 1)
      BY <1>1, FS_Interval
    <3> QED
      BY <1>1, <3>1
  <2>2. R \in SUBSET (0 .. c - 1)
    BY <1>5
  <2> QED
    BY <2>1, <2>2, <1>6, FS_Subset
<1> QED
  BY <1>3, <1>4, <1>7
=============================================================================
