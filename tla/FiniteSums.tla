----------------------------- MODULE FiniteSums -----------------------------
(***************************************************************************)
(* Sums over finite sets, and induction in the form the provers can use.      *)
(*                                                                         *)
(* The library's induction theorems take an operator; its theorem that a      *)
(* well-founded relation has minimal elements (WFMin) takes a set instead.    *)
(* A property that fails somewhere fails at a least number, or on a smallest  *)
(* set, and holds below it.                                                  *)
(***************************************************************************)
EXTENDS Integers, FiniteSets, Functions, Folds, FiniteSetTheorems, WellFoundedInduction, TLAPS

(* A set of naturals has a least element. *)
LEMMA LeastNumber ==
  ASSUME NEW T \in SUBSET Nat, T # {}
  PROVE  \E n \in T : \A m \in T : n <= m
<1> DEFINE R == OpToRel(<, Nat)
<1>1. IsWellFoundedOn(R, Nat) BY NatLessThanWellFounded, Zenon
<1>2. \A m, n \in Nat : <<m, n>> \in R <=> m < n BY DEF OpToRel
<1> HIDE DEF R
<1>3. PICK n \in T : \A m \in T : <<m, n>> \notin R BY <1>1, WFMin, Zenon
<1>4. ASSUME NEW m \in T PROVE n <= m
  <2>1. m \in Nat /\ n \in Nat OBVIOUS
  <2>2. <<m, n>> \notin R BY <1>3
  <2>3. ~ (m < n) BY <1>2, <2>1, <2>2
  <2> QED BY <2>1, <2>3
<1> QED BY <1>4

(* A family of subsets of a finite set has a smallest member. *)
LEMMA SmallestSet ==
  ASSUME NEW S, IsFiniteSet(S), NEW F \in SUBSET (SUBSET S), F # {}
  PROVE  \E s \in F : \A t \in F : t \subseteq s => t = s
<1> DEFINE R == StrictSubsetOrdering(S)
<1>1. IsWellFoundedOn(R, SUBSET S)
  BY FS_StrictSubsetOrderingWellFounded, FS_FiniteSubsetsOfFinite, Zenon
<1>2. \A t, s \in SUBSET S : <<t, s>> \in R <=> t \subseteq s /\ t # s
  BY DEF StrictSubsetOrdering
<1> HIDE DEF R
<1>3. PICK s \in F : \A t \in F : <<t, s>> \notin R BY <1>1, WFMin, Zenon
<1> QED BY <1>2, <1>3

(* A finite set of numbers that is not empty has a greatest member. *)
LEMMA GreatestNumber ==
  ASSUME NEW S, IsFiniteSet(S), \A x \in S : x \in Int
  PROVE  S # {} => \E n \in S : \A m \in S : m <= n
<1> DEFINE Topped(s) == \E n \in s : \A m \in s : m <= n
           F == {s \in SUBSET S : s # {} /\ ~ Topped(s)}
<1> SUFFICES ASSUME F # {} PROVE FALSE OBVIOUS
<1>0. F \in SUBSET (SUBSET S) OBVIOUS
<1>1. PICK s \in F : \A t \in F : t \subseteq s => t = s
  <2> HIDE DEF F
  <2> QED BY <1>0, SmallestSet
<1>2. PICK x \in s : s \in SUBSET S OBVIOUS
<1>3. s \ {x} \notin F BY <1>1
<1>4. CASE s \ {x} = {}
  BY <1>2, <1>4
<1>5. CASE Topped(s \ {x})
  <2>1. PICK n \in s \ {x} : \A m \in s \ {x} : m <= n BY <1>5
  <2>2. CASE x <= n BY <2>1, <2>2
  <2>3. CASE ~ (x <= n) BY <2>1, <2>3
  <2> QED BY <2>2, <2>3
<1> QED BY <1>3, <1>4, <1>5

(* The image of a finite set is finite. *)
LEMMA FiniteImage ==
  ASSUME NEW S, IsFiniteSet(S), NEW f
  PROVE  IsFiniteSet({f[x] : x \in S})
<1> DEFINE T == {f[x] : x \in S}
           g == [x \in S |-> f[x]]
<1>1. g \in Surjection(S, T) BY DEF Surjection
<1> HIDE DEF T, g
<1>2. IsFiniteSet(T) BY <1>1, FS_Surjection
<1> QED BY <1>2 DEF T

-----------------------------------------------------------------------------
(* The recursion by which a sum is computed. *)
Pick(s) == CHOOSE x \in s : TRUE
Sums(f, g, S) == g = [s \in SUBSET S |-> IF s = {} THEN 0 ELSE f[Pick(s)] + g[s \ {Pick(s)}]]

LEMMA SumDef ==
  ASSUME NEW f, NEW S
  PROVE  SumFunctionOnSet(f, S) = (CHOOSE g : Sums(f, g, S))[S]
BY DEF SumFunctionOnSet, FoldFunctionOnSet, MapThenFoldSet, Sums, Pick

(* The recursion has a solution. *)
LEMMA SumsExist ==
  ASSUME NEW S, IsFiniteSet(S), NEW f, \A x \in S : f[x] \in Int
  PROVE  \E g : Sums(f, g, S) /\ g \in [SUBSET S -> Int]
<1> DEFINE Solved(n) ==
      LET D == {s \in SUBSET S : Cardinality(s) <= n}
      IN  \E g \in [D -> Int] :
            \A s \in D : g[s] = IF s = {} THEN 0 ELSE f[Pick(s)] + g[s \ {Pick(s)}]
           Bad == {n \in Nat : ~ Solved(n)}
<1>0. /\ \A s \in SUBSET S : IsFiniteSet(s) /\ Cardinality(s) \in Nat /\ Cardinality(s) <= Cardinality(S)
      /\ Cardinality(S) \in Nat
      /\ \A s \in SUBSET S : Cardinality(s) <= 0 => s = {}
  BY FS_Subset, FS_CardinalityType, FS_EmptySet
<1>1. \A s \in SUBSET S : s # {} => /\ Pick(s) \in s
                                    /\ s \ {Pick(s)} \in SUBSET S
                                    /\ Cardinality(s \ {Pick(s)}) = Cardinality(s) - 1
  BY <1>0, FS_RemoveElement DEF Pick
<1>2. Solved(0)
  <2> DEFINE D == {s \in SUBSET S : Cardinality(s) <= 0}
             g == [s \in D |-> 0]
  <2>1. g \in [D -> Int] OBVIOUS
  <2>2. \A s \in D : s = {} /\ g[s] = 0 BY <1>0
  <2> QED BY <2>1, <2>2
<1>3. ASSUME NEW n \in Nat, Solved(n) PROVE Solved(n + 1)
  <2> DEFINE D == {s \in SUBSET S : Cardinality(s) <= n}
             E == {s \in SUBSET S : Cardinality(s) <= n + 1}
  <2>1. PICK g \in [D -> Int] :
          \A s \in D : g[s] = IF s = {} THEN 0 ELSE f[Pick(s)] + g[s \ {Pick(s)}]
    BY <1>3
  <2> DEFINE h == [s \in E |-> IF s = {} THEN 0 ELSE f[Pick(s)] + g[s \ {Pick(s)}]]
  <2>2. \A s \in E : s # {} => s \ {Pick(s)} \in D BY <1>0, <1>1
  <2>3. h \in [E -> Int] BY <1>1, <2>1, <2>2
  <2>4. \A s \in D : s \in E /\ h[s] = g[s] BY <1>0, <2>1
  <2>5. \A s \in E : h[s] = IF s = {} THEN 0 ELSE f[Pick(s)] + h[s \ {Pick(s)}]
    BY <2>2, <2>4
  <2> QED BY <2>3, <2>5
<1> HIDE DEF Solved
<1>4. Bad = {}
  <2> SUFFICES ASSUME Bad # {} PROVE FALSE OBVIOUS
  <2>1. PICK n \in Bad : \A m \in Bad : n <= m BY LeastNumber
  <2>2. n \in Nat \ {0} BY <1>2, <2>1
  <2>3. n - 1 \in Nat /\ n - 1 \notin Bad BY <2>1, <2>2
  <2>4. Solved(n - 1) BY <2>3
  <2>5. Solved((n - 1) + 1) BY <1>3, <2>3, <2>4
  <2>6. (n - 1) + 1 = n BY <2>2
  <2> QED BY <2>1, <2>5, <2>6
<1>5. Solved(Cardinality(S)) BY <1>0, <1>4
<1>6. {s \in SUBSET S : Cardinality(s) <= Cardinality(S)} = SUBSET S BY <1>0
<1>7. PICK g \in [SUBSET S -> Int] :
        \A s \in SUBSET S : g[s] = IF s = {} THEN 0 ELSE f[Pick(s)] + g[s \ {Pick(s)}]
  BY <1>5, <1>6 DEF Solved
<1>8. Sums(f, g, S) BY <1>7 DEF Sums
<1> QED BY <1>7, <1>8

(* Two solutions agree where both are defined. *)
LEMMA SumsAgree ==
  ASSUME NEW T, IsFiniteSet(T), NEW S, T \subseteq S, NEW f, NEW g, NEW h,
         Sums(f, g, S), Sums(f, h, T)
  PROVE  \A s \in SUBSET T : g[s] = h[s]
<1> DEFINE F == {s \in SUBSET T : g[s] # h[s]}
<1> SUFFICES ASSUME F # {} PROVE FALSE OBVIOUS
<1>0. F \in SUBSET (SUBSET T) OBVIOUS
<1>1. PICK s \in F : \A t \in F : t \subseteq s => t = s
  <2> HIDE DEF F
  <2> QED BY <1>0, SmallestSet
<1>2. s \in SUBSET T /\ s \in SUBSET S OBVIOUS
<1>3. /\ g[s] = IF s = {} THEN 0 ELSE f[Pick(s)] + g[s \ {Pick(s)}]
      /\ h[s] = IF s = {} THEN 0 ELSE f[Pick(s)] + h[s \ {Pick(s)}]
  BY <1>2 DEF Sums
<1>4. s # {} BY <1>3
<1>5. Pick(s) \in s BY <1>4 DEF Pick
<1>6. s \ {Pick(s)} \notin F BY <1>1, <1>5
<1>7. g[s \ {Pick(s)}] = h[s \ {Pick(s)}] BY <1>2, <1>6
<1> QED BY <1>3, <1>4, <1>7

(* A sum is one of its terms plus the sum of the others, for the term picked... *)
LEMMA SumPicked ==
  ASSUME NEW S, IsFiniteSet(S), NEW f, \A x \in S : f[x] \in Int
  PROVE  /\ SumFunctionOnSet(f, S) \in Int
         /\ S = {} => SumFunctionOnSet(f, S) = 0
         /\ S # {} => /\ Pick(S) \in S
                      /\ SumFunctionOnSet(f, S) = f[Pick(S)] + SumFunctionOnSet(f, S \ {Pick(S)})
<1> DEFINE T == S \ {Pick(S)}
           g == CHOOSE x : Sums(f, x, S)
           h == CHOOSE x : Sums(f, x, T)
<1>1. PICK g0 : Sums(f, g0, S) /\ g0 \in [SUBSET S -> Int] BY SumsExist
<1>2. Sums(f, g, S) BY <1>1
<1>3. IsFiniteSet(T) /\ \A x \in T : f[x] \in Int BY FS_RemoveElement
<1>4. \E x : Sums(f, x, T) BY <1>3, SumsExist
<1>5. Sums(f, h, T) BY <1>4
<1>6. SumFunctionOnSet(f, S) = g[S] /\ SumFunctionOnSet(f, T) = h[T] BY SumDef
<1> HIDE DEF g, h
<1>7. g[S] = g0[S] BY <1>1, <1>2, SumsAgree
<1>8. g[T] = h[T] BY <1>2, <1>3, <1>5, SumsAgree
<1>9. g[S] = IF S = {} THEN 0 ELSE f[Pick(S)] + g[T] BY <1>2 DEF Sums
<1>10. S # {} => Pick(S) \in S BY DEF Pick
<1> QED BY <1>1, <1>6, <1>7, <1>8, <1>9, <1>10

(* ... and for any other. *)
LEMMA SumRemove ==
  ASSUME NEW S, IsFiniteSet(S), NEW f, \A x \in S : f[x] \in Int, NEW a \in S
  PROVE  SumFunctionOnSet(f, S) = f[a] + SumFunctionOnSet(f, S \ {a})
<1> DEFINE Sum(s) == SumFunctionOnSet(f, s)
           F == {s \in SUBSET S : \E x \in s : Sum(s) # f[x] + Sum(s \ {x})}
<1>1. \A s \in SUBSET S : /\ IsFiniteSet(s) /\ \A x \in s : f[x] \in Int
                          /\ Sum(s) \in Int
                          /\ s # {} => Pick(s) \in s /\ Sum(s) = f[Pick(s)] + Sum(s \ {Pick(s)})
  <2> TAKE s \in SUBSET S
  <2>1. IsFiniteSet(s) /\ \A x \in s : f[x] \in Int BY FS_Subset
  <2> QED BY <2>1, SumPicked
<1> HIDE DEF Sum
<1>2. F = {}
  <2> SUFFICES ASSUME F # {} PROVE FALSE OBVIOUS
  <2>0. F \in SUBSET (SUBSET S) OBVIOUS
  <2>1. PICK s \in F : \A t \in F : t \subseteq s => t = s
    <3> HIDE DEF F
    <3> QED BY <2>0, SmallestSet
  <2>2. PICK x \in s : Sum(s) # f[x] + Sum(s \ {x}) OBVIOUS
  <2> DEFINE c == Pick(s)
  <2>3. c \in s /\ Sum(s) = f[c] + Sum(s \ {c}) BY <1>1, <2>2
  <2>4. c # x BY <2>2, <2>3
  <2> HIDE DEF c
  <2>5. s \ {c} \notin F /\ s \ {x} \notin F BY <2>1, <2>2, <2>3
  <2>6. x \in s \ {c} /\ c \in s \ {x} BY <2>2, <2>3, <2>4
  <2>7. Sum(s \ {c}) = f[x] + Sum((s \ {c}) \ {x}) BY <2>5, <2>6
  <2>8. Sum(s \ {x}) = f[c] + Sum((s \ {x}) \ {c}) BY <2>5, <2>6
  <2>9. (s \ {c}) \ {x} = (s \ {x}) \ {c} OBVIOUS
  <2>10. f[x] \in Int /\ f[c] \in Int /\ Sum((s \ {x}) \ {c}) \in Int BY <1>1, <2>2, <2>3
  <2>11. Sum(s \ {c}) = f[x] + Sum((s \ {x}) \ {c}) BY <2>7, <2>9
  <2>12. f[c] + (f[x] + Sum((s \ {x}) \ {c})) = f[x] + (f[c] + Sum((s \ {x}) \ {c})) BY <2>10
  <2> QED BY <2>2, <2>3, <2>8, <2>11, <2>12
<1> QED BY <1>2 DEF Sum

(* Equal terms have equal sums; terms that are not smaller, no smaller sum. *)
LEMMA SumMonotone ==
  ASSUME NEW S, IsFiniteSet(S), NEW f, NEW g,
         \A x \in S : f[x] \in Int /\ g[x] \in Int /\ f[x] <= g[x]
  PROVE  SumFunctionOnSet(f, S) <= SumFunctionOnSet(g, S)
<1> DEFINE F == {s \in SUBSET S : ~ (SumFunctionOnSet(f, s) <= SumFunctionOnSet(g, s))}
<1> SUFFICES ASSUME F # {} PROVE FALSE OBVIOUS
<1>0. F \in SUBSET (SUBSET S) OBVIOUS
<1>1. PICK s \in F : \A t \in F : t \subseteq s => t = s
  <2> HIDE DEF F
  <2> QED BY <1>0, SmallestSet
<1>2. IsFiniteSet(s) /\ \A x \in s : f[x] \in Int /\ g[x] \in Int /\ f[x] <= g[x] BY FS_Subset
<1>3. s # {}
  <2>1. SumFunctionOnSet(f, {}) = 0 /\ SumFunctionOnSet(g, {}) = 0 BY FS_EmptySet, SumPicked
  <2> QED BY <2>1
<1>4. PICK x \in s : TRUE BY <1>3
<1>5. s \ {x} \notin F BY <1>1, <1>4
<1>6. SumFunctionOnSet(f, s \ {x}) <= SumFunctionOnSet(g, s \ {x}) BY <1>5
<1>7. /\ SumFunctionOnSet(f, s) = f[x] + SumFunctionOnSet(f, s \ {x})
      /\ SumFunctionOnSet(g, s) = g[x] + SumFunctionOnSet(g, s \ {x})
  BY <1>2, <1>4, SumRemove
<1>8. IsFiniteSet(s \ {x}) /\ \A y \in s \ {x} : f[y] \in Int /\ g[y] \in Int
  BY <1>2, FS_RemoveElement
<1>9. SumFunctionOnSet(f, s \ {x}) \in Int /\ SumFunctionOnSet(g, s \ {x}) \in Int
  BY <1>8, SumPicked
<1>10. f[x] \in Int /\ g[x] \in Int /\ f[x] <= g[x] BY <1>2, <1>4
<1> QED BY <1>6, <1>7, <1>9, <1>10

LEMMA SumSame ==
  ASSUME NEW S, IsFiniteSet(S), NEW f, NEW g,
         \A x \in S : f[x] \in Int /\ g[x] = f[x]
  PROVE  SumFunctionOnSet(f, S) = SumFunctionOnSet(g, S)
<1>1. /\ SumFunctionOnSet(f, S) <= SumFunctionOnSet(g, S)
      /\ SumFunctionOnSet(g, S) <= SumFunctionOnSet(f, S)
  BY SumMonotone
<1>2. SumFunctionOnSet(f, S) \in Int /\ SumFunctionOnSet(g, S) \in Int BY SumPicked
<1> QED BY <1>1, <1>2
=============================================================================
