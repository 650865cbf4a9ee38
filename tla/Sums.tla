-------------------------------- MODULE Sums --------------------------------
(***************************************************************************)
(* Facts about the folds of FiniteSetsExt and SequencesExt that the        *)
(* modules of this project use: a function that is defined by recursion on *)
(* the subsets of a finite set exists and is unique, so a fold is what its *)
(* definition says; and a sum over a finite set is a number that does not  *)
(* depend on the order in which its elements are taken.                    *)
(*                                                                         *)
(* Every argument by induction is one by least counterexample: of the      *)
(* subsets of a finite set that have not a property, one has no subset of  *)
(* its own that has it not.                                                *)
(***************************************************************************)
EXTENDS Integers, FiniteSetsExt, FiniteSetTheorems, WellFoundedInduction, TLAPS

\* Of some subsets of a finite set, one contains no other.
LEMMA LeastSubset ==
    ASSUME NEW S, IsFiniteSet(S), NEW Bad \in SUBSET (SUBSET S), Bad # {}
    PROVE  \E T \in Bad : \A U \in SUBSET T : U # T => U \notin Bad
<1>1. Bad \subseteq FiniteSubsetsOf(S)
  BY FS_FiniteSubsetsOfFinite, Zenon
<1>2. PICK T \in Bad : \A U \in Bad : ~(<<U, T>> \in StrictSubsetOrdering(S))
  BY <1>1, FS_StrictSubsetOrderingWellFounded, WFMin
<1>3. ASSUME NEW U \in SUBSET T, U # T PROVE U \notin Bad
  <2>1. <<U, T>> \in StrictSubsetOrdering(S)
    BY <1>2, <1>3 DEF StrictSubsetOrdering
  <2> QED
    BY <1>2, <2>1
<1> QED
  BY <1>3

\* A set of numbers that is not empty has a least element.
LEMMA LeastOfOrder ==
    ASSUME NEW R, IsWellFoundedOn(R, Nat),
           \A x, y \in Nat : <<y, x>> \in R <=> y < x,
           NEW S \in SUBSET Nat, S # {}
    PROVE  \E x \in S : \A y \in S : x <= y
<1>1. PICK x \in S : \A y \in S : ~(<<y, x>> \in R)
  BY WFMin
<1>2. ASSUME NEW y \in S PROVE x <= y
  <2>1. x \in Nat /\ y \in Nat
    OBVIOUS
  <2>2. ~(<<y, x>> \in R)
    BY <1>1
  <2>3. ~(y < x)
    BY <2>1, <2>2, Zenon
  <2> QED
    BY <2>1, <2>3
<1> QED
  BY <1>2

LEMMA Least ==
    ASSUME NEW S \in SUBSET Nat, S # {}
    PROVE  \E x \in S : \A y \in S : x <= y
<1>1. IsWellFoundedOn(OpToRel(<, Nat), Nat)
  BY NatLessThanWellFounded
<1>2. \A x, y \in Nat : <<y, x>> \in OpToRel(<, Nat) <=> y < x
  BY DEF OpToRel
<1> QED
  BY <1>1, <1>2, LeastOfOrder

\* A finite set of numbers has a greatest element.
LEMMA Greatest ==
    ASSUME NEW S \in SUBSET Nat, IsFiniteSet(S), S # {}
    PROVE  \E m \in S : \A x \in S : x <= m
<1> DEFINE Bad == {T \in SUBSET S : T # {} /\ ~\E m \in T : \A x \in T : x <= m}
<1> SUFFICES ASSUME Bad # {} PROVE FALSE
  OBVIOUS
<1>1. Bad \subseteq FiniteSubsetsOf(S)
  BY FS_FiniteSubsetsOfFinite, Zenon
<1>2. PICK T \in Bad : \A U \in Bad : ~(<<U, T>> \in StrictSubsetOrdering(S))
  BY <1>1, FS_StrictSubsetOrderingWellFounded, WFMin
<1>3. PICK x \in T : TRUE
  OBVIOUS
<1> DEFINE U == T \ {x}
<1>4. <<U, T>> \in StrictSubsetOrdering(S)
  BY <1>3 DEF StrictSubsetOrdering
<1>5. U \notin Bad
  BY <1>2, <1>4
<1>6. CASE U = {}
  BY <1>3, <1>6
<1>7. CASE U # {}
  <2>1. PICK m \in U : \A y \in U : y <= m
    BY <1>5, <1>7
  <2>2. m \in Nat /\ x \in Nat /\ T \subseteq Nat
    BY <1>3
  <2>3. CASE x <= m
    <3>1. \A y \in T : y <= m
      BY <2>1, <2>3
    <3> QED
      BY <2>1, <3>1
  <2>4. CASE m < x
    <3>1. \A y \in T : y <= x
      BY <2>1, <2>2, <2>4
    <3> QED
      BY <1>3, <3>1
  <2> QED
    BY <2>2, <2>3, <2>4
<1> QED
  BY <1>6, <1>7

\* What Min and Max choose of a set of numbers.
LEMMA MinIsLeast ==
    ASSUME NEW S \in SUBSET Nat, S # {}
    PROVE  Min(S) \in S /\ \A x \in S : Min(S) <= x
<1>1. \E x \in S : \A y \in S : x <= y
  BY Least
<1> QED
  BY <1>1, Zenon DEF Min

LEMMA MinFrom ==
    ASSUME NEW S \in SUBSET Int, NEW b \in Int, \A x \in S : b <= x, S # {}
    PROVE  Min(S) \in S /\ \A x \in S : Min(S) <= x
<1> DEFINE T == {x - b : x \in S}
<1>1. T \in SUBSET Nat /\ T # {}
  <2>1. \A x \in S : x \in Int /\ b <= x /\ x - b \in Nat
    OBVIOUS
  <2>2. \A z \in T : z \in Nat
    BY <2>1
  <2>3. T # {}
    OBVIOUS
  <2> QED
    BY <2>2, <2>3
<1>2. PICK z \in T : \A y \in T : z <= y
  BY <1>1, Least
<1>3. PICK x \in S : z = x - b
  BY <1>2
<1>4. \A y \in S : y - b \in T /\ y \in Int
  OBVIOUS
<1> HIDE DEF T
<1>5. \A y \in S : x <= y
  BY <1>2, <1>3, <1>4
<1> QED
  BY <1>5, Zenon DEF Min

LEMMA MaxIsGreatest ==
    ASSUME NEW S \in SUBSET Nat, IsFiniteSet(S), S # {}
    PROVE  Max(S) \in S /\ \A x \in S : Max(S) >= x
<1>1. PICK m \in S : \A x \in S : x <= m
  BY Greatest
<1>2. \A x \in S : m >= x
  BY <1>1
<1>3. \E y \in S : \A x \in S : y >= x
  BY <1>2
<1> QED
  BY <1>3, Zenon DEF Max

-----------------------------------------------------------------------------
\* F is a fold of the subsets of S: base for none, and a step for the element
\* that is picked of each.
IsFold(F, S, T, base, pick, step) ==
    /\ F \in [SUBSET S -> T]
    /\ \A s \in SUBSET S :
          F[s] = IF s = {} THEN base ELSE step[<<pick[s], F[s \ {pick[s]}]>>]

\* Two folds agree on what both are defined on.
LEMMA FoldsAgree ==
    ASSUME NEW S, IsFiniteSet(S), NEW T, NEW base, NEW pick, NEW step,
           \A s \in SUBSET S : s # {} => pick[s] \in s,
           NEW U \in SUBSET S, NEW V \in SUBSET S, NEW F, NEW G,
           IsFold(F, U, T, base, pick, step), IsFold(G, V, T, base, pick, step)
    PROVE  \A s \in SUBSET (U \cap V) : F[s] = G[s]
<1> DEFINE Bad == {s \in SUBSET (U \cap V) : F[s] # G[s]}
<1> SUFFICES ASSUME Bad # {} PROVE FALSE
  OBVIOUS
<1>1. PICK s \in Bad : \A u \in SUBSET s : u # s => u \notin Bad
  <2>1. Bad \in SUBSET (SUBSET S)
    OBVIOUS
  <2> HIDE DEF Bad
  <2> QED
    BY <2>1, LeastSubset
<1>2. s # {} /\ pick[s] \in s
  BY <1>1 DEF IsFold
<1> DEFINE u == s \ {pick[s]}
<1>3. F[u] = G[u]
  BY <1>1, <1>2
<1>4. F[s] = step[<<pick[s], F[u]>>] /\ G[s] = step[<<pick[s], G[u]>>]
  BY <1>1, <1>2 DEF IsFold
<1> QED
  BY <1>1, <1>3, <1>4

\* A fold exists.
LEMMA FoldExists ==
    ASSUME NEW S, IsFiniteSet(S), NEW T, NEW base \in T, NEW pick, NEW step \in [S \X T -> T],
           \A s \in SUBSET S : s # {} => pick[s] \in s
    PROVE  \E F : IsFold(F, S, T, base, pick, step)
<1> DEFINE Has(s) == \E F : IsFold(F, s, T, base, pick, step)
           Bad == {s \in SUBSET S : ~Has(s)}
           Of(s) == CHOOSE F : IsFold(F, s, T, base, pick, step)
<1> SUFFICES ASSUME Bad # {} PROVE FALSE
  OBVIOUS
<1>1. PICK s \in Bad : \A u \in SUBSET s : u # s => u \notin Bad
  <2>1. Bad \in SUBSET (SUBSET S)
    OBVIOUS
  <2> HIDE DEF Bad
  <2> QED
    BY <2>1, LeastSubset
<1>2. \A u \in SUBSET s : u # s => IsFold(Of(u), u, T, base, pick, step)
  <2> SUFFICES ASSUME NEW u \in SUBSET s, u # s PROVE IsFold(Of(u), u, T, base, pick, step)
    OBVIOUS
  <2>1. Has(u)
    BY <1>1
  <2> QED
    BY <2>1, Zenon
<1> DEFINE Rest(t) == t \ {pick[t]}
           H == [t \in SUBSET s |->
                   IF t = {} THEN base ELSE step[<<pick[t], Of(Rest(t))[Rest(t)]>>]]
<1>3. \A t \in SUBSET s : t # {} => /\ pick[t] \in t /\ pick[t] \in S
                                   /\ Rest(t) \in SUBSET s /\ Rest(t) # s
  BY <1>1
<1> HIDE DEF Of
<1>4. H \in [SUBSET s -> T]
  <2> SUFFICES ASSUME NEW t \in SUBSET s, t # {}
               PROVE  step[<<pick[t], Of(Rest(t))[Rest(t)]>>] \in T
    OBVIOUS
  <2>1. Of(Rest(t)) \in [SUBSET Rest(t) -> T] /\ pick[t] \in S
    BY <1>2, <1>3 DEF IsFold
  <2>2. Of(Rest(t))[Rest(t)] \in T
    BY <2>1
  <2> QED
    BY <2>1, <2>2
<1>5. ASSUME NEW u \in SUBSET s, u # s PROVE H[u] = Of(u)[u]
  <2>1. IsFold(Of(u), u, T, base, pick, step)
    BY <1>2, <1>5
  <2>2. CASE u = {}
    BY <2>1, <2>2 DEF IsFold
  <2>3. CASE u # {}
    <3>1. IsFold(Of(Rest(u)), Rest(u), T, base, pick, step) /\ Rest(u) \subseteq u
      BY <1>2, <1>3, <2>3
    <3>2. u \in SUBSET S /\ Rest(u) \in SUBSET S
      BY <1>1, <3>1
    <3>3. \A v \in SUBSET (u \cap Rest(u)) : Of(u)[v] = Of(Rest(u))[v]
      BY <2>1, <3>1, <3>2, FoldsAgree
    <3>4. Of(u)[Rest(u)] = Of(Rest(u))[Rest(u)]
      BY <3>1, <3>3
    <3>5. Of(u)[u] = step[<<pick[u], Of(u)[Rest(u)]>>]
      BY <2>1, <2>3 DEF IsFold
    <3> QED
      BY <2>3, <3>4, <3>5
  <2> QED
    BY <2>2, <2>3
<1>6. ASSUME NEW t \in SUBSET s
      PROVE  H[t] = IF t = {} THEN base ELSE step[<<pick[t], H[Rest(t)]>>]
  <2>1. t # {} => H[Rest(t)] = Of(Rest(t))[Rest(t)]
    BY <1>3, <1>5
  <2> QED
    BY <2>1
<1>7. IsFold(H, s, T, base, pick, step)
  BY <1>4, <1>6 DEF IsFold
<1> QED
  BY <1>1, <1>7

-----------------------------------------------------------------------------
\* Sums over finite sets, as MapThenSumSet makes them: of any element first.
Pick(s) == CHOOSE x \in s : TRUE
SumEquation(F, S, g) ==
    F = [s \in SUBSET S |-> IF s = {} THEN 0 ELSE g[Pick(s)] + F[s \ {Pick(s)}]]
Sum(g, S) == MapThenSumSet(LAMBDA x : g[x], S)

LEMMA PickIn == ASSUME NEW s, s # {} PROVE Pick(s) \in s
BY DEF Pick

LEMMA EquationsAgree ==
    ASSUME NEW S, IsFiniteSet(S), NEW U \in SUBSET S, NEW V \in SUBSET S,
           NEW F, NEW g, NEW G, NEW h, SumEquation(F, U, g), SumEquation(G, V, h),
           \A x \in U \cap V : g[x] = h[x]
    PROVE  \A s \in SUBSET (U \cap V) : F[s] = G[s]
<1> DEFINE Bad == {s \in SUBSET (U \cap V) : F[s] # G[s]}
<1> SUFFICES ASSUME Bad # {} PROVE FALSE
  OBVIOUS
<1>1. PICK s \in Bad : \A u \in SUBSET s : u # s => u \notin Bad
  <2>1. Bad \in SUBSET (SUBSET S)
    OBVIOUS
  <2> HIDE DEF Bad
  <2> QED
    BY <2>1, LeastSubset
<1>2. s \in SUBSET U /\ s \in SUBSET V /\ F[s] # G[s]
  BY <1>1
<1> DEFINE p == Pick(s)
           u == s \ {p}
<1>3. /\ F[s] = IF s = {} THEN 0 ELSE g[p] + F[u]
      /\ G[s] = IF s = {} THEN 0 ELSE h[p] + G[u]
  BY <1>2 DEF SumEquation
<1>4. s # {} /\ p \in s
  BY <1>2, <1>3, PickIn
<1>5. F[u] = G[u] /\ g[p] = h[p]
  BY <1>1, <1>2, <1>4
<1> QED
  BY <1>2, <1>3, <1>4, <1>5

LEMMA EquationSolved ==
    ASSUME NEW S, IsFiniteSet(S), NEW g, \A x \in S : g[x] \in Int
    PROVE  \E F \in [SUBSET S -> Int] : SumEquation(F, S, g)
<1> DEFINE pick == [s \in SUBSET S |-> Pick(s)]
           step == [p \in S \X Int |-> g[p[1]] + p[2]]
<1>1. step \in [S \X Int -> Int]
  OBVIOUS
<1>2. \A s \in SUBSET S : pick[s] = Pick(s) /\ (s # {} => pick[s] \in s)
  BY PickIn
<1>3. \A x \in S : \A n \in Int : step[<<x, n>>] = g[x] + n
  OBVIOUS
<1> HIDE DEF step, pick
<1>4. PICK F : IsFold(F, S, Int, 0, pick, step)
  BY <1>1, <1>2, FoldExists
<1>5. F \in [SUBSET S -> Int]
  BY <1>4 DEF IsFold
<1>6. ASSUME NEW s \in SUBSET S
      PROVE  F[s] = IF s = {} THEN 0 ELSE g[Pick(s)] + F[s \ {Pick(s)}]
  <2>1. F[s] = IF s = {} THEN 0 ELSE step[<<pick[s], F[s \ {pick[s]}]>>]
    BY <1>4 DEF IsFold
  <2>2. s # {} => pick[s] \in S /\ F[s \ {pick[s]}] \in Int
    BY <1>2, <1>5
  <2> QED
    BY <1>2, <1>3, <2>1, <2>2
<1> QED
  BY <1>5, <1>6 DEF SumEquation

\* A sum is a solution of its equation.
LEMMA SumIsSolution ==
    ASSUME NEW S, IsFiniteSet(S), NEW g, \A x \in S : g[x] \in Int
    PROVE  \E F \in [SUBSET S -> Int] : SumEquation(F, S, g) /\ Sum(g, S) = F[S]
<1>1. PICK F \in [SUBSET S -> Int] : SumEquation(F, S, g)
  BY EquationSolved
<1> DEFINE G == CHOOSE H : H = [s \in SUBSET S |->
                   IF s = {} THEN 0 ELSE LET x == CHOOSE x \in s : TRUE IN g[x] + H[s \ {x}]]
<1>2. F = [s \in SUBSET S |->
             IF s = {} THEN 0 ELSE LET x == CHOOSE x \in s : TRUE IN g[x] + F[s \ {x}]]
  BY <1>1 DEF SumEquation, Pick
<1>3. G = [s \in SUBSET S |->
             IF s = {} THEN 0 ELSE LET x == CHOOSE x \in s : TRUE IN g[x] + G[s \ {x}]]
  BY <1>2, Zenon
<1>4. Sum(g, S) = G[S]
  BY Zenon DEF Sum, MapThenSumSet, MapThenFoldSet
<1>5. SumEquation(G, S, g)
  BY <1>3 DEF SumEquation, Pick
<1>6. G[S] = F[S]
  BY <1>1, <1>5, EquationsAgree
<1> QED
  BY <1>1, <1>4, <1>6

\* A sum is a number, 0 for none, and depends on nothing but what is summed.
LEMMA SumType ==
    ASSUME NEW S, IsFiniteSet(S), NEW g, \A x \in S : g[x] \in Int
    PROVE  Sum(g, S) \in Int /\ (S = {} => Sum(g, S) = 0)
<1>1. PICK F \in [SUBSET S -> Int] : SumEquation(F, S, g) /\ Sum(g, S) = F[S]
  BY SumIsSolution
<1> QED
  BY <1>1 DEF SumEquation

LEMMA SumCongruence ==
    ASSUME NEW S, IsFiniteSet(S), NEW g, NEW h, \A x \in S : g[x] \in Int /\ g[x] = h[x]
    PROVE  Sum(g, S) = Sum(h, S)
<1>1. PICK F : SumEquation(F, S, g) /\ Sum(g, S) = F[S]
  BY SumIsSolution
<1>2. PICK G : SumEquation(G, S, h) /\ Sum(h, S) = G[S]
  BY SumIsSolution
<1> QED
  BY <1>1, <1>2, EquationsAgree

\* Whichever element is taken first.
WhicheverFirst(F, S, g) == \A s \in SUBSET S : \A x \in s : F[s] = g[x] + F[s \ {x}]

LEMMA AnyFirst ==
    ASSUME NEW S, IsFiniteSet(S), NEW g, \A x \in S : g[x] \in Int,
           NEW F \in [SUBSET S -> Int], SumEquation(F, S, g)
    PROVE  WhicheverFirst(F, S, g)
<1> DEFINE Good(s) == \A x \in s : F[s] = g[x] + F[s \ {x}]
           Bad == {s \in SUBSET S : ~Good(s)}
<1> SUFFICES ASSUME Bad # {} PROVE FALSE
  BY DEF WhicheverFirst
<1>1. PICK s \in Bad : \A u \in SUBSET s : u # s => u \notin Bad
  <2>1. Bad \in SUBSET (SUBSET S)
    OBVIOUS
  <2> HIDE DEF Bad
  <2> QED
    BY <2>1, LeastSubset
<1>2. s \in SUBSET S /\ ~Good(s)
  BY <1>1
<1>3. PICK x \in s : F[s] # g[x] + F[s \ {x}]
  BY <1>2
<1> DEFINE p == Pick(s)
<1>4. p \in s /\ F[s] = g[p] + F[s \ {p}]
  BY <1>2, <1>3, PickIn DEF SumEquation
<1>5. x # p
  BY <1>3, <1>4
<1> HIDE DEF p
<1> DEFINE u == s \ {p}
           v == s \ {x}
           w == s \ {p, x}
<1>6. /\ u \in SUBSET s /\ u # s /\ u \in SUBSET S
      /\ v \in SUBSET s /\ v # s /\ v \in SUBSET S
      /\ w \in SUBSET S
      /\ x \in u /\ p \in v /\ u \ {x} = w /\ v \ {p} = w
  BY <1>2, <1>4, <1>5
<1>7. Good(u) /\ Good(v)
  BY <1>1, <1>6
<1>8. F[u] = g[x] + F[w] /\ F[v] = g[p] + F[w]
  BY <1>6, <1>7
<1>9. g[x] \in Int /\ g[p] \in Int /\ F[w] \in Int /\ F[u] \in Int /\ F[v] \in Int
  BY <1>2, <1>4, <1>6
<1> HIDE DEF u, v, w, Good, Bad
<1>10. g[p] + F[u] = g[x] + F[v]
  BY <1>8, <1>9
<1> QED
  BY <1>3, <1>4, <1>10 DEF u, v

LEMMA SumRemove ==
    ASSUME NEW S, IsFiniteSet(S), NEW g, \A x \in S : g[x] \in Int, NEW x \in S
    PROVE  Sum(g, S) = g[x] + Sum(g, S \ {x})
<1> DEFINE R == S \ {x}
<1>1. PICK F \in [SUBSET S -> Int] : SumEquation(F, S, g) /\ Sum(g, S) = F[S]
  BY SumIsSolution
<1>2. F[S] = g[x] + F[R]
  <2>1. WhicheverFirst(F, S, g)
    BY <1>1, AnyFirst
  <2> QED
    BY <2>1 DEF WhicheverFirst
<1>3. IsFiniteSet(R)
  BY FS_Subset
<1>4. PICK G \in [SUBSET R -> Int] : SumEquation(G, R, g) /\ Sum(g, R) = G[R]
  BY <1>3, SumIsSolution
<1>5. \A s \in SUBSET (S \cap R) : F[s] = G[s]
  BY <1>1, <1>4, EquationsAgree
<1>6. F[R] = G[R]
  BY <1>5
<1> QED
  BY <1>1, <1>2, <1>4, <1>6

LEMMA SumInsert ==
    ASSUME NEW S, IsFiniteSet(S), NEW x, x \notin S, NEW g,
           g[x] \in Int, \A y \in S : g[y] \in Int
    PROVE  Sum(g, S \cup {x}) = g[x] + Sum(g, S)
<1> DEFINE T == S \cup {x}
<1>1. IsFiniteSet(T) /\ (\A y \in T : g[y] \in Int) /\ x \in T /\ T \ {x} = S
  BY FS_AddElement
<1> HIDE DEF T
<1>2. Sum(g, T) = g[x] + Sum(g, T \ {x})
  BY <1>1, SumRemove
<1> QED
  BY <1>1, <1>2 DEF T

\* A sum of what is not negative is not.
LEMMA SumNat ==
    ASSUME NEW S, IsFiniteSet(S), NEW g, \A x \in S : g[x] \in Nat
    PROVE  Sum(g, S) \in Nat
<1> DEFINE Bad == {s \in SUBSET S : Sum(g, s) \notin Nat}
<1> SUFFICES ASSUME Bad # {} PROVE FALSE
  OBVIOUS
<1>1. PICK s \in Bad : \A u \in SUBSET s : u # s => u \notin Bad
  <2>1. Bad \in SUBSET (SUBSET S)
    OBVIOUS
  <2> HIDE DEF Bad
  <2> QED
    BY <2>1, LeastSubset
<1>2. IsFiniteSet(s) /\ (\A x \in s : g[x] \in Nat /\ g[x] \in Int) /\ Sum(g, s) \notin Nat
  BY <1>1, FS_Subset
<1>3. PICK x \in s : TRUE
  BY <1>2, SumType
<1>4. Sum(g, s) = g[x] + Sum(g, s \ {x})
  BY <1>2, SumRemove
<1>5. Sum(g, s \ {x}) \in Nat
  BY <1>1, <1>3
<1> QED
  BY <1>2, <1>4, <1>5

\* A set is no larger than what it is the image of.
LEMMA ImageIsFinite ==
    ASSUME NEW S, IsFiniteSet(S), NEW f
    PROVE  IsFiniteSet({f[x] : x \in S})
<1> DEFINE T == {f[x] : x \in S}
           h == [x \in S |-> f[x]]
<1>1. h \in [S -> T] /\ \A t \in T : \E x \in S : h[x] = t
  OBVIOUS
<1>2. h \in Surjection(S, T)
  BY <1>1 DEF Surjection
<1> QED
  BY <1>2, FS_Surjection

\* The sum over two sets that have nothing in common.
LEMMA SumDisjoint ==
    ASSUME NEW S, IsFiniteSet(S), NEW T, IsFiniteSet(T), S \cap T = {},
           NEW g, \A x \in S \cup T : g[x] \in Int
    PROVE  Sum(g, S \cup T) = Sum(g, S) + Sum(g, T)
<1> DEFINE Bad == {t \in SUBSET T : Sum(g, S \cup t) # Sum(g, S) + Sum(g, t)}
<1> SUFFICES ASSUME Bad # {} PROVE FALSE
  OBVIOUS
<1>1. PICK t \in Bad : \A u \in SUBSET t : u # t => u \notin Bad
  <2>1. Bad \in SUBSET (SUBSET T)
    OBVIOUS
  <2> HIDE DEF Bad
  <2> QED
    BY <2>1, LeastSubset
<1>2. t \in SUBSET T /\ IsFiniteSet(t) /\ Sum(g, S \cup t) # Sum(g, S) + Sum(g, t)
  BY <1>1, FS_Subset
<1>3. Sum(g, S) \in Int /\ Sum(g, {}) = 0
  BY SumType, FS_EmptySet
<1>4. t # {}
  <2> HIDE DEF Bad
  <2>1. ASSUME t = {} PROVE Sum(g, S \cup t) = Sum(g, S) /\ Sum(g, t) = 0
    <3>1. S \cup t = S
      BY <2>1
    <3> QED
      BY <1>3, <2>1, <3>1, Zenon
  <2> QED
    BY <1>2, <1>3, <2>1
<1>5. PICK x \in t : TRUE
  BY <1>4
<1> DEFINE u == t \ {x}
<1>6. u \in SUBSET t /\ u # t /\ IsFiniteSet(u) /\ x \notin S /\ u \in SUBSET T
  BY <1>2, <1>5, FS_Subset
<1>7. Sum(g, S \cup u) = Sum(g, S) + Sum(g, u)
  BY <1>1, <1>6
<1>8. Sum(g, t) = g[x] + Sum(g, u)
  BY <1>2, SumRemove
<1>9. Sum(g, S \cup t) = g[x] + Sum(g, S \cup u)
  <2>1. IsFiniteSet(S \cup t)
    BY <1>2, FS_Union
  <2>2. (S \cup t) \ {x} = S \cup u /\ x \in S \cup t
    BY <1>6
  <2>3. Sum(g, S \cup t) = g[x] + Sum(g, (S \cup t) \ {x})
    BY <1>2, <2>1, <2>2, SumRemove
  <2> QED
    BY <2>2, <2>3
<1>10. Sum(g, u) \in Int /\ g[x] \in Int
  BY <1>6, <1>2, SumType
<1> QED
  BY <1>2, <1>3, <1>7, <1>8, <1>9, <1>10

\* The sum over the image of a set, no two of whose elements have the same image.
LEMMA SumImage ==
    ASSUME NEW S, IsFiniteSet(S), NEW g, \A x \in S : g[x] \in Int,
           NEW f, \A x, y \in S : f[x] = f[y] => x = y,
           NEW h, \A x \in S : h[f[x]] = g[x]
    PROVE  Sum(h, {f[x] : x \in S}) = Sum(g, S)
<1> DEFINE Image(s) == {f[x] : x \in s}
           Bad == {s \in SUBSET S : Sum(h, Image(s)) # Sum(g, s)}
<1> SUFFICES ASSUME Bad # {} PROVE FALSE
  OBVIOUS
<1>1. PICK s \in Bad : \A u \in SUBSET s : u # s => u \notin Bad
  <2>1. Bad \in SUBSET (SUBSET S)
    OBVIOUS
  <2> HIDE DEF Bad
  <2> QED
    BY <2>1, LeastSubset
<1>2. s \in SUBSET S /\ IsFiniteSet(s) /\ Sum(h, Image(s)) # Sum(g, s)
  BY <1>1, FS_Subset
<1>3. s # {}
  <2>1. s = {} => Image(s) = {}
    OBVIOUS
  <2> HIDE DEF Image
  <2>2. IsFiniteSet({}) /\ \A q : Sum(q, {}) = 0
    BY SumType, FS_EmptySet
  <2> QED
    BY <1>2, <2>1, <2>2
<1>4. PICK x \in s : TRUE
  BY <1>3
<1> DEFINE u == s \ {x}
<1>5. u \in SUBSET s /\ u # s
  BY <1>4
<1>6. Sum(h, Image(u)) = Sum(g, u)
  BY <1>1, <1>5
<1>7. Sum(g, s) = g[x] + Sum(g, u)
  BY <1>2, SumRemove
<1>8. f[x] \in Image(s) /\ Image(s) \ {f[x]} = Image(u)
  BY <1>2, <1>4
<1>9. IsFiniteSet(Image(s)) /\ \A y \in Image(s) : h[y] \in Int
  BY <1>2, ImageIsFinite
<1> HIDE DEF Image
<1>10. Sum(h, Image(s)) = h[f[x]] + Sum(h, Image(s) \ {f[x]})
  BY <1>8, <1>9, SumRemove
<1> QED
  BY <1>2, <1>4, <1>6, <1>7, <1>8, <1>10

\* Sums of two values each, sums of nothing, and what adds nothing to a sum.
LEMMA SumAdd ==
    ASSUME NEW S, IsFiniteSet(S), NEW g, NEW h, NEW k,
           \A x \in S : g[x] \in Int /\ h[x] \in Int /\ k[x] = g[x] + h[x]
    PROVE  Sum(k, S) = Sum(g, S) + Sum(h, S)
<1> DEFINE Bad == {s \in SUBSET S : Sum(k, s) # Sum(g, s) + Sum(h, s)}
<1> SUFFICES ASSUME Bad # {} PROVE FALSE
  OBVIOUS
<1>1. PICK s \in Bad : \A u \in SUBSET s : u # s => u \notin Bad
  <2>1. Bad \in SUBSET (SUBSET S)
    OBVIOUS
  <2> HIDE DEF Bad
  <2> QED
    BY <2>1, LeastSubset
<1>2. s \in SUBSET S /\ IsFiniteSet(s) /\ Sum(k, s) # Sum(g, s) + Sum(h, s)
  BY <1>1, FS_Subset
<1>3. s # {}
  <2>1. IsFiniteSet({}) /\ Sum(g, {}) = 0 /\ Sum(h, {}) = 0 /\ Sum(k, {}) = 0
    BY FS_EmptySet, SumType
  <2>2. s = {} => Sum(g, s) = 0 /\ Sum(h, s) = 0 /\ Sum(k, s) = 0
    BY <2>1, Zenon
  <2> HIDE DEF Bad
  <2> QED
    BY <1>2, <2>2
<1>4. PICK x \in s : TRUE
  BY <1>3
<1> DEFINE u == s \ {x}
<1>5. u \in SUBSET s /\ u # s /\ IsFiniteSet(u) /\ u \in SUBSET S
  BY <1>2, <1>4, FS_Subset
<1>6. Sum(k, u) = Sum(g, u) + Sum(h, u)
  BY <1>1, <1>5
<1>7. \A y \in s : g[y] \in Int /\ h[y] \in Int /\ k[y] \in Int /\ k[y] = g[y] + h[y]
  BY <1>2
<1>8. Sum(k, s) = k[x] + Sum(k, u) /\ Sum(g, s) = g[x] + Sum(g, u) /\ Sum(h, s) = h[x] + Sum(h, u)
  BY <1>2, <1>7, SumRemove
<1>9. Sum(g, u) \in Int /\ Sum(h, u) \in Int
  BY <1>5, <1>7, SumType
<1> QED
  BY <1>2, <1>6, <1>7, <1>8, <1>9

LEMMA SumZero ==
    ASSUME NEW S, IsFiniteSet(S), NEW g, \A x \in S : g[x] = 0
    PROVE  Sum(g, S) = 0
<1>1. \A x \in S : g[x] \in Int /\ g[x] = g[x] + g[x]
  OBVIOUS
<1>2. Sum(g, S) = Sum(g, S) + Sum(g, S)
  BY <1>1, SumAdd
<1>3. Sum(g, S) \in Int
  BY <1>1, SumType
<1> DEFINE v == Sum(g, S)
<1>4. v \in Int /\ v = v + v
  BY <1>2, <1>3
<1> HIDE DEF v
<1>5. v = 0
  BY <1>4
<1> QED
  BY <1>5 DEF v

LEMMA SumRelevant ==
    ASSUME NEW S, IsFiniteSet(S), NEW T \in SUBSET S, NEW g,
           \A x \in S : g[x] \in Int, \A x \in S \ T : g[x] = 0
    PROVE  Sum(g, S) = Sum(g, T)
<1> DEFINE R == S \ T
<1>1. IsFiniteSet(R) /\ IsFiniteSet(T) /\ T \cap R = {} /\ T \cup R = S
  BY FS_Subset
<1>2. \A x \in R : g[x] = 0
  OBVIOUS
<1> HIDE DEF R
<1>3. Sum(g, R) = 0
  BY <1>1, <1>2, SumZero
<1>4. Sum(g, T \cup R) = Sum(g, T) + Sum(g, R)
  BY <1>1, SumDisjoint
<1>5. Sum(g, T) \in Int
  BY <1>1, SumType
<1>6. Sum(g, S) = Sum(g, T \cup R)
  BY <1>1, Zenon
<1> QED
  BY <1>3, <1>4, <1>5, <1>6

LEMMA SumOne ==
    ASSUME NEW x, NEW g, g[x] \in Int
    PROVE  Sum(g, {x}) = g[x]
<1>1. IsFiniteSet({}) /\ Sum(g, {}) = 0
  BY FS_EmptySet, SumType
<1>2. Sum(g, {} \cup {x}) = g[x] + Sum(g, {})
  BY <1>1, SumInsert
<1>3. {} \cup {x} = {x}
  OBVIOUS
<1> QED
  BY <1>1, <1>2, <1>3

LEMMA SumTwo ==
    ASSUME NEW x, NEW y, x # y, NEW g, g[x] \in Int, g[y] \in Int
    PROVE  Sum(g, {x, y}) = g[x] + g[y]
<1>1. IsFiniteSet({y}) /\ x \notin {y} /\ Sum(g, {y}) = g[y]
  BY FS_Singleton, SumOne
<1>2. Sum(g, {y} \cup {x}) = g[x] + Sum(g, {y})
  BY <1>1, SumInsert
<1>3. {y} \cup {x} = {x, y}
  OBVIOUS
<1> QED
  BY <1>1, <1>2, <1>3

-----------------------------------------------------------------------------
\* The sums of the modules: of quantities, and of amounts.
Quantities(S) == [x \in S |-> x.quantity]
Amounts(S) == [x \in S |-> x.amount]

LEMMA QuantitySum ==
    ASSUME NEW S, IsFiniteSet(S), \A x \in S : x.quantity \in Int
    PROVE  MapThenSumSet(LAMBDA x : x.quantity, S) = Sum(Quantities(S), S)
<1> DEFINE g == Quantities(S)
           G == CHOOSE H : H = [s \in SUBSET S |-> IF s = {} THEN 0
                   ELSE LET x == CHOOSE x \in s : TRUE IN x.quantity + H[s \ {x}]]
<1>1. \A x \in S : g[x] = x.quantity /\ g[x] \in Int
  BY DEF Quantities
<1> HIDE DEF g
<1>2. PICK F : SumEquation(F, S, g) /\ Sum(g, S) = F[S]
  BY <1>1, SumIsSolution
<1>3. \A s \in SUBSET S : s # {} => g[Pick(s)] = Pick(s).quantity
  BY <1>1, PickIn
<1>4. F = [s \in SUBSET S |-> IF s = {} THEN 0
              ELSE LET x == CHOOSE x \in s : TRUE IN x.quantity + F[s \ {x}]]
  BY <1>2, <1>3 DEF SumEquation, Pick
<1>5. G = [s \in SUBSET S |-> IF s = {} THEN 0
              ELSE LET x == CHOOSE x \in s : TRUE IN x.quantity + G[s \ {x}]]
  BY <1>4, Zenon
<1> HIDE DEF G
<1>6. SumEquation(G, S, g)
  BY <1>3, <1>5 DEF SumEquation, Pick
<1>7. G[S] = F[S]
  BY <1>2, <1>6, EquationsAgree
<1>8. MapThenSumSet(LAMBDA x : x.quantity, S) = G[S]
  BY Zenon DEF G, MapThenSumSet, MapThenFoldSet
<1> QED
  BY <1>2, <1>7, <1>8 DEF g

LEMMA AmountSum ==
    ASSUME NEW S, IsFiniteSet(S), \A x \in S : x.amount \in Int
    PROVE  MapThenSumSet(LAMBDA x : x.amount, S) = Sum(Amounts(S), S)
<1> DEFINE g == Amounts(S)
           G == CHOOSE H : H = [s \in SUBSET S |-> IF s = {} THEN 0
                   ELSE LET x == CHOOSE x \in s : TRUE IN x.amount + H[s \ {x}]]
<1>1. \A x \in S : g[x] = x.amount /\ g[x] \in Int
  BY DEF Amounts
<1> HIDE DEF g
<1>2. PICK F : SumEquation(F, S, g) /\ Sum(g, S) = F[S]
  BY <1>1, SumIsSolution
<1>3. \A s \in SUBSET S : s # {} => g[Pick(s)] = Pick(s).amount
  BY <1>1, PickIn
<1>4. F = [s \in SUBSET S |-> IF s = {} THEN 0
              ELSE LET x == CHOOSE x \in s : TRUE IN x.amount + F[s \ {x}]]
  BY <1>2, <1>3 DEF SumEquation, Pick
<1>5. G = [s \in SUBSET S |-> IF s = {} THEN 0
              ELSE LET x == CHOOSE x \in s : TRUE IN x.amount + G[s \ {x}]]
  BY <1>4, Zenon
<1> HIDE DEF G
<1>6. SumEquation(G, S, g)
  BY <1>3, <1>5 DEF SumEquation, Pick
<1>7. G[S] = F[S]
  BY <1>2, <1>6, EquationsAgree
<1>8. MapThenSumSet(LAMBDA x : x.amount, S) = G[S]
  BY Zenon DEF G, MapThenSumSet, MapThenFoldSet
<1> QED
  BY <1>2, <1>7, <1>8 DEF g
=============================================================================
