------------------------------ MODULE SumFacts ------------------------------
(***************************************************************************)
(* Facts about SumFunctionOnSet of the community modules, for finite sets  *)
(* of indices.  The provers cannot instantiate the library's induction     *)
(* theorems, which take a predicate as a parameter; a minimal element of a *)
(* set of counterexamples serves instead.                                  *)
(***************************************************************************)
EXTENDS Integers, FiniteSets, Functions, FiniteSetTheorems, WellFoundedInduction, TLAPS

(* Every set of naturals that is not empty has a smallest element.         *)
LEMMA SmallestNat ==
  ASSUME NEW T \in SUBSET Nat, T # {}
  PROVE  \E n \in T : \A m \in T : n <= m
<1>1. PICK n \in T : \A m \in T : ~ (<<m, n>> \in OpToRel(<, Nat))
  BY WFMin, NatLessThanWellFounded
<1>2. \A m \in T : ~ (m < n)
  BY <1>1 DEF OpToRel
<1> QED  BY <1>2

(* What FoldFunctionOnSet computes on the subsets of a set.                *)
Pick(s) == CHOOSE x \in s : TRUE

IsSummation(h, f, D) ==
  h = [s \in D |-> IF s = {} THEN 0 ELSE f[Pick(s)] + h[s \ {Pick(s)}]]

Summation(f, S) == CHOOSE h : IsSummation(h, f, SUBSET S)

LEMMA SumIsSummation ==
  ASSUME NEW f, NEW S
  PROVE  SumFunctionOnSet(f, S) = Summation(f, S)[S]
BY DEF SumFunctionOnSet, FoldFunctionOnSet, MapThenFoldSet, Summation, IsSummation, Pick
(* The recursive function exists: on sets of at most n elements by         *)
(* induction on n, so on all subsets of a finite set.                      *)
LEMMA SummationExists ==
  ASSUME NEW f, NEW S, IsFiniteSet(S)
  PROVE  IsSummation(Summation(f, S), f, SUBSET S)
<1> DEFINE Small(n) == {s \in SUBSET S : Cardinality(s) <= n}
           Bad == {n \in Nat : ~ \E h : IsSummation(h, f, Small(n))}
<1>1. \A s \in SUBSET S : IsFiniteSet(s) /\ Cardinality(s) \in Nat /\ (Cardinality(s) = 0 <=> s = {})
  BY FS_Subset, FS_CardinalityType, FS_EmptySet
<1>2. 0 \notin Bad
  <2> DEFINE h == [s \in Small(0) |-> 0]
  <2>1. \A s \in Small(0) : s = {}
    BY <1>1
  <2>2. h = [s \in Small(0) |-> IF s = {} THEN 0 ELSE f[Pick(s)] + h[s \ {Pick(s)}]]
    BY <2>1
  <2>3. IsSummation(h, f, Small(0))
    BY <2>2 DEF IsSummation
  <2> HIDE DEF h
  <2> QED  BY <2>3
<1>3. ASSUME NEW n \in Nat, n \notin Bad
      PROVE  n + 1 \notin Bad
  <2>1. PICK h : IsSummation(h, f, Small(n))
    BY <1>3
  <2> DEFINE g == [s \in Small(n+1) |-> IF s = {} THEN 0 ELSE f[Pick(s)] + h[s \ {Pick(s)}]]
  <2>2. \A s \in Small(n) : s \in Small(n+1) /\ g[s] = h[s]
    <3>1. \A s \in Small(n) : s \in Small(n+1)
      BY <1>1
    <3>2. \A s \in Small(n) : h[s] = IF s = {} THEN 0 ELSE f[Pick(s)] + h[s \ {Pick(s)}]
      BY <2>1 DEF IsSummation
    <3> QED  BY <3>1, <3>2
  <2>3. \A s \in Small(n+1) : s # {} => s \ {Pick(s)} \in Small(n)
    <3> SUFFICES ASSUME NEW s \in Small(n+1), s # {}
                 PROVE  s \ {Pick(s)} \in Small(n)
      OBVIOUS
    <3>1. Pick(s) \in s
      BY DEF Pick
    <3>2. Cardinality(s \ {Pick(s)}) = Cardinality(s) - 1
      BY <1>1, <3>1, FS_RemoveElement
    <3> QED  BY <1>1, <3>2
  <2>4. g = [s \in Small(n+1) |-> IF s = {} THEN 0 ELSE f[Pick(s)] + g[s \ {Pick(s)}]]
    BY <2>2, <2>3
  <2>5. IsSummation(g, f, Small(n+1))
    BY <2>4 DEF IsSummation
  <2> HIDE DEF g
  <2> QED  BY <2>5
<1>4. Bad = {}
  <2> SUFFICES ASSUME Bad # {} PROVE FALSE
    OBVIOUS
  <2>1. PICK n \in Bad : \A m \in Bad : n <= m
    BY SmallestNat
  <2>2. n \in Nat /\ n # 0
    BY <1>2
  <2> HIDE DEF Bad
  <2>3. n - 1 \in Nat /\ n - 1 \notin Bad
    BY <2>1, <2>2
  <2>4. (n - 1) + 1 = n
    BY <2>2
  <2> QED  BY <1>3, <2>1, <2>3, <2>4
<1>5. Small(Cardinality(S)) = SUBSET S
  BY FS_Subset
<1>6. Cardinality(S) \notin Bad /\ Cardinality(S) \in Nat
  BY <1>4, FS_CardinalityType
<1>7. \E h : IsSummation(h, f, SUBSET S)
  BY <1>5, <1>6
<1> QED  BY <1>7 DEF Summation

(* One element at a time.                                                  *)
LEMMA SummationStep ==
  ASSUME NEW f, NEW S, IsFiniteSet(S), NEW s \in SUBSET S
  PROVE  Summation(f, S)[s] =
           IF s = {} THEN 0 ELSE f[Pick(s)] + Summation(f, S)[s \ {Pick(s)}]
<1> DEFINE h == Summation(f, S)
<1>1. IsSummation(h, f, SUBSET S)
  BY SummationExists
<1>2. h[s] = IF s = {} THEN 0 ELSE f[Pick(s)] + h[s \ {Pick(s)}]
  BY <1>1 DEF IsSummation
<1> QED  BY <1>2 DEF h

(* Induction over the subsets of a finite set: a set of counterexamples    *)
(* has one that is empty, or that is none any more without its element     *)
(* Pick(s).                                                                *)
LEMMA SmallestSubset ==
  ASSUME NEW S, IsFiniteSet(S), NEW Bad \in SUBSET (SUBSET S), Bad # {}
  PROVE  \E s \in Bad : s = {} \/ (Pick(s) \in s /\ s \ {Pick(s)} \notin Bad)
<1> DEFINE Sizes == {Cardinality(s) : s \in Bad}
<1>1. \A s \in SUBSET S : IsFiniteSet(s) /\ Cardinality(s) \in Nat
  BY FS_Subset, FS_CardinalityType
<1>2. Sizes \in SUBSET Nat /\ Sizes # {}
  BY <1>1
<1>3. PICK n \in Sizes : \A m \in Sizes : n <= m
  BY <1>2, SmallestNat
<1>4. PICK s \in Bad : Cardinality(s) = n
  OBVIOUS
<1>5. \A t \in Bad : Cardinality(s) <= Cardinality(t)
  BY <1>3, <1>4
<1>6. ASSUME s # {}
      PROVE  Pick(s) \in s /\ s \ {Pick(s)} \notin Bad
  <2> DEFINE t == s \ {Pick(s)}
  <2>1. Pick(s) \in s
    BY <1>6 DEF Pick
  <2>2. Cardinality(t) = Cardinality(s) - 1 /\ Cardinality(s) \in Nat
    BY <1>1, <2>1, FS_RemoveElement
  <2> HIDE DEF t
  <2>3. ~ (Cardinality(s) <= Cardinality(t))
    BY <2>2
  <2>4. t \notin Bad
    BY <1>5, <2>3
  <2> QED  BY <2>1, <2>4 DEF t
<1> QED  BY <1>6

(* Sums of functions that differ in x at most differ by as much as they.   *)
LEMMA SumMoves ==
  ASSUME NEW S, IsFiniteSet(S), NEW f, NEW g, NEW x,
         \A y \in S : f[y] \in Int /\ g[y] \in Int,
         \A y \in S \ {x} : f[y] = g[y]
  PROVE  /\ SumFunctionOnSet(f, S) \in Int
         /\ SumFunctionOnSet(g, S) = SumFunctionOnSet(f, S) + (IF x \in S THEN g[x] - f[x] ELSE 0)
<1> DEFINE F == Summation(f, S)
           G == Summation(g, S)
           Good(s) == F[s] \in Int /\ G[s] = F[s] + (IF x \in s THEN g[x] - f[x] ELSE 0)
           Bad == {s \in SUBSET S : ~ Good(s)}
<1>1. ASSUME NEW s \in SUBSET S
      PROVE  /\ F[s] = IF s = {} THEN 0 ELSE f[Pick(s)] + F[s \ {Pick(s)}]
             /\ G[s] = IF s = {} THEN 0 ELSE g[Pick(s)] + G[s \ {Pick(s)}]
  BY SummationStep
<1>2. Bad = {}
  <2> SUFFICES ASSUME Bad # {} PROVE FALSE
    OBVIOUS
  <2>1. PICK s \in Bad : s = {} \/ (Pick(s) \in s /\ s \ {Pick(s)} \notin Bad)
    BY SmallestSubset
  <2>2. s \in SUBSET S /\ ~ Good(s)
    OBVIOUS
  <2>3. s # {}
    <3> SUFFICES ASSUME s = {} PROVE FALSE
      OBVIOUS
    <3>1. F[s] = 0 /\ G[s] = 0 /\ x \notin s
      BY <1>1, <2>2
    <3> HIDE DEF F, G
    <3> QED  BY <2>2, <3>1
  <2> DEFINE p == Pick(s)
             t == s \ {p}
  <2>4. p \in s /\ t \in SUBSET S /\ Good(t)
    BY <2>1, <2>3
  <2>5. F[s] = f[p] + F[t] /\ G[s] = g[p] + G[t]
    BY <1>1, <2>2, <2>3
  <2>6. f[p] \in Int /\ g[p] \in Int /\ (p # x => f[p] = g[p])
    BY <2>2, <2>4
  <2>7. x \in t <=> x \in s /\ x # p
    OBVIOUS
  <2>8. x \in s => f[x] \in Int /\ g[x] \in Int
    BY <2>2
  <2> HIDE DEF F, G, t, p
  <2> QED  BY <2>2, <2>4, <2>5, <2>6, <2>7, <2>8
<1>3. Good(S)
  BY <1>2
<1> QED  BY <1>3, SumIsSummation

(* A sum of zeros is zero.                                                 *)
LEMMA SumOfZeros ==
  ASSUME NEW S, IsFiniteSet(S), NEW f, \A y \in S : f[y] = 0
  PROVE  SumFunctionOnSet(f, S) = 0
<1> DEFINE F == Summation(f, S)
           Bad == {s \in SUBSET S : F[s] # 0}
<1>1. Bad = {}
  <2> SUFFICES ASSUME Bad # {} PROVE FALSE
    OBVIOUS
  <2>1. PICK s \in Bad : s = {} \/ (Pick(s) \in s /\ s \ {Pick(s)} \notin Bad)
    BY SmallestSubset
  <2>2. s \in SUBSET S
    OBVIOUS
  <2>3. F[s] = IF s = {} THEN 0 ELSE f[Pick(s)] + F[s \ {Pick(s)}]
    BY <2>2, SummationStep
  <2>4. CASE s = {}
    BY <2>3, <2>4
  <2>5. CASE s # {}
    <3>1. F[s \ {Pick(s)}] = 0 /\ f[Pick(s)] = 0
      BY <2>1, <2>2, <2>5
    <3> QED  BY <2>3, <2>5, <3>1
  <2> QED  BY <2>4, <2>5
<1>2. F[S] = 0
  BY <1>1
<1> QED  BY <1>2, SumIsSummation
=============================================================================
