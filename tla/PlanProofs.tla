------------------------------ MODULE PlanProofs ------------------------------
(***************************************************************************)
(* Proofs about the plans that are saved: what the optimizer's loop and    *)
(* the planner's fold compute, for every set of instruments, of portfolios *)
(* and of settings.                                                        *)
(*                                                                         *)
(* Both are recursions over data, and so is a sum.  That a recursion has a *)
(* solution, and what the solution keeps, is proved by induction on the    *)
(* set of arguments for which it holds.                                    *)
(***************************************************************************)
EXTENDS RebalancingProofs, FiniteSetTheorems, WellFoundedInduction

----------------------------------------------------------------------------
(* Induction, stated for sets                                               *)

\* A set of naturals that holds zero and the successor of each member holds all.
LEMMA NatSet ==
  ASSUME NEW T, 0 \in T, \A n \in Nat : n \in T => n + 1 \in T
  PROVE  \A n \in Nat : n \in T
<1> SUFFICES ASSUME NEW k \in Nat, k \notin T PROVE FALSE
  OBVIOUS
<1> DEFINE Bad == Nat \ T
           R == OpToRel(<, Nat)
<1>1. IsWellFoundedOn(R, Nat)
  BY NatLessThanWellFounded, Zenon
<1>2. Bad \subseteq Nat /\ Bad # {}
  OBVIOUS
<1> HIDE DEF R
<1>3. PICK x \in Bad : \A y \in Bad : ~ (<<y, x>> \in R)
  BY <1>1, <1>2, WFMin
<1>4. x # 0 /\ x \in Nat
  OBVIOUS
<1>5. x - 1 \in Nat /\ <<x - 1, x>> \in R
  BY <1>4 DEF R, OpToRel
<1>6. x - 1 \in T
  BY <1>3, <1>5
<1>7. (x - 1) + 1 \in T
  BY <1>5, <1>6
<1> QED BY <1>3, <1>4, <1>7

\* A set that holds every finite set whose subsets it holds holds all finite sets.
LEMMA FiniteSetSet ==
  ASSUME NEW S, IsFiniteSet(S), NEW T,
         \A s \in SUBSET S : (\A r \in SUBSET s : r # s => r \in T) => s \in T
  PROVE  \A s \in SUBSET S : s \in T
<1> DEFINE N == {n \in Nat : \A s \in SUBSET S : Cardinality(s) <= n => s \in T}
<1>f. \A s \in SUBSET S : IsFiniteSet(s) /\ Cardinality(s) \in Nat
  BY FS_Subset, FS_CardinalityType
<1>s. ASSUME NEW s \in SUBSET S, NEW r \in SUBSET s, r # s
      PROVE  r \in SUBSET S /\ Cardinality(r) \in Nat /\ Cardinality(r) < Cardinality(s)
  BY <1>f, <1>s, FS_Subset
<1>1. 0 \in N
  <2> SUFFICES ASSUME NEW s \in SUBSET S, Cardinality(s) <= 0 PROVE s \in T
    OBVIOUS
  <2> QED BY <1>f, <1>s
<1>2. ASSUME NEW n \in Nat, n \in N PROVE n + 1 \in N
  <2> SUFFICES ASSUME NEW s \in SUBSET S, Cardinality(s) <= n + 1 PROVE s \in T
    OBVIOUS
  <2>1. ASSUME NEW r \in SUBSET s, r # s PROVE r \in T
    <3>1. r \in SUBSET S /\ Cardinality(r) \in Nat /\ Cardinality(r) < Cardinality(s)
      BY <2>1, <1>s
    <3>2. Cardinality(r) <= n
      BY <3>1, <1>f
    <3> QED BY <1>2, <3>1, <3>2
  <2> QED BY <2>1
<1> HIDE DEF N
<1>3. \A n \in Nat : n \in N
  BY <1>1, <1>2, NatSet
<1> QED BY <1>3, <1>f DEF N

----------------------------------------------------------------------------
(* Sums                                                                     *)

Pick(s) == CHOOSE x \in s : TRUE

IsSum(h, f, S) ==
  h = [s \in SUBSET S |-> IF s = {} THEN 0 ELSE f[Pick(s)] + h[s \ {Pick(s)}]]

LEMMA PickIn == ASSUME NEW s, s # {} PROVE Pick(s) \in s
BY DEF Pick

LEMMA SumDef == ASSUME NEW f, NEW S PROVE SumOf(f, S) = (CHOOSE h : IsSum(h, f, S))[S]
BY DEF SumOf, MapThenSumSet, MapThenFoldSet, Pick, IsSum

\* The recursion of MapThenFoldSet has a solution over a finite set,
LEMMA SumExists ==
  ASSUME NEW f, NEW S, IsFiniteSet(S)
  PROVE  \E h : IsSum(h, f, S)
<1> DEFINE D(n) == {s \in SUBSET S : Cardinality(s) <= n}
           Body(h, s) == IF s = {} THEN 0 ELSE f[Pick(s)] + h[s \ {Pick(s)}]
           N == {n \in Nat : \E h : h = [s \in D(n) |-> Body(h, s)]}
<1>f. \A s \in SUBSET S : IsFiniteSet(s) /\ Cardinality(s) \in Nat
        /\ Cardinality(s) <= Cardinality(S)
  BY FS_Subset, FS_CardinalityType
<1>s. ASSUME NEW s \in SUBSET S, s # {}
      PROVE  /\ s \ {Pick(s)} \in SUBSET S
             /\ Cardinality(s \ {Pick(s)}) = Cardinality(s) - 1
  <2>1. Pick(s) \in s /\ IsFiniteSet(s)
    BY <1>s, <1>f, PickIn
  <2> QED BY <2>1, FS_RemoveElement
<1>1. 0 \in N
  <2> DEFINE h == [s \in D(0) |-> 0]
  <2>1. \A s \in D(0) : s = {}
    <3> SUFFICES ASSUME NEW s \in SUBSET S, Cardinality(s) <= 0 PROVE s = {}
      OBVIOUS
    <3>1. Cardinality(s) = 0
      BY <1>f
    <3> QED BY <1>f, <3>1, FS_EmptySet
  <2>2. h = [s \in D(0) |-> Body(h, s)]
    BY <2>1
  <2> QED BY <2>2
<1>2. ASSUME NEW n \in Nat, n \in N PROVE n + 1 \in N
  <2>1. PICK g : g = [s \in D(n) |-> Body(g, s)]
    BY <1>2
  <2> DEFINE h == [s \in D(n + 1) |-> Body(g, s)]
  <2>2. ASSUME NEW s \in D(n + 1) PROVE h[s] = Body(h, s)
    <3>1. CASE s = {}
      BY <3>1
    <3>2. CASE s # {}
      <4> DEFINE r == s \ {Pick(s)}
      <4>1. r \in SUBSET S /\ Cardinality(r) = Cardinality(s) - 1
        BY <1>s, <3>2
      <4>2. r \in D(n) /\ r \in D(n + 1)
        BY <1>f, <4>1
      <4>3. g[r] = Body(g, r) /\ h[r] = Body(g, r)
        BY <2>1, <4>2
      <4> QED BY <3>2, <4>3
    <3> QED BY <3>1, <3>2
  <2>3. h = [s \in D(n + 1) |-> h[s]]
    OBVIOUS
  <2> HIDE DEF h, D, Body
  <2>4. h = [s \in D(n + 1) |-> Body(h, s)]
    BY <2>2, <2>3
  <2>5. n + 1 \in Nat
    OBVIOUS
  <2> QED BY <2>4, <2>5
<1> HIDE DEF N
<1>3. Cardinality(S) \in Nat /\ \A n \in Nat : n \in N
  BY <1>1, <1>2, NatSet, FS_CardinalityType
<1>4. D(Cardinality(S)) = SUBSET S
  BY <1>f
<1>5. \E h : h = [s \in D(Cardinality(S)) |-> Body(h, s)]
  BY <1>3 DEF N
<1> QED BY <1>4, <1>5 DEF IsSum

\* and one only.
LEMMA SumUnique ==
  ASSUME NEW f, NEW S, IsFiniteSet(S), NEW T \in SUBSET S, NEW g, NEW h,
         IsSum(g, f, S), IsSum(h, f, T)
  PROVE  \A s \in SUBSET T : g[s] = h[s]
<1> DEFINE Same == {s \in SUBSET T : g[s] = h[s]}
<1>1. IsFiniteSet(T)
  BY FS_Subset
<1>2. ASSUME NEW s \in SUBSET T, \A r \in SUBSET s : r # s => r \in Same
      PROVE  s \in Same
  <2>1. CASE s = {}
    BY <2>1 DEF IsSum
  <2>2. CASE s # {}
    <3> DEFINE r == s \ {Pick(s)}
    <3>1. r \in SUBSET s /\ r # s /\ s \in SUBSET S
      BY <2>2, PickIn
    <3>2. g[r] = h[r]
      BY <1>2, <3>1
    <3>3. g[s] = f[Pick(s)] + g[r] /\ h[s] = f[Pick(s)] + h[r]
      BY <2>2, <3>1 DEF IsSum
    <3> QED BY <3>2, <3>3
  <2> QED BY <2>1, <2>2
<1> HIDE DEF Same
<1>3. \A s \in SUBSET T : s \in Same
  BY <1>1, <1>2, FiniteSetSet
<1> QED BY <1>3 DEF Same

LEMMA SumEmpty == ASSUME NEW f PROVE SumOf(f, {}) = 0
<1>1. IsFiniteSet({}) /\ {} \in SUBSET {}
  BY FS_EmptySet
<1>2. PICK h : IsSum(h, f, {}) /\ h = CHOOSE g : IsSum(g, f, {})
  BY <1>1, SumExists
<1> QED BY <1>1, <1>2, SumDef DEF IsSum

LEMMA SumPick ==
  ASSUME NEW f, NEW S, IsFiniteSet(S), S # {}
  PROVE  SumOf(f, S) = f[Pick(S)] + SumOf(f, S \ {Pick(S)})
<1> DEFINE T == S \ {Pick(S)}
<1>1. T \in SUBSET S /\ IsFiniteSet(T)
  BY FS_Subset
<1>2. PICK g : IsSum(g, f, S) /\ g = CHOOSE k : IsSum(k, f, S)
  BY SumExists
<1>3. PICK h : IsSum(h, f, T) /\ h = CHOOSE k : IsSum(k, f, T)
  BY <1>1, SumExists
<1>4. SumOf(f, S) = g[S] /\ SumOf(f, T) = h[T]
  BY <1>2, <1>3, SumDef
<1>5. g[T] = h[T]
  BY <1>1, <1>2, <1>3, SumUnique
<1>6. g[S] = f[Pick(S)] + g[T]
  BY <1>2 DEF IsSum
<1> QED BY <1>4, <1>5, <1>6

\* What holds of the sum over a set when it holds of a sum over it without some element
\* holds of every sum.
LEMMA SumTyped ==
  ASSUME NEW S, IsFiniteSet(S), NEW f, \A x \in S : f[x] \in Int
  PROVE  \A s \in SUBSET S : SumOf(f, s) \in Int
<1> DEFINE T == {s \in SUBSET S : SumOf(f, s) \in Int}
<1>1. ASSUME NEW s \in SUBSET S, \A r \in SUBSET s : r # s => r \in T
      PROVE  s \in T
  <2>1. CASE s = {}
    BY <2>1, SumEmpty
  <2>2. CASE s # {}
    <3>1. Pick(s) \in s /\ s \ {Pick(s)} \in SUBSET s /\ s \ {Pick(s)} # s
      BY <2>2, PickIn
    <3>2. SumOf(f, s \ {Pick(s)}) \in Int /\ f[Pick(s)] \in Int
      BY <1>1, <3>1
    <3>3. IsFiniteSet(s)
      BY FS_Subset
    <3>4. SumOf(f, s) = f[Pick(s)] + SumOf(f, s \ {Pick(s)})
      BY <2>2, <3>3, SumPick
    <3> QED BY <3>2, <3>4
  <2> QED BY <2>1, <2>2
<1> HIDE DEF T
<1>2. \A s \in SUBSET S : s \in T
  BY <1>1, FiniteSetSet
<1> QED BY <1>2 DEF T

\* Any element may be taken out first.
LEMMA SumRemove ==
  ASSUME NEW S, IsFiniteSet(S), NEW f, \A x \in S : f[x] \in Int
  PROVE  \A s \in SUBSET S : \A x \in s : SumOf(f, s) = f[x] + SumOf(f, s \ {x})
<1> DEFINE T == {s \in SUBSET S : \A x \in s : SumOf(f, s) = f[x] + SumOf(f, s \ {x})}
<1>1. ASSUME NEW s \in SUBSET S, \A r \in SUBSET s : r # s => r \in T
      PROVE  s \in T
  <2> SUFFICES ASSUME NEW x \in s PROVE SumOf(f, s) = f[x] + SumOf(f, s \ {x})
    OBVIOUS
  <2> DEFINE p == Pick(s)
  <2>1. p \in s /\ IsFiniteSet(s)
    BY PickIn, FS_Subset
  <2>2. SumOf(f, s) = f[p] + SumOf(f, s \ {p})
    BY <2>1, SumPick
  <2> HIDE DEF p
  <2>3. CASE x = p
    BY <2>2, <2>3
  <2>4. CASE x # p
    <3>1. s \ {p} \in T /\ s \ {x} \in T
      BY <1>1, <2>1
    <3>2. SumOf(f, s \ {p}) = f[x] + SumOf(f, (s \ {p}) \ {x})
      BY <2>4, <3>1
    <3>3. SumOf(f, s \ {x}) = f[p] + SumOf(f, (s \ {x}) \ {p})
      BY <2>1, <2>4, <3>1
    <3>4. (s \ {p}) \ {x} = (s \ {x}) \ {p} /\ (s \ {p}) \ {x} \in SUBSET S
      OBVIOUS
    <3>5. SumOf(f, (s \ {p}) \ {x}) \in Int
      BY <3>4, SumTyped
    <3>6. f[x] \in Int /\ f[p] \in Int
      BY <2>1
    <3>7. /\ SumOf(f, s) = f[p] + (f[x] + SumOf(f, (s \ {p}) \ {x}))
          /\ SumOf(f, s \ {x}) = f[p] + SumOf(f, (s \ {p}) \ {x})
      BY <2>2, <3>2, <3>3, <3>4
    <3>8. \A a, b, c \in Int : a + (b + c) = b + (a + c)
      OBVIOUS
    <3> QED BY <3>5, <3>6, <3>7, <3>8
  <2> QED BY <2>3, <2>4
<1> HIDE DEF T
<1>2. \A s \in SUBSET S : s \in T
  BY <1>1, FiniteSetSet
<1> QED BY <1>2 DEF T

\* A sum is no more than one whose terms are no less,
LEMMA SumMonotone ==
  ASSUME NEW S, IsFiniteSet(S), NEW f, NEW g,
         \A x \in S : f[x] \in Int /\ g[x] \in Int /\ f[x] <= g[x]
  PROVE  SumOf(f, S) \in Int /\ SumOf(g, S) \in Int /\ SumOf(f, S) <= SumOf(g, S)
<1> DEFINE T == {s \in SUBSET S : SumOf(f, s) <= SumOf(g, s)}
<1>t. \A s \in SUBSET S : SumOf(f, s) \in Int /\ SumOf(g, s) \in Int
  BY SumTyped
<1>1. ASSUME NEW s \in SUBSET S, \A r \in SUBSET s : r # s => r \in T
      PROVE  s \in T
  <2>1. CASE s = {}
    BY <2>1, SumEmpty
  <2>2. CASE s # {}
    <3> PICK x : x = Pick(s)
      OBVIOUS
    <3>1. x \in s /\ s \ {x} \in SUBSET s /\ s \ {x} # s /\ IsFiniteSet(s)
      BY <2>2, PickIn, FS_Subset
    <3>2. SumOf(f, s \ {x}) <= SumOf(g, s \ {x})
      BY <1>1, <3>1
    <3>3. SumOf(f, s) = f[x] + SumOf(f, s \ {x}) /\ SumOf(g, s) = g[x] + SumOf(g, s \ {x})
      BY <2>2, <3>1, SumPick
    <3>4. /\ SumOf(f, s \ {x}) \in Int /\ SumOf(g, s \ {x}) \in Int
          /\ f[x] \in Int /\ g[x] \in Int /\ f[x] <= g[x]
      BY <1>t, <3>1
    <3>5. SumOf(f, s) <= SumOf(g, s)
      BY <3>2, <3>3, <3>4
    <3> QED BY <3>5
  <2> QED BY <2>1, <2>2
<1> HIDE DEF T
<1>2. S \in T
  BY <1>1, FiniteSetSet
<1> QED BY <1>2, <1>t DEF T

\* and the same as one whose terms are the same.
LEMMA SumSame ==
  ASSUME NEW S, IsFiniteSet(S), NEW f, NEW g, \A x \in S : f[x] \in Int /\ f[x] = g[x]
  PROVE  SumOf(f, S) = SumOf(g, S)
<1>1. SumOf(f, S) \in Int /\ SumOf(g, S) \in Int /\ SumOf(f, S) <= SumOf(g, S)
  BY SumMonotone
<1>2. SumOf(g, S) <= SumOf(f, S)
  BY SumMonotone
<1> QED BY <1>1, <1>2

LEMMA SumAdd ==
  ASSUME NEW S, IsFiniteSet(S), NEW f, NEW g, NEW h,
         \A x \in S : f[x] \in Int /\ g[x] \in Int /\ h[x] = f[x] + g[x]
  PROVE  SumOf(h, S) = SumOf(f, S) + SumOf(g, S)
<1> DEFINE T == {s \in SUBSET S : SumOf(h, s) = SumOf(f, s) + SumOf(g, s)}
<1>t. \A s \in SUBSET S : SumOf(f, s) \in Int /\ SumOf(g, s) \in Int
  BY SumTyped
<1>1. ASSUME NEW s \in SUBSET S, \A r \in SUBSET s : r # s => r \in T
      PROVE  s \in T
  <2>1. CASE s = {}
    BY <2>1, SumEmpty
  <2>2. CASE s # {}
    <3> PICK x : x = Pick(s)
      OBVIOUS
    <3>1. x \in s /\ s \ {x} \in SUBSET s /\ s \ {x} # s /\ IsFiniteSet(s)
      BY <2>2, PickIn, FS_Subset
    <3>2. SumOf(h, s \ {x}) = SumOf(f, s \ {x}) + SumOf(g, s \ {x})
      BY <1>1, <3>1
    <3>3. /\ SumOf(f, s) = f[x] + SumOf(f, s \ {x}) /\ SumOf(g, s) = g[x] + SumOf(g, s \ {x})
          /\ SumOf(h, s) = h[x] + SumOf(h, s \ {x})
      BY <2>2, <3>1, SumPick
    <3>4. /\ SumOf(f, s \ {x}) \in Int /\ SumOf(g, s \ {x}) \in Int
          /\ f[x] \in Int /\ g[x] \in Int /\ h[x] = f[x] + g[x]
      BY <1>t, <3>1
    <3>5. SumOf(h, s) = SumOf(f, s) + SumOf(g, s)
      BY <3>2, <3>3, <3>4
    <3> QED BY <3>5
  <2> QED BY <2>1, <2>2
<1> HIDE DEF T
<1>2. S \in T
  BY <1>1, FiniteSetSet
<1> QED BY <1>2 DEF T

LEMMA SumScale ==
  ASSUME NEW S, IsFiniteSet(S), NEW f, NEW h, NEW c \in Int,
         \A x \in S : f[x] \in Int /\ h[x] = c * f[x]
  PROVE  SumOf(h, S) = c * SumOf(f, S)
<1> DEFINE T == {s \in SUBSET S : SumOf(h, s) = c * SumOf(f, s)}
<1>t. \A s \in SUBSET S : SumOf(f, s) \in Int
  BY SumTyped
<1>1. ASSUME NEW s \in SUBSET S, \A r \in SUBSET s : r # s => r \in T
      PROVE  s \in T
  <2>1. CASE s = {}
    BY <2>1, SumEmpty
  <2>2. CASE s # {}
    <3> PICK x : x = Pick(s)
      OBVIOUS
    <3>1. x \in s /\ s \ {x} \in SUBSET s /\ s \ {x} # s /\ IsFiniteSet(s)
      BY <2>2, PickIn, FS_Subset
    <3>2. SumOf(h, s \ {x}) = c * SumOf(f, s \ {x})
      BY <1>1, <3>1
    <3>3. /\ SumOf(f, s) = f[x] + SumOf(f, s \ {x})
          /\ SumOf(h, s) = h[x] + SumOf(h, s \ {x})
      BY <2>2, <3>1, SumPick
    <3>4. SumOf(f, s \ {x}) \in Int /\ f[x] \in Int /\ h[x] = c * f[x]
      BY <1>t, <3>1
    <3>5. \A a, b \in Int : c * a + c * b = c * (a + b)
      OBVIOUS
    <3>6. SumOf(h, s) = c * SumOf(f, s)
      BY <3>2, <3>3, <3>4, <3>5
    <3> QED BY <3>6
  <2> QED BY <2>1, <2>2
<1> HIDE DEF T
<1>2. S \in T
  BY <1>1, FiniteSetSet
<1> QED BY <1>2 DEF T

\* Terms of zero may be left out.
LEMMA SumSupport ==
  ASSUME NEW S, IsFiniteSet(S), NEW f, \A x \in S : f[x] \in Int,
         NEW Z \in SUBSET S, \A x \in S \ Z : f[x] = 0
  PROVE  SumOf(f, S) = SumOf(f, Z)
<1> DEFINE T == {s \in SUBSET S : Z \subseteq s => SumOf(f, s) = SumOf(f, Z)}
<1>1. ASSUME NEW s \in SUBSET S, \A r \in SUBSET s : r # s => r \in T
      PROVE  s \in T
  <2>1. CASE ~(Z \subseteq s) \/ s = Z
    BY <2>1
  <2>2. CASE Z \subseteq s /\ s # Z
    <3>1. PICK x \in s : x \notin Z
      BY <2>2
    <3>2. s \ {x} \in SUBSET s /\ s \ {x} # s /\ Z \subseteq s \ {x} /\ s \ {x} \in SUBSET S
      BY <2>2, <3>1
    <3>3. SumOf(f, s \ {x}) = SumOf(f, Z)
      BY <1>1, <3>2
    <3>4. SumOf(f, s) = f[x] + SumOf(f, s \ {x}) /\ f[x] = 0
      BY <3>1, SumRemove
    <3>5. SumOf(f, s \ {x}) \in Int
      BY <3>2, SumTyped
    <3>6. SumOf(f, s) = SumOf(f, Z)
      BY <3>3, <3>4, <3>5
    <3> QED BY <3>6
  <2> QED BY <2>1, <2>2
<1> HIDE DEF T
<1>2. S \in T
  BY <1>1, FiniteSetSet
<1> QED BY <1>2 DEF T

\* A sum of naturals is one, and no term is more than the sum.
LEMMA SumNat ==
  ASSUME NEW S, IsFiniteSet(S), NEW f, \A x \in S : f[x] \in Nat
  PROVE  SumOf(f, S) \in Nat /\ \A x \in S : f[x] <= SumOf(f, S)
<1> DEFINE T == {s \in SUBSET S : SumOf(f, s) \in Nat}
<1>t. \A s \in SUBSET S : SumOf(f, s) \in Int
  BY SumTyped
<1>1. ASSUME NEW s \in SUBSET S, \A r \in SUBSET s : r # s => r \in T
      PROVE  s \in T
  <2>1. CASE s = {}
    BY <2>1, SumEmpty
  <2>2. CASE s # {}
    <3> PICK x : x = Pick(s)
      OBVIOUS
    <3>1. x \in s /\ s \ {x} \in SUBSET s /\ s \ {x} # s /\ IsFiniteSet(s)
      BY <2>2, PickIn, FS_Subset
    <3>2. SumOf(f, s \ {x}) \in Nat /\ f[x] \in Nat
      BY <1>1, <3>1
    <3>3. SumOf(f, s) = f[x] + SumOf(f, s \ {x})
      BY <2>2, <3>1, SumPick
    <3>4. SumOf(f, s) \in Nat
      BY <3>2, <3>3
    <3> QED BY <3>4
  <2> QED BY <2>1, <2>2
<1> HIDE DEF T
<1>2. \A s \in SUBSET S : s \in T
  BY <1>1, FiniteSetSet
<1>3. ASSUME NEW x \in S PROVE f[x] <= SumOf(f, S)
  <2>1. SumOf(f, S \ {x}) \in Nat /\ S \ {x} \in SUBSET S
    BY <1>2 DEF T
  <2>2. SumOf(f, S) = f[x] + SumOf(f, S \ {x})
    BY SumRemove
  <2> QED BY <2>1, <2>2
<1> QED BY <1>2, <1>3 DEF T

----------------------------------------------------------------------------
(* A round of the optimizer                                                 *)

\* What the optimizer is called with.
WellFormed(assets, constraints) ==
  /\ IsFiniteSet(DOMAIN assets)
  /\ \A i \in DOMAIN assets : assets[i] \in AssetInput
  /\ constraints \in RiskProfile

\* The parts of the loop of optimize, named.
Distributions(assets) ==
  [weights : [DOMAIN assets -> Nat], remaining : Int, uncapped : SUBSET Candidates(assets)]
Share(d, assets, constraints) ==
  Shares(d.weights, d.remaining, d.uncapped, assets, constraints)
Distributed(d, assets, constraints) == SumOf(Share(d, assets, constraints), d.uncapped)
Grown(d, assets, constraints) ==
  [i \in DOMAIN assets |->
     d.weights[i] + IF i \in d.uncapped THEN Share(d, assets, constraints)[i] ELSE 0]
NextRound(d, assets, constraints) ==
  [weights |-> Grown(d, assets, constraints),
   remaining |-> d.remaining - Distributed(d, assets, constraints),
   uncapped |-> Uncapped(Grown(d, assets, constraints), d.uncapped, assets, constraints)]
LoopBody(L, d, assets, constraints) ==
  IF d.remaining <= 0 \/ d.uncapped = {} THEN d.weights
  ELSE IF Distributed(d, assets, constraints) <= 0 THEN Grown(d, assets, constraints)
  ELSE L[NextRound(d, assets, constraints)]
IsLoop(L, assets, constraints) ==
  L = [d \in Distributions(assets) |-> LoopBody(L, d, assets, constraints)]
FirstRound(assets, constraints) ==
  [weights |-> ManualWeights(assets, constraints),
   remaining |-> Investable(constraints)
                   - SumOf(ManualWeights(assets, constraints), DOMAIN assets),
   uncapped |-> Candidates(assets)]

LEMMA OptimizeDef ==
  ASSUME NEW assets, NEW constraints
  PROVE  optimize(assets, constraints)
           = (CHOOSE L : IsLoop(L, assets, constraints))[FirstRound(assets, constraints)]
BY DEF optimize, IsLoop, LoopBody, Distributions, Share, Distributed, Grown, NextRound, FirstRound

LEMMA CapTyped ==
  ASSUME NEW assets, NEW constraints, WellFormed(assets, constraints), NEW i \in DOMAIN assets
  PROVE  Cap(assets[i], constraints) \in Weights
<1>1. assets[i] \in AssetInput /\ constraints \in RiskProfile /\ Whole \in Nat
  BY SettingsAssumption DEF WellFormed
<1>2. /\ assets[i].max_weight \in Weights \cup {NoWeight}
      /\ constraints.max_position_weight \in Weights
  BY <1>1 DEF AssetInput, RiskProfile
<1>3. (IF assets[i].max_weight \in {NoWeight, 0} THEN Whole ELSE assets[i].max_weight) \in Weights
  BY <1>1, <1>2 DEF Weights
<1> QED BY <1>2, <1>3 DEF Cap, Least

LEMMA Floor ==
  ASSUME NEW a \in Nat, NEW b \in Nat, b > 0
  PROVE  a \div b \in Nat /\ b * (a \div b) <= a
<1>1. a \div b \in Nat
  OBVIOUS
<1>2. PICK q \in Nat : q = a \div b
  BY <1>1
<1>3. b * q <= a
  BY <1>2
<1> QED BY <1>2, <1>3

\* The scores among which a round divides, and whether it divides them for i without a rest.
ScoreSum(d, assets) == SumOf([i \in d.uncapped |-> assets[i].score], d.uncapped)
ExactFor(i, d, assets) == (d.remaining * assets[i].score) % ScoreSum(d, assets) = 0

\* A share takes nobody over its cap, and is the proposed one for whom it leaves below it.
LEMMA ShareFits ==
  ASSUME NEW assets, NEW constraints, WellFormed(assets, constraints),
         NEW d \in Distributions(assets), d.remaining > 0, NEW i \in d.uncapped
  PROVE  LET share == Share(d, assets, constraints)[i]
             cap == Cap(assets[i], constraints)
         IN /\ ScoreSum(d, assets) \in Nat /\ ScoreSum(d, assets) > 0
            /\ d.remaining \in Nat /\ d.weights[i] \in Nat
            /\ assets[i].score \in Nat /\ assets[i].score > 0
            /\ share \in Nat
            /\ share = 0 \/ d.weights[i] + share <= cap
            /\ ScoreSum(d, assets) * share <= d.remaining * assets[i].score
            /\ ExactFor(i, d, assets) /\ d.weights[i] + share < cap
                 => ScoreSum(d, assets) * share = d.remaining * assets[i].score
<1> DEFINE score == [j \in d.uncapped |-> assets[j].score]
           total == SumOf(score, d.uncapped)
           share == Share(d, assets, constraints)[i]
<1>1. /\ d.uncapped \subseteq Candidates(assets) /\ d.uncapped \subseteq DOMAIN assets
      /\ d.remaining \in Nat /\ d.weights \in [DOMAIN assets -> Nat]
  BY DEF Distributions, Candidates
<1>2. IsFiniteSet(d.uncapped)
  BY <1>1, FS_Subset DEF WellFormed
<1>3. \A j \in d.uncapped : score[j] \in Nat /\ score[j] > 0
  <2>1. \A j \in d.uncapped : assets[j].score \in Weights /\ assets[j].score > 0
    BY <1>1 DEF WellFormed, AssetInput, Candidates
  <2> QED BY <2>1, SettingsAssumption DEF Weights
<1>4. total \in Nat /\ total > 0
  <2>1. total \in Nat /\ \A j \in d.uncapped : score[j] <= total
    BY <1>2, <1>3, SumNat
  <2> QED BY <1>3, <2>1
<1>5. PICK s \in Nat, r \in Nat, w \in Nat, k \in Nat, t \in Nat :
        /\ s = assets[i].score /\ s > 0 /\ r = d.remaining /\ w = d.weights[i]
        /\ k = Cap(assets[i], constraints) /\ t = total /\ t > 0
  <2>1. Cap(assets[i], constraints) \in Nat
    BY <1>1, CapTyped DEF Weights
  <2>2. score[i] = assets[i].score
    OBVIOUS
  <2> QED BY <1>1, <1>3, <1>4, <2>1, <2>2
<1>6. PICK n \in Nat : n = r * s
  OBVIOUS
<1>7. PICK p \in Nat : p = n \div t /\ t * p <= n /\ (n % t = 0 => t * p = n)
  <2>1. PICK p \in Nat : p = n \div t
    BY <1>5, Floor
  <2>2. t * p <= n
    BY <1>5, <2>1, Floor
  <2>3. n % t = 0 => t * p = n
    BY <1>5, <2>1
  <2> QED BY <2>1, <2>2, <2>3
<1>8. share = Least(p, Most(0, k - w))
  BY <1>5, <1>6, <1>7 DEF Share, Shares
<1>9. ScoreSum(d, assets) = t /\ (ExactFor(i, d, assets) => n % t = 0)
  BY <1>5, <1>6 DEF ScoreSum, ExactFor
<1>10. PICK h \in Nat : /\ h = share /\ h <= p /\ (h = 0 \/ w + h <= k)
                        /\ w + h < k => h = p
  <2>1. share \in Nat /\ share <= p /\ (share = 0 \/ w + share <= k)
          /\ (w + share < k => share = p)
    <3> HIDE DEF share
    <3> QED BY <1>8 DEF Least, Most
  <2> QED BY <2>1
<1>11. t * h <= n
  <2>1. t * (p - h) >= 0
    BY <1>10
  <2>2. t * (p - h) = t * p - t * h
    OBVIOUS
  <2> QED BY <1>7, <2>1, <2>2
<1> HIDE DEF share, total, score
<1>12. ExactFor(i, d, assets) /\ w + h < k => t * h = n
  BY <1>7, <1>9, <1>10
<1> QED BY <1>5, <1>6, <1>9, <1>10, <1>11, <1>12 DEF share

\* What a round gives out is no more than what remained, and takes nobody over its cap.
LEMMA RoundShares ==
  ASSUME NEW assets, NEW constraints, WellFormed(assets, constraints),
         NEW d \in Distributions(assets), d.remaining > 0, d.uncapped # {}
  PROVE  /\ \A i \in d.uncapped :
              /\ Share(d, assets, constraints)[i] \in Nat
              /\ \/ Share(d, assets, constraints)[i] = 0
                 \/ d.weights[i] + Share(d, assets, constraints)[i]
                      <= Cap(assets[i], constraints)
         /\ IsFiniteSet(d.uncapped)
         /\ Distributed(d, assets, constraints) \in Nat
         /\ Distributed(d, assets, constraints) <= d.remaining
<1> DEFINE share == Share(d, assets, constraints)
           score == [i \in d.uncapped |-> assets[i].score]
<1>1. IsFiniteSet(d.uncapped)
  BY FS_Subset DEF WellFormed, Distributions, Candidates
<1>2. PICK r \in Nat, t \in Nat :
        /\ r = d.remaining /\ t = ScoreSum(d, assets) /\ t > 0
        /\ \A i \in d.uncapped : /\ score[i] \in Nat
                                 /\ share[i] \in Nat
                                 /\ t * share[i] <= r * score[i]
  <2>1. \A i \in d.uncapped :
          /\ ScoreSum(d, assets) \in Nat /\ ScoreSum(d, assets) > 0 /\ d.remaining \in Nat
          /\ score[i] \in Nat /\ share[i] \in Nat
          /\ ScoreSum(d, assets) * share[i] <= d.remaining * score[i]
    BY ShareFits
  <2> HIDE DEF score, share
  <2> QED BY <2>1
<1>3. \A i \in d.uncapped :
        share[i] = 0 \/ d.weights[i] + share[i] <= Cap(assets[i], constraints)
  BY ShareFits
<1>4. Distributed(d, assets, constraints) = SumOf(share, d.uncapped)
  BY DEF Distributed
<1>5. SumOf(score, d.uncapped) = t
  BY <1>2 DEF ScoreSum
<1> HIDE DEF share, score
<1>6. PICK s \in Nat : s = SumOf(share, d.uncapped)
  BY <1>1, <1>2, SumNat
<1>7. s <= r
  <2> DEFINE f == [i \in d.uncapped |-> t * share[i]]
             g == [i \in d.uncapped |-> r * score[i]]
  <2>1. \A i \in d.uncapped : f[i] \in Int /\ g[i] \in Int /\ f[i] <= g[i]
    BY <1>2
  <2>2. SumOf(f, d.uncapped) <= SumOf(g, d.uncapped)
    BY <1>1, <2>1, SumMonotone
  <2>3. SumOf(f, d.uncapped) = t * SumOf(share, d.uncapped)
    BY <1>1, <1>2, SumScale
  <2>4. SumOf(g, d.uncapped) = r * SumOf(score, d.uncapped)
    BY <1>1, <1>2, SumScale
  <2> HIDE DEF f, g
  <2>5. t * s <= r * t
    BY <1>5, <1>6, <2>2, <2>3, <2>4
  <2> SUFFICES ASSUME r + 1 <= s PROVE FALSE
    OBVIOUS
  <2>6. t * (r + 1) <= t * s
    OBVIOUS
  <2>7. t * (r + 1) = r * t + t
    OBVIOUS
  <2> QED BY <1>2, <2>5, <2>6, <2>7
<1> QED BY <1>1, <1>2, <1>3, <1>4, <1>6, <1>7 DEF share

\* A round takes from what remains what it adds to the weights.
LEMMA RoundKeeps ==
  ASSUME NEW assets, NEW constraints, WellFormed(assets, constraints),
         NEW d \in Distributions(assets), d.remaining > 0, d.uncapped # {}
  PROVE  /\ Grown(d, assets, constraints) \in [DOMAIN assets -> Nat]
         /\ SumOf(Grown(d, assets, constraints), DOMAIN assets)
              = SumOf(d.weights, DOMAIN assets) + Distributed(d, assets, constraints)
         /\ NextRound(d, assets, constraints) \in Distributions(assets)
<1> DEFINE D == DOMAIN assets
           share == Share(d, assets, constraints)
           more == [i \in D |-> IF i \in d.uncapped THEN share[i] ELSE 0]
           grown == Grown(d, assets, constraints)
<1>1. /\ \A i \in d.uncapped : share[i] \in Nat
      /\ Distributed(d, assets, constraints) \in Nat
  BY RoundShares
<1>2. /\ d.weights \in [D -> Nat] /\ d.uncapped \subseteq Candidates(assets)
      /\ d.uncapped \in SUBSET D /\ d.remaining \in Int /\ IsFiniteSet(D)
  BY DEF Distributions, Candidates, WellFormed
<1>d. Distributed(d, assets, constraints) = SumOf(share, d.uncapped)
  BY DEF Distributed
<1>g. grown = [i \in D |-> d.weights[i] + more[i]]
  BY DEF Grown
<1> HIDE DEF share, D, grown
<1>3. \A i \in D : more[i] \in Nat
  BY <1>1
<1>m. /\ \A i \in d.uncapped : more[i] = share[i]
      /\ \A i \in D \ d.uncapped : more[i] = 0
  BY <1>2
<1> HIDE DEF more
<1>4. grown \in [D -> Nat] /\ \A i \in D : grown[i] = d.weights[i] + more[i]
  BY <1>2, <1>3, <1>g
<1>5. SumOf(grown, D) = SumOf(d.weights, D) + SumOf(more, D)
  BY <1>2, <1>3, <1>4, SumAdd
<1>6. SumOf(more, D) = SumOf(more, d.uncapped)
  BY <1>2, <1>3, <1>m, SumSupport
<1>7. SumOf(more, d.uncapped) = SumOf(share, d.uncapped)
  <2>1. IsFiniteSet(d.uncapped)
    BY <1>2, FS_Subset
  <2>2. \A i \in d.uncapped : more[i] \in Int /\ more[i] = share[i]
    BY <1>1, <1>m
  <2> QED BY <2>1, <2>2, SumSame
<1>8. NextRound(d, assets, constraints) \in Distributions(assets)
  <2>1. Uncapped(grown, d.uncapped, assets, constraints) \subseteq Candidates(assets)
    BY <1>2 DEF Uncapped
  <2> QED BY <1>1, <1>2, <1>4, <2>1 DEF NextRound, Distributions, grown, D
<1> QED BY <1>4, <1>5, <1>6, <1>7, <1>8, <1>d DEF grown, D

----------------------------------------------------------------------------
(* The loop of the optimizer                                                *)

\* The recursion of optimize has a solution: what remains falls with every round,
\* so a solution for what remains up to n gives one for n + 1 ...
UpTo(n, assets) == {d \in Distributions(assets) : d.remaining <= n}
IsLoopUpTo(n, L, assets, constraints) ==
  L = [d \in UpTo(n, assets) |-> LoopBody(L, d, assets, constraints)]

\* Another round is asked for only with less that remains.
LEMMA LoopDescends ==
  ASSUME NEW assets, NEW constraints, WellFormed(assets, constraints),
         NEW d \in Distributions(assets), NEW g, NEW h,
         \A e \in Distributions(assets) : e.remaining < d.remaining => g[e] = h[e],
         d.remaining <= 0 => g = h
  PROVE  LoopBody(g, d, assets, constraints) = LoopBody(h, d, assets, constraints)
<1>1. CASE d.remaining <= 0 \/ d.uncapped = {} \/ Distributed(d, assets, constraints) <= 0
  BY <1>1 DEF LoopBody
<1>2. CASE ~(d.remaining <= 0 \/ d.uncapped = {} \/ Distributed(d, assets, constraints) <= 0)
  <2>1. d.remaining \in Int
    BY DEF Distributions
  <2>2. d.remaining > 0 /\ d.uncapped # {} /\ ~(Distributed(d, assets, constraints) <= 0)
    BY <1>2, <2>1
  <2>3. /\ Distributed(d, assets, constraints) \in Nat
        /\ NextRound(d, assets, constraints) \in Distributions(assets)
    BY <2>2, RoundShares, RoundKeeps
  <2>4. NextRound(d, assets, constraints).remaining
          = d.remaining - Distributed(d, assets, constraints)
    BY DEF NextRound
  <2>5. NextRound(d, assets, constraints).remaining < d.remaining
    BY <2>1, <2>2, <2>3, <2>4
  <2> QED BY <1>2, <2>3, <2>5 DEF LoopBody
<1> QED BY <1>1, <1>2

LEMMA LoopUpToExists ==
  ASSUME NEW assets, NEW constraints, WellFormed(assets, constraints)
  PROVE  \A n \in Nat : \E L : IsLoopUpTo(n, L, assets, constraints)
<1> DEFINE N == {n \in Nat : \E L : IsLoopUpTo(n, L, assets, constraints)}
<1>t. \A d \in Distributions(assets) : d.remaining \in Int
  BY DEF Distributions
<1>1. 0 \in N
  <2> DEFINE h == [d \in UpTo(0, assets) |-> d.weights]
  <2>1. \A d \in UpTo(0, assets) : LoopBody(h, d, assets, constraints) = d.weights
    BY <1>t DEF UpTo, LoopBody
  <2>2. IsLoopUpTo(0, h, assets, constraints)
    BY <2>1 DEF IsLoopUpTo
  <2> QED BY <2>2
<1>2. ASSUME NEW n \in Nat, n \in N PROVE n + 1 \in N
  <2>1. PICK g : IsLoopUpTo(n, g, assets, constraints)
    BY <1>2
  <2> DEFINE h == [d \in UpTo(n + 1, assets) |-> LoopBody(g, d, assets, constraints)]
  <2>2. ASSUME NEW e \in Distributions(assets), e.remaining <= n
        PROVE  g[e] = h[e]
    <3>1. e \in UpTo(n, assets) /\ e \in UpTo(n + 1, assets)
      BY <1>t, <2>2 DEF UpTo
    <3>2. g[e] = LoopBody(g, e, assets, constraints)
      BY <2>1, <3>1 DEF IsLoopUpTo
    <3>3. h[e] = LoopBody(g, e, assets, constraints)
      BY <3>1
    <3> QED BY <3>2, <3>3
  <2>3. ASSUME NEW d \in UpTo(n + 1, assets)
        PROVE  h[d] = LoopBody(h, d, assets, constraints)
    <3>1. h[d] = LoopBody(g, d, assets, constraints)
      OBVIOUS
    <3>2. d \in Distributions(assets) /\ d.remaining <= n + 1 /\ d.remaining \in Int
      BY <1>t DEF UpTo
    <3> HIDE DEF h
    <3>3. CASE d.remaining <= 0
      BY <3>1, <3>3 DEF LoopBody
    <3>4. CASE ~(d.remaining <= 0)
      <4>1. \A e \in Distributions(assets) : e.remaining < d.remaining => g[e] = h[e]
        BY <1>t, <2>2, <3>2
      <4> QED BY <3>1, <3>2, <3>4, <4>1, LoopDescends
    <3> QED BY <3>3, <3>4
  <2>4. h = [d \in UpTo(n + 1, assets) |-> h[d]]
    OBVIOUS
  <2> HIDE DEF h
  <2>5. IsLoopUpTo(n + 1, h, assets, constraints)
    BY <2>3, <2>4 DEF IsLoopUpTo
  <2>6. n + 1 \in Nat
    OBVIOUS
  <2> QED BY <2>5, <2>6
<1> HIDE DEF N
<1>3. \A n \in Nat : n \in N
  BY <1>1, <1>2, NatSet
<1> QED BY <1>3 DEF N

\* ... any two agree on what both are defined for ...
LEMMA LoopUpToAgrees ==
  ASSUME NEW assets, NEW constraints, WellFormed(assets, constraints),
         NEW m \in Nat, NEW n \in Nat, m <= n, NEW g, NEW h,
         IsLoopUpTo(m, g, assets, constraints), IsLoopUpTo(n, h, assets, constraints)
  PROVE  \A d \in UpTo(m, assets) : g[d] = h[d]
<1> DEFINE N == {k \in Nat : \A d \in UpTo(m, assets) : d.remaining <= k => g[d] = h[d]}
<1>t. \A d \in Distributions(assets) : d.remaining \in Int
  BY DEF Distributions
<1>b. ASSUME NEW d \in UpTo(m, assets)
      PROVE  /\ d \in Distributions(assets) /\ d.remaining \in Int /\ d.remaining <= m
             /\ g[d] = LoopBody(g, d, assets, constraints)
             /\ h[d] = LoopBody(h, d, assets, constraints)
  <2>1. d \in UpTo(n, assets)
    BY <1>t DEF UpTo
  <2> QED BY <1>t, <2>1 DEF UpTo, IsLoopUpTo
<1>1. 0 \in N
  <2> SUFFICES ASSUME NEW d \in UpTo(m, assets), d.remaining <= 0 PROVE g[d] = h[d]
    OBVIOUS
  <2>1. LoopBody(g, d, assets, constraints) = LoopBody(h, d, assets, constraints)
    BY <1>b DEF LoopBody
  <2> QED BY <1>b, <2>1
<1>2. ASSUME NEW k \in Nat, k \in N PROVE k + 1 \in N
  <2> SUFFICES ASSUME NEW d \in UpTo(m, assets), d.remaining <= k + 1 PROVE g[d] = h[d]
    OBVIOUS
  <2>1. CASE d.remaining <= 0
    <3>1. LoopBody(g, d, assets, constraints) = LoopBody(h, d, assets, constraints)
      BY <2>1 DEF LoopBody
    <3> QED BY <1>b, <3>1
  <2>2. CASE ~(d.remaining <= 0)
    <3>1. ASSUME NEW e \in Distributions(assets), e.remaining < d.remaining
          PROVE  g[e] = h[e]
      <4>1. e \in UpTo(m, assets) /\ e.remaining <= k
        BY <1>t, <1>b, <3>1 DEF UpTo
      <4> QED BY <1>2, <4>1
    <3>2. LoopBody(g, d, assets, constraints) = LoopBody(h, d, assets, constraints)
      BY <1>b, <2>2, <3>1, LoopDescends
    <3> QED BY <1>b, <3>2
  <2> QED BY <2>1, <2>2
<1> HIDE DEF N
<1>3. \A k \in Nat : k \in N
  BY <1>1, <1>2, NatSet
<1> QED BY <1>3, <1>b DEF N

\* ... and together they are a solution for all.
LEMMA LoopExists ==
  ASSUME NEW assets, NEW constraints, WellFormed(assets, constraints)
  PROVE  \E L : IsLoop(L, assets, constraints)
<1> DEFINE G(n) == CHOOSE L : IsLoopUpTo(n, L, assets, constraints)
           h == [d \in Distributions(assets) |-> G(Most(0, d.remaining))[d]]
<1>t. \A d \in Distributions(assets) :
        d.remaining \in Int /\ Most(0, d.remaining) \in Nat /\ d.remaining <= Most(0, d.remaining)
  BY DEF Distributions, Most
<1>1. \A n \in Nat : IsLoopUpTo(n, G(n), assets, constraints)
  BY LoopUpToExists
<1>h. \A d \in Distributions(assets) : h[d] = G(Most(0, d.remaining))[d]
  OBVIOUS
<1>f. h = [d \in Distributions(assets) |-> h[d]]
  OBVIOUS
<1> HIDE DEF G, h
<1>2. ASSUME NEW d \in Distributions(assets)
      PROVE  h[d] = LoopBody(h, d, assets, constraints)
  <2>1. PICK n \in Nat : n = Most(0, d.remaining)
    BY <1>t
  <2>2. d \in UpTo(n, assets) /\ h[d] = G(n)[d]
    BY <1>t, <1>h, <2>1 DEF UpTo
  <2>3. h[d] = LoopBody(G(n), d, assets, constraints)
    BY <1>1, <2>2 DEF IsLoopUpTo
  <2>4. CASE d.remaining <= 0
    BY <2>3, <2>4 DEF LoopBody
  <2>5. CASE ~(d.remaining <= 0)
    <3>1. ASSUME NEW e \in Distributions(assets), e.remaining < d.remaining
          PROVE  G(n)[e] = h[e]
      <4>1. PICK m \in Nat : m = Most(0, e.remaining)
        BY <1>t
      <4>2. m <= n
        BY <1>t, <2>1, <3>1, <4>1 DEF Most
      <4>3. e \in UpTo(m, assets) /\ h[e] = G(m)[e]
        BY <1>t, <1>h, <4>1 DEF UpTo
      <4> QED BY <1>1, <4>2, <4>3, LoopUpToAgrees
    <3> QED BY <2>3, <2>5, <3>1, LoopDescends
  <2> QED BY <1>t, <2>4, <2>5
<1> QED BY <1>2, <1>f DEF IsLoop

----------------------------------------------------------------------------
(* The weights of the optimizer                                             *)

\* What the limits allow.
Fitting(assets, constraints) ==
  {w \in [DOMAIN assets -> Nat] :
     /\ SumOf(w, DOMAIN assets) <= Investable(constraints)
     /\ \A i \in DOMAIN assets :
          w[i] <= Cap(assets[i], constraints)
            /\ (w[i] > 0 => i \in Manual(assets) \cup Candidates(assets))}

\* What every round of the loop starts from.
Sound(d, assets, constraints) ==
  /\ d \in Distributions(assets)
  /\ d.weights \in Fitting(assets, constraints)
  /\ SumOf(d.weights, DOMAIN assets) + d.remaining <= Investable(constraints)

\* A round keeps the limits.
LEMMA RoundFits ==
  ASSUME NEW assets, NEW constraints, WellFormed(assets, constraints),
         NEW d, Sound(d, assets, constraints), d.remaining > 0, d.uncapped # {}
  PROVE  /\ Grown(d, assets, constraints) \in Fitting(assets, constraints)
         /\ Sound(NextRound(d, assets, constraints), assets, constraints)
<1> DEFINE D == DOMAIN assets
           grown == Grown(d, assets, constraints)
           next == NextRound(d, assets, constraints)
           given == Distributed(d, assets, constraints)
<1>1. /\ d \in Distributions(assets) /\ d.weights \in [D -> Nat] /\ d.remaining \in Int
      /\ d.uncapped \subseteq Candidates(assets) /\ d.weights \in Fitting(assets, constraints)
      /\ SumOf(d.weights, D) + d.remaining <= Investable(constraints)
      /\ SumOf(d.weights, D) \in Nat /\ Investable(constraints) \in Int
  <2>1. d \in Distributions(assets) /\ d.weights \in [D -> Nat] /\ IsFiniteSet(D)
    BY DEF Sound, Distributions, WellFormed
  <2>2. SumOf(d.weights, D) \in Nat
    BY <2>1, SumNat
  <2>3. Whole \in Int /\ constraints.min_cash_weight \in Int
    BY SettingsAssumption DEF WellFormed, RiskProfile, Weights
  <2> QED BY <2>1, <2>2, <2>3 DEF Sound, Distributions, Investable
<1>2. given \in Nat /\ given <= d.remaining
  BY <1>1, RoundShares
<1>3. /\ grown \in [D -> Nat] /\ next \in Distributions(assets)
      /\ SumOf(grown, D) = SumOf(d.weights, D) + given
  BY <1>1, RoundKeeps
<1>4. ASSUME NEW i \in D
      PROVE  /\ grown[i] <= Cap(assets[i], constraints)
             /\ grown[i] > 0 => i \in Manual(assets) \cup Candidates(assets)
  <2>1. /\ d.weights[i] <= Cap(assets[i], constraints)
        /\ d.weights[i] > 0 => i \in Manual(assets) \cup Candidates(assets)
    BY <1>1 DEF Fitting
  <2>2. CASE i \in d.uncapped
    <3>1. grown[i] = d.weights[i] + Share(d, assets, constraints)[i]
      BY <2>2 DEF Grown
    <3>2. \/ Share(d, assets, constraints)[i] = 0
          \/ d.weights[i] + Share(d, assets, constraints)[i] <= Cap(assets[i], constraints)
      BY <1>1, <2>2, RoundShares
    <3> QED BY <1>1, <2>1, <2>2, <3>1, <3>2
  <2>3. CASE i \notin d.uncapped
    <3>1. grown[i] = d.weights[i]
      BY <1>1, <2>3 DEF Grown
    <3> QED BY <2>1, <3>1
  <2> QED BY <2>2, <2>3
<1>5. next.weights = grown /\ next.remaining = d.remaining - given
  BY DEF NextRound
<1> HIDE DEF grown, next, given, D
<1>6. /\ SumOf(grown, D) <= Investable(constraints)
      /\ SumOf(grown, D) + (d.remaining - given) <= Investable(constraints)
  BY <1>1, <1>2, <1>3
<1>7. grown \in Fitting(assets, constraints)
  BY <1>3, <1>4, <1>6 DEF Fitting, D
<1>8. Sound(next, assets, constraints)
  BY <1>3, <1>5, <1>6, <1>7 DEF Sound, D
<1> QED BY <1>7, <1>8 DEF grown, next

LEMMA LoopFits ==
  ASSUME NEW assets, NEW constraints, WellFormed(assets, constraints),
         NEW L, IsLoop(L, assets, constraints), NEW d, Sound(d, assets, constraints)
  PROVE  L[d] \in Fitting(assets, constraints)
<1> DEFINE N == {n \in Nat : \A e \in Distributions(assets) :
                   Sound(e, assets, constraints) /\ e.remaining <= n
                     => L[e] \in Fitting(assets, constraints)}
<1>t. \A e \in Distributions(assets) :
        /\ e.remaining \in Int
        /\ L[e] = LoopBody(L, e, assets, constraints)
  BY DEF Distributions, IsLoop
<1>1. 0 \in N
  <2> SUFFICES ASSUME NEW e \in Distributions(assets), Sound(e, assets, constraints),
                      e.remaining <= 0
               PROVE  L[e] \in Fitting(assets, constraints)
    OBVIOUS
  <2> QED BY <1>t DEF LoopBody, Sound
<1>2. ASSUME NEW n \in Nat, n \in N PROVE n + 1 \in N
  <2> SUFFICES ASSUME NEW e \in Distributions(assets), Sound(e, assets, constraints),
                      e.remaining <= n + 1
               PROVE  L[e] \in Fitting(assets, constraints)
    OBVIOUS
  <2> DEFINE given == Distributed(e, assets, constraints)
             next == NextRound(e, assets, constraints)
  <2>1. CASE e.remaining <= 0 \/ e.uncapped = {}
    BY <1>t, <2>1 DEF LoopBody, Sound
  <2>2. CASE ~(e.remaining <= 0 \/ e.uncapped = {})
    <3>1. e.remaining > 0 /\ e.uncapped # {} /\ e.remaining \in Int
      BY <1>t, <2>2
    <3>2. /\ Grown(e, assets, constraints) \in Fitting(assets, constraints)
          /\ Sound(next, assets, constraints)
      BY <3>1, RoundFits
    <3>3. given \in Nat
      BY <3>1, RoundShares
    <3>4. CASE given <= 0
      BY <1>t, <2>2, <3>2, <3>4 DEF LoopBody
    <3>5. CASE ~(given <= 0)
      <4>1. next \in Distributions(assets) /\ next.remaining = e.remaining - given
        BY <3>2 DEF Sound, NextRound
      <4>2. next.remaining <= n
        <5> HIDE DEF next, given
        <5> QED BY <3>1, <3>3, <3>5, <4>1
      <4>3. L[next] \in Fitting(assets, constraints)
        BY <1>2, <3>2, <4>1, <4>2
      <4> QED BY <1>t, <2>2, <3>5, <4>3 DEF LoopBody
    <3> QED BY <3>4, <3>5
  <2> QED BY <2>1, <2>2
<1> HIDE DEF N
<1>3. \A n \in Nat : n \in N
  BY <1>1, <1>2, NatSet
<1>4. d \in Distributions(assets) /\ d.remaining \in Int
  BY <1>t DEF Sound
<1>5. CASE d.remaining <= 0
  BY <1>t, <1>4, <1>5 DEF LoopBody, Sound
<1>6. CASE ~(d.remaining <= 0)
  <2>1. d.remaining \in Nat
    BY <1>4, <1>6
  <2> QED BY <1>3, <1>4, <2>1 DEF N
<1> QED BY <1>5, <1>6

\* The manual targets that _validate lets through fit.
LEMMA ManualFits ==
  ASSUME NEW assets, NEW constraints, WellFormed(assets, constraints),
         Valid(assets, constraints)
  PROVE  Sound(FirstRound(assets, constraints), assets, constraints)
<1> DEFINE D == DOMAIN assets
           M == Manual(assets)
           target == [i \in M |-> assets[i].manual_target_weight]
           w == ManualWeights(assets, constraints)
<1>1. IsFiniteSet(D) /\ M \subseteq D /\ IsFiniteSet(M)
  BY FS_Subset DEF WellFormed, Manual
<1>2. \A i \in D : Cap(assets[i], constraints) \in Nat
  BY CapTyped DEF Weights
<1>3. \A i \in M : target[i] \in Nat
  BY DEF WellFormed, AssetInput, Manual, Weights
<1>4. \A i \in D : /\ w[i] \in Nat /\ w[i] <= Cap(assets[i], constraints)
                   /\ i \in M => w[i] <= target[i]
                   /\ i \notin M => w[i] = 0
  BY <1>1, <1>2, <1>3 DEF ManualWeights, Least
<1>5. w \in [D -> Nat]
  BY <1>4 DEF ManualWeights
<1>6. SumOf(target, M) <= Investable(constraints) /\ Investable(constraints) \in Int
  BY SettingsAssumption DEF Valid, Investable, WellFormed, RiskProfile, Weights
<1> HIDE DEF w, target, M, D
<1>7. SumOf(w, D) = SumOf(w, M)
  BY <1>1, <1>4, SumSupport
<1>8. SumOf(w, M) \in Int /\ SumOf(target, M) \in Int /\ SumOf(w, M) <= SumOf(target, M)
  BY <1>1, <1>3, <1>4, SumMonotone
<1>9. w \in Fitting(assets, constraints)
  BY <1>4, <1>5, <1>6, <1>7, <1>8 DEF Fitting, D, M
<1> QED BY <1>5, <1>6, <1>7, <1>8, <1>9
        DEF Sound, FirstRound, Distributions, D, w

\* The weights keep the reserve and the limits of each position, and are an
\* administrator's or those of a candidate.
LEMMA OptimizeFits ==
  ASSUME NEW assets, NEW constraints, WellFormed(assets, constraints),
         Valid(assets, constraints)
  PROVE  optimize(assets, constraints) \in Fitting(assets, constraints)
<1>1. PICK L : IsLoop(L, assets, constraints) /\ L = CHOOSE g : IsLoop(g, assets, constraints)
  BY LoopExists
<1>2. L[FirstRound(assets, constraints)] \in Fitting(assets, constraints)
  BY <1>1, ManualFits, LoopFits
<1> QED BY <1>1, <1>2, OptimizeDef

----------------------------------------------------------------------------
(* The shares of the optimizer                                              *)

\* The rounds of the loop divide without a rest: a set that holds the first round,
\* and with each round the next, holds none that leaves one.
DivisionsExact(assets, constraints) ==
  \E rounds \in SUBSET Distributions(assets) :
    /\ FirstRound(assets, constraints) \in rounds
    /\ \A d \in rounds : d.remaining > 0 /\ d.uncapped # {} =>
         /\ \A i \in d.uncapped : ExactFor(i, d, assets)
         /\ NextRound(d, assets, constraints) \in rounds

\* Who could take more has its share of what any other got.
ShareKept(w, below, assets) ==
  \A i \in below, j \in Candidates(assets) : w[j] * assets[i].score <= w[i] * assets[j].score

Below(w, assets, constraints) ==
  {i \in Candidates(assets) : w[i] < Cap(assets[i], constraints)}

Fair(assets, constraints) ==
  {w \in [DOMAIN assets -> Nat] :
     /\ ShareKept(w, Below(w, assets, constraints), assets)
     /\ Below(w, assets, constraints) # {}
          => SumOf(w, DOMAIN assets) = Investable(constraints)}

\* What every round starts from: whoever is out of the loop is at its cap.
FairRound(d, assets, constraints) ==
  /\ d \in Distributions(assets)
  /\ d.remaining >= 0
  /\ SumOf(d.weights, DOMAIN assets) + d.remaining = Investable(constraints)
  /\ Below(d.weights, assets, constraints) \subseteq d.uncapped
  /\ ShareKept(d.weights, d.uncapped, assets)

LEMMA Cancel ==
  ASSUME NEW t \in Nat, t > 0, NEW a \in Int, NEW b \in Int, t * a <= t * b
  PROVE  a <= b
<1> SUFFICES ASSUME b + 1 <= a PROVE FALSE
  OBVIOUS
<1>1. t * (a - b - 1) >= 0
  OBVIOUS
<1>2. t * (a - b - 1) = t * a - t * b - t
  OBVIOUS
<1>3. t * a \in Int /\ t * b \in Int
  OBVIOUS
<1> QED BY <1>1, <1>2, <1>3

\* Two shares of one round, in the notation of ShareFits: the first is what was
\* proposed, the second no more than that.
LEMMA TwoShares ==
  ASSUME NEW t \in Nat, t > 0, NEW r \in Nat, NEW si \in Nat, NEW sj \in Nat,
         NEW a \in Nat, NEW b \in Nat, t * a = r * si, t * b <= r * sj
  PROVE  b * si <= a * sj
<1>1. (t * b) * si <= (r * sj) * si
  <2>1. PICK m \in Nat, n \in Nat : m = t * b /\ n = r * sj /\ m <= n
    OBVIOUS
  <2>2. (n - m) * si >= 0 /\ (n - m) * si = n * si - m * si
    BY <2>1
  <2>3. m * si <= n * si
    BY <2>1, <2>2
  <2> QED BY <2>1, <2>3
<1>2. (t * b) * si = t * (b * si)
  OBVIOUS
<1>3. (r * sj) * si = (r * si) * sj
  OBVIOUS
<1>4. (t * a) * sj = t * (a * sj)
  OBVIOUS
<1>5. t * (b * si) <= t * (a * sj)
  BY <1>1, <1>2, <1>3, <1>4
<1>6. b * si \in Int /\ a * sj \in Int
  OBVIOUS
<1> QED BY <1>5, <1>6, Cancel

LEMMA CandidateTyped ==
  ASSUME NEW assets, NEW constraints, WellFormed(assets, constraints),
         NEW i \in Candidates(assets)
  PROVE  /\ i \in DOMAIN assets /\ assets[i].score \in Nat /\ assets[i].score > 0
         /\ Cap(assets[i], constraints) \in Nat
<1>1. i \in DOMAIN assets /\ assets[i].score > 0
  BY DEF Candidates
<1>2. assets[i].score \in Nat
  BY <1>1, SettingsAssumption DEF WellFormed, AssetInput, Weights
<1> QED BY <1>1, <1>2, CapTyped DEF Weights

\* A round that divides exactly keeps the shares.
LEMMA RoundIsFair ==
  ASSUME NEW assets, NEW constraints, WellFormed(assets, constraints),
         NEW d, FairRound(d, assets, constraints), d.remaining > 0, d.uncapped # {},
         \A i \in d.uncapped : ExactFor(i, d, assets)
  PROVE  /\ FairRound(NextRound(d, assets, constraints), assets, constraints)
         /\ ShareKept(Grown(d, assets, constraints),
                      Below(Grown(d, assets, constraints), assets, constraints), assets)
         /\ Distributed(d, assets, constraints) <= 0
              => Below(Grown(d, assets, constraints), assets, constraints) = {}
<1> DEFINE grown == Grown(d, assets, constraints)
           share == Share(d, assets, constraints)
           next == NextRound(d, assets, constraints)
           given == Distributed(d, assets, constraints)
           below == Below(grown, assets, constraints)
<1>1. /\ d \in Distributions(assets) /\ d.uncapped \subseteq Candidates(assets)
      /\ d.weights \in [DOMAIN assets -> Nat] /\ d.remaining \in Int
      /\ Below(d.weights, assets, constraints) \subseteq d.uncapped
      /\ ShareKept(d.weights, d.uncapped, assets)
      /\ SumOf(d.weights, DOMAIN assets) + d.remaining = Investable(constraints)
  BY DEF FairRound, Distributions
<1>2. /\ grown \in [DOMAIN assets -> Nat] /\ next \in Distributions(assets)
      /\ SumOf(grown, DOMAIN assets) = SumOf(d.weights, DOMAIN assets) + given
  BY <1>1, RoundKeeps
<1>3. given \in Nat /\ given <= d.remaining /\ given = SumOf(share, d.uncapped)
      /\ IsFiniteSet(d.uncapped)
  BY <1>1, RoundShares DEF Distributed
<1>4. next.weights = grown /\ next.remaining = d.remaining - given
      /\ next.uncapped = Uncapped(grown, d.uncapped, assets, constraints)
  BY DEF NextRound
<1>5. /\ \A i \in d.uncapped : grown[i] = d.weights[i] + share[i]
      /\ \A i \in DOMAIN assets \ d.uncapped : grown[i] = d.weights[i]
  <2>1. \A i \in d.uncapped : i \in DOMAIN assets
    BY <1>1 DEF Candidates
  <2> QED BY <1>1, <2>1 DEF Grown
<1>6. below \subseteq d.uncapped
  <2> SUFFICES ASSUME NEW i \in below, i \notin d.uncapped PROVE FALSE
    OBVIOUS
  <2>1. i \in Candidates(assets) /\ grown[i] < Cap(assets[i], constraints)
    BY DEF Below
  <2>2. grown[i] = d.weights[i]
    BY <1>5, <2>1, CandidateTyped
  <2>3. i \in Below(d.weights, assets, constraints)
    BY <2>1, <2>2 DEF Below
  <2> QED BY <1>1, <2>3
<1>7. next.uncapped = below
  BY <1>1, <1>4, <1>6 DEF Uncapped, Below
<1>8. ASSUME NEW i \in below
      PROVE  /\ ScoreSum(d, assets) \in Nat /\ ScoreSum(d, assets) > 0
             /\ share[i] \in Nat /\ d.remaining \in Nat
             /\ ScoreSum(d, assets) * share[i] = d.remaining * assets[i].score
  <2>1. i \in d.uncapped /\ d.weights[i] + share[i] < Cap(assets[i], constraints)
    BY <1>5, <1>6 DEF Below
  <2>2. ExactFor(i, d, assets)
    BY <2>1
  <2> QED BY <1>1, <2>1, <2>2, ShareFits
<1>9. ShareKept(grown, below, assets)
  <2> SUFFICES ASSUME NEW i \in below, NEW j \in Candidates(assets)
               PROVE  grown[j] * assets[i].score <= grown[i] * assets[j].score
    BY DEF ShareKept
  <2>1. i \in d.uncapped /\ i \in Candidates(assets)
    BY <1>1, <1>6
  <2>2. PICK si \in Nat, sj \in Nat : si = assets[i].score /\ sj = assets[j].score
    BY <2>1, CandidateTyped
  <2>3. PICK wi \in Nat, wj \in Nat : wi = d.weights[i] /\ wj = d.weights[j]
    BY <1>1, <2>1, CandidateTyped
  <2>4. wj * si <= wi * sj
    BY <1>1, <2>1, <2>2, <2>3 DEF ShareKept
  <2>5. PICK a \in Nat : a = share[i] /\ grown[i] = wi + a
    BY <1>5, <1>8, <2>1, <2>3
  <2>6. PICK b \in Nat : grown[j] = wj + b /\ b * si <= a * sj
    <3>1. CASE j \in d.uncapped
      <4>1. PICK b \in Nat : b = share[j]
        BY <1>1, <3>1, ShareFits
      <4>2. PICK t \in Nat, r \in Nat :
              /\ t = ScoreSum(d, assets) /\ t > 0 /\ r = d.remaining
              /\ t * a = r * si /\ t * b <= r * sj
        BY <1>1, <1>8, <2>2, <2>5, <3>1, <4>1, ShareFits
      <4>3. b * si <= a * sj
        BY <4>2, TwoShares
      <4> QED BY <1>5, <2>3, <3>1, <4>1, <4>3
    <3>2. CASE j \notin d.uncapped
      <4>1. grown[j] = wj + 0
        BY <1>5, <2>3, <3>2, CandidateTyped
      <4>2. 0 * si <= a * sj
        OBVIOUS
      <4> QED BY <4>1, <4>2
    <3> QED BY <3>1, <3>2
  <2>7. (wj + b) * si = wj * si + b * si /\ (wi + a) * sj = wi * sj + a * sj
    OBVIOUS
  <2>8. wj * si \in Int /\ b * si \in Int /\ wi * sj \in Int /\ a * sj \in Int
    OBVIOUS
  <2>9. (wj + b) * si <= (wi + a) * sj
    BY <2>4, <2>6, <2>7, <2>8
  <2> QED BY <2>2, <2>5, <2>6, <2>9
<1>10. ASSUME given <= 0, NEW i \in below PROVE FALSE
  <2>1. \A j \in d.uncapped : share[j] \in Nat
    BY <1>1, ShareFits
  <2>2. i \in d.uncapped /\ share[i] <= SumOf(share, d.uncapped)
    <3> HIDE DEF share, below
    <3> QED BY <1>3, <1>6, <1>10, <2>1, SumNat
  <2>3. PICK t \in Nat, r \in Nat, s \in Nat :
          /\ t = ScoreSum(d, assets) /\ t > 0 /\ r = d.remaining /\ r > 0
          /\ s = assets[i].score /\ s > 0 /\ t * share[i] = r * s
    <3>1. assets[i].score \in Nat /\ assets[i].score > 0
      BY <1>1, <2>2, CandidateTyped
    <3> HIDE DEF share, below
    <3> QED BY <1>8, <1>10, <3>1
  <2>4. share[i] = 0
    <3> HIDE DEF share, given
    <3> QED BY <1>3, <1>10, <2>1, <2>2
  <2>5. r * s > 0 /\ t * 0 = 0
    BY <2>3
  <2> QED BY <2>3, <2>4, <2>5
<1> HIDE DEF grown, share, next, given, below
<1>11. SumOf(next.weights, DOMAIN assets) + next.remaining = Investable(constraints)
  <2>1. SumOf(d.weights, DOMAIN assets) \in Nat
    BY <1>1, SumNat DEF WellFormed
  <2> QED BY <1>1, <1>2, <1>3, <1>4, <2>1
<1>12. next.remaining >= 0
  BY <1>1, <1>3, <1>4
<1>13. FairRound(next, assets, constraints)
  BY <1>2, <1>4, <1>7, <1>9, <1>11, <1>12 DEF FairRound, below
<1> QED BY <1>9, <1>10, <1>13 DEF grown, next, given, below

LEMMA LoopIsFair ==
  ASSUME NEW assets, NEW constraints, WellFormed(assets, constraints),
         NEW L, IsLoop(L, assets, constraints),
         NEW rounds \in SUBSET Distributions(assets),
         \A d \in rounds : d.remaining > 0 /\ d.uncapped # {} =>
           /\ \A i \in d.uncapped : ExactFor(i, d, assets)
           /\ NextRound(d, assets, constraints) \in rounds,
         NEW e \in rounds, FairRound(e, assets, constraints)
  PROVE  L[e] \in Fair(assets, constraints)
<1> DEFINE N == {n \in Nat : \A d \in rounds :
                   FairRound(d, assets, constraints) /\ d.remaining <= n
                     => L[d] \in Fair(assets, constraints)}
<1>t. ASSUME NEW d \in rounds
      PROVE  /\ d \in Distributions(assets) /\ d.remaining \in Int
             /\ d.weights \in [DOMAIN assets -> Nat]
             /\ L[d] = LoopBody(L, d, assets, constraints)
  BY DEF Distributions, IsLoop
<1>s. ASSUME NEW d \in rounds, FairRound(d, assets, constraints),
             d.remaining <= 0 \/ d.uncapped = {}
      PROVE  L[d] \in Fair(assets, constraints)
  <2>1. L[d] = d.weights
    BY <1>s, <1>t DEF LoopBody
  <2>2. ShareKept(d.weights, Below(d.weights, assets, constraints), assets)
    BY <1>s DEF FairRound, ShareKept
  <2>3. ASSUME Below(d.weights, assets, constraints) # {}
        PROVE  SumOf(d.weights, DOMAIN assets) = Investable(constraints)
    <3>1. d.uncapped # {}
      BY <1>s, <2>3 DEF FairRound
    <3>2. d.remaining = 0
      BY <1>s, <1>t, <3>1 DEF FairRound
    <3>3. SumOf(d.weights, DOMAIN assets) \in Nat
      BY <1>t, SumNat DEF WellFormed
    <3> QED BY <1>s, <3>2, <3>3 DEF FairRound
  <2> QED BY <1>t, <2>1, <2>2, <2>3 DEF Fair
<1>1. 0 \in N
  BY <1>s
<1>2. ASSUME NEW n \in Nat, n \in N PROVE n + 1 \in N
  <2> SUFFICES ASSUME NEW d \in rounds, FairRound(d, assets, constraints),
                      d.remaining <= n + 1
               PROVE  L[d] \in Fair(assets, constraints)
    OBVIOUS
  <2> DEFINE given == Distributed(d, assets, constraints)
             next == NextRound(d, assets, constraints)
             grown == Grown(d, assets, constraints)
  <2>1. CASE d.remaining <= 0 \/ d.uncapped = {}
    BY <1>s, <2>1
  <2>2. CASE ~(d.remaining <= 0 \/ d.uncapped = {})
    <3>1. d.remaining > 0 /\ d.uncapped # {}
      BY <1>t, <2>2
    <3>2. /\ FairRound(next, assets, constraints)
          /\ ShareKept(grown, Below(grown, assets, constraints), assets)
          /\ given <= 0 => Below(grown, assets, constraints) = {}
      BY <3>1, RoundIsFair
    <3>3. given \in Nat /\ grown \in [DOMAIN assets -> Nat]
      BY <1>t, <3>1, RoundShares, RoundKeeps
    <3>4. CASE given <= 0
      <4>1. L[d] = grown
        BY <1>t, <2>2, <3>4 DEF LoopBody
      <4> HIDE DEF grown, given
      <4> QED BY <3>2, <3>3, <3>4, <4>1 DEF Fair
    <3>5. CASE ~(given <= 0)
      <4>1. L[d] = L[next]
        BY <1>t, <2>2, <3>5 DEF LoopBody
      <4>2. next \in rounds /\ next.remaining = d.remaining - given
        BY <3>1 DEF NextRound
      <4>3. next.remaining <= n
        <5> HIDE DEF next, given
        <5> QED BY <1>t, <3>3, <3>5, <4>2
      <4> QED BY <1>2, <3>2, <4>1, <4>2, <4>3
    <3> QED BY <3>4, <3>5
  <2> QED BY <2>1, <2>2
<1> HIDE DEF N
<1>3. \A n \in Nat : n \in N
  BY <1>1, <1>2, NatSet
<1>4. e.remaining \in Nat
  BY <1>t DEF FairRound
<1> QED BY <1>3, <1>4 DEF N

\* With exact divisions the optimizer divides by the scores.
LEMMA OptimizeIsFair ==
  ASSUME NEW assets, NEW constraints, WellFormed(assets, constraints),
         Valid(assets, constraints), DivisionsExact(assets, constraints)
  PROVE  optimize(assets, constraints) \in Fair(assets, constraints)
<1> DEFINE first == FirstRound(assets, constraints)
<1>1. PICK L : IsLoop(L, assets, constraints) /\ L = CHOOSE g : IsLoop(g, assets, constraints)
  BY LoopExists
<1>2. PICK rounds \in SUBSET Distributions(assets) :
        /\ first \in rounds
        /\ \A d \in rounds : d.remaining > 0 /\ d.uncapped # {} =>
             /\ \A i \in d.uncapped : ExactFor(i, d, assets)
             /\ NextRound(d, assets, constraints) \in rounds
  BY DEF DivisionsExact
<1>3. Sound(first, assets, constraints)
  BY ManualFits
<1>4. first.weights = ManualWeights(assets, constraints)
      /\ first.uncapped = Candidates(assets)
      /\ first.remaining = Investable(constraints) - SumOf(first.weights, DOMAIN assets)
  BY DEF FirstRound
<1> HIDE DEF first
<1>5. /\ first \in Distributions(assets) /\ first.weights \in [DOMAIN assets -> Nat]
      /\ SumOf(first.weights, DOMAIN assets) \in Nat /\ Investable(constraints) \in Int
      /\ SumOf(first.weights, DOMAIN assets) <= Investable(constraints)
  <2>1. first \in Distributions(assets) /\ first.weights \in [DOMAIN assets -> Nat]
    BY <1>2 DEF Distributions
  <2>2. SumOf(first.weights, DOMAIN assets) \in Nat
    BY <2>1, SumNat DEF WellFormed
  <2>3. Investable(constraints) \in Int
    BY SettingsAssumption DEF Investable, WellFormed, RiskProfile, Weights
  <2> QED BY <1>3, <2>1, <2>2, <2>3 DEF Sound, Fitting
<1>6. \A i \in Candidates(assets) : first.weights[i] = 0
  BY <1>4 DEF ManualWeights, Candidates
<1>7. ShareKept(first.weights, Candidates(assets), assets)
  <2> SUFFICES ASSUME NEW i \in Candidates(assets), NEW j \in Candidates(assets)
               PROVE  first.weights[j] * assets[i].score <= first.weights[i] * assets[j].score
    BY DEF ShareKept
  <2>1. PICK si \in Nat, sj \in Nat : si = assets[i].score /\ sj = assets[j].score
    BY CandidateTyped
  <2>2. 0 * si <= 0 * sj
    OBVIOUS
  <2> QED BY <1>6, <2>1, <2>2
<1>8. FairRound(first, assets, constraints)
  BY <1>4, <1>5, <1>7 DEF FairRound, Below
<1>9. L[first] \in Fair(assets, constraints)
  BY <1>1, <1>2, <1>8, LoopIsFair
<1> QED BY <1>1, <1>9, OptimizeDef DEF first

----------------------------------------------------------------------------
(* The trades of the planner                                                *)

\* The parts of Allocations, named.
FirstTrades(assets, weights, total, cash) ==
  [spendable |-> Most(0, cash * Whole - total * CashWeight(weights)),
   allocations |-> [i \in DOMAIN assets |->
     [action |-> "HOLD", lots |-> 0, target_weight |-> weights[i]]]]
Trade(i, assets, weights, constraints, total, spendable) ==
  Allocate(i, assets[i], weights[i], total, constraints.rebalance_threshold_percent, spendable)
NextTrades(done, i, assets, weights, constraints, total) ==
  LET a == Trade(i, assets, weights, constraints, total, done.spendable)
  IN [spendable |-> IF a.action = "BUY"
                    THEN Spend(done.spendable, a.lots, LotCost(i, assets[i]))
                    ELSE done.spendable,
      allocations |-> [done.allocations EXCEPT ![i] = a]]
FoldBody(h, s, first, order, assets, weights, constraints, total) ==
  IF s = {} THEN first
  ELSE NextTrades(h[s \ {Max(s)}], order[Max(s)], assets, weights, constraints, total)
IsFold(h, S, first, order, assets, weights, constraints, total) ==
  h = [s \in SUBSET S |-> FoldBody(h, s, first, order, assets, weights, constraints, total)]

LEMMA AllocationsDef ==
  ASSUME NEW assets, NEW weights, NEW order, NEW constraints, NEW total, NEW cash
  PROVE  Allocations(assets, weights, order, constraints, total, cash)
           = (CHOOSE h : IsFold(h, DOMAIN order, FirstTrades(assets, weights, total, cash),
                                order, assets, weights, constraints, total))
               [DOMAIN order].allocations
BY DEF Allocations, FoldLeft, MapThenFoldSet, IsFold, FoldBody, FirstTrades, NextTrades, Trade

LEMMA MaxIn ==
  ASSUME NEW n \in Nat, NEW s \in SUBSET (1 .. n), s # {}
  PROVE  Max(s) \in s
<1> DEFINE S == 1 .. n
           T == {t \in SUBSET S : t # {} => \E x \in t : \A y \in t : x >= y}
<1>1. IsFiniteSet(S)
  BY FS_Interval
<1>2. ASSUME NEW t \in SUBSET S, \A r \in SUBSET t : r # t => r \in T
      PROVE  t \in T
  <2> SUFFICES ASSUME NEW z \in t PROVE \E x \in t : \A y \in t : x >= y
    OBVIOUS
  <2>1. t \ {z} \in T
    BY <1>2
  <2>2. CASE t \ {z} = {}
    BY <2>2
  <2>3. CASE t \ {z} # {}
    <3>1. PICK x \in t \ {z} : \A y \in t \ {z} : x >= y
      BY <2>1, <2>3
    <3>2. CASE x >= z
      BY <3>1, <3>2
    <3>3. CASE ~(x >= z)
      <4>1. \A y \in t : z >= y
        BY <3>1, <3>3
      <4> QED BY <4>1
    <3> QED BY <3>2, <3>3
  <2> QED BY <2>2, <2>3
<1> HIDE DEF T, S
<1>3. \A t \in SUBSET S : t \in T
  BY <1>1, <1>2, FiniteSetSet
<1> QED BY <1>3 DEF T, S, Max

LEMMA FoldExists ==
  ASSUME NEW n \in Nat, NEW first, NEW order, NEW assets, NEW weights, NEW constraints,
         NEW total
  PROVE  \E h : IsFold(h, 1 .. n, first, order, assets, weights, constraints, total)
<1> DEFINE S == 1 .. n
           D(k) == {s \in SUBSET S : Cardinality(s) <= k}
           Body(h, s) == FoldBody(h, s, first, order, assets, weights, constraints, total)
           N == {k \in Nat : \E h : h = [s \in D(k) |-> Body(h, s)]}
<1>i. IsFiniteSet(S)
  BY FS_Interval
<1>m. \A s \in SUBSET S : s # {} => Max(s) \in s
  BY MaxIn
<1> HIDE DEF S
<1>f. \A s \in SUBSET S : IsFiniteSet(s) /\ Cardinality(s) \in Nat
        /\ Cardinality(s) <= Cardinality(S)
  BY <1>i, FS_Subset, FS_CardinalityType
<1>s. ASSUME NEW s \in SUBSET S, s # {}
      PROVE  /\ s \ {Max(s)} \in SUBSET S
             /\ Cardinality(s \ {Max(s)}) = Cardinality(s) - 1
  <2>1. Max(s) \in s /\ IsFiniteSet(s)
    BY <1>s, <1>f, <1>m
  <2> QED BY <2>1, FS_RemoveElement
<1>1. 0 \in N
  <2> DEFINE h == [s \in D(0) |-> first]
  <2>1. \A s \in D(0) : s = {}
    <3> SUFFICES ASSUME NEW s \in SUBSET S, Cardinality(s) <= 0 PROVE s = {}
      OBVIOUS
    <3>1. Cardinality(s) = 0
      BY <1>f
    <3> QED BY <1>f, <3>1, FS_EmptySet
  <2>2. h = [s \in D(0) |-> Body(h, s)]
    BY <2>1 DEF FoldBody
  <2> QED BY <2>2
<1>2. ASSUME NEW k \in Nat, k \in N PROVE k + 1 \in N
  <2>1. PICK g : g = [s \in D(k) |-> Body(g, s)]
    BY <1>2
  <2> DEFINE h == [s \in D(k + 1) |-> Body(g, s)]
  <2>2. ASSUME NEW s \in D(k + 1) PROVE h[s] = Body(h, s)
    <3>1. CASE s = {}
      BY <3>1 DEF FoldBody
    <3>2. CASE s # {}
      <4> DEFINE r == s \ {Max(s)}
      <4>1. r \in SUBSET S /\ Cardinality(r) = Cardinality(s) - 1
        BY <1>s, <3>2
      <4>2. r \in D(k) /\ r \in D(k + 1)
        BY <1>f, <4>1
      <4>3. g[r] = Body(g, r) /\ h[r] = Body(g, r)
        BY <2>1, <4>2
      <4>4. h[s] = Body(g, s)
        OBVIOUS
      <4> HIDE DEF h
      <4>5. Body(g, s) = Body(h, s)
        BY <3>2, <4>3 DEF FoldBody
      <4> QED BY <4>4, <4>5
    <3> QED BY <3>1, <3>2
  <2>3. h = [s \in D(k + 1) |-> h[s]]
    OBVIOUS
  <2> HIDE DEF h, D, Body
  <2>4. h = [s \in D(k + 1) |-> Body(h, s)]
    BY <2>2, <2>3
  <2>5. k + 1 \in Nat
    OBVIOUS
  <2> QED BY <2>4, <2>5
<1> HIDE DEF N
<1>3. Cardinality(S) \in Nat /\ \A k \in Nat : k \in N
  BY <1>i, <1>1, <1>2, NatSet, FS_CardinalityType
<1>4. D(Cardinality(S)) = SUBSET S
  BY <1>f
<1>5. \E h : h = [s \in D(Cardinality(S)) |-> Body(h, s)]
  BY <1>3 DEF N
<1> QED BY <1>4, <1>5 DEF IsFold, S

\* What the planner starts from and every target keeps holds of the allocations.
LEMMA AllocationsKeep ==
  ASSUME NEW assets, NEW weights, NEW constraints, NEW total, NEW cash,
         NEW order, order \in SetToSeqs(DOMAIN assets), IsFiniteSet(DOMAIN assets),
         NEW T, FirstTrades(assets, weights, total, cash) \in T,
         \A done \in T, i \in DOMAIN assets :
           NextTrades(done, i, assets, weights, constraints, total) \in T
  PROVE  \E done \in T :
           Allocations(assets, weights, order, constraints, total, cash) = done.allocations
<1> DEFINE first == FirstTrades(assets, weights, total, cash)
<1>1. PICK n \in Nat : DOMAIN order = 1 .. n /\ order \in [1 .. n -> DOMAIN assets]
  BY FS_CardinalityType DEF SetToSeqs
<1>2. PICK h : /\ IsFold(h, 1 .. n, first, order, assets, weights, constraints, total)
               /\ h = CHOOSE g : IsFold(g, 1 .. n, first, order, assets, weights,
                                        constraints, total)
  BY FoldExists
<1> DEFINE S == 1 .. n
           Kept == {s \in SUBSET S : h[s] \in T}
<1>3. ASSUME NEW s \in SUBSET S, \A r \in SUBSET s : r # s => r \in Kept
      PROVE  s \in Kept
  <2>1. h[s] = FoldBody(h, s, first, order, assets, weights, constraints, total)
    BY <1>2 DEF IsFold
  <2>2. CASE s = {}
    BY <2>1, <2>2 DEF FoldBody
  <2>3. CASE s # {}
    <3> DEFINE r == s \ {Max(s)}
    <3>1. Max(s) \in s
      BY <2>3, MaxIn
    <3>2. r \in SUBSET s /\ r # s /\ order[Max(s)] \in DOMAIN assets
      BY <1>1, <3>1
    <3>3. h[r] \in T
      BY <1>3, <3>2
    <3>4. NextTrades(h[r], order[Max(s)], assets, weights, constraints, total) \in T
      BY <3>2, <3>3
    <3> QED BY <2>1, <2>3, <3>4 DEF FoldBody
  <2> QED BY <2>2, <2>3
<1>4. IsFiniteSet(S)
  BY FS_Interval
<1>7. Allocations(assets, weights, order, constraints, total, cash) = h[S].allocations
  BY <1>1, <1>2, AllocationsDef
<1> HIDE DEF Kept, first, S
<1>5. \A s \in SUBSET S : s \in Kept
  BY <1>3, <1>4, FiniteSetSet
<1>6. h[S] \in T
  BY <1>5 DEF Kept
<1> QED BY <1>6, <1>7

LEMMA LotsFit ==
  ASSUME NEW amount \in Int, NEW cost \in Nat, cost > 0
  PROVE  /\ WholeLots(amount, cost) \in Int
         /\ WholeLots(amount, cost) * cost * Whole <= amount
<1>1. PICK w \in Nat : w = Whole /\ w > 0
  BY SettingsAssumption
<1>2. PICK b \in Nat : b = cost * w /\ b > 0
  BY <1>1
<1>3. PICK q \in Int : q = amount \div b
  BY <1>2
<1>4. b * q <= amount
  BY <1>2, <1>3
<1>5. (q * cost) * w = (cost * w) * q
  BY <1>1, <1>3
<1> QED BY <1>1, <1>2, <1>3, <1>4, <1>5 DEF WholeLots

LEMMA CostTyped ==
  ASSUME NEW i \in Instruments, NEW asset, asset.price \in Nat, asset.price > 0
  PROVE  LotCost(i, asset) \in Nat /\ LotCost(i, asset) > 0
<1>1. PICK l \in Nat, p \in Nat : l = Lot[i] /\ l > 0 /\ p = asset.price
  BY PlanAssumption
<1>2. p * l \in Nat /\ p * l > 0
  BY <1>1
<1> QED BY <1>1, <1>2 DEF LotCost

\* Which way a trade goes, and what it is of.
LEMMA TradeCases ==
  ASSUME NEW i, NEW asset, NEW weight, NEW total, NEW threshold, NEW spendable
  PROVE  LET a == Allocate(i, asset, weight, total, threshold, spendable)
             delta == Delta(asset, weight, total)
             cost == LotCost(i, asset)
             buy == WholeLots(Least(delta, spendable), cost)
             sell == Least(asset.lots, WholeLots(-delta, cost))
         IN \/ a = [action |-> "BUY", lots |-> buy, target_weight |-> weight]
               /\ delta > 0 /\ buy > 0
            \/ a = [action |-> "SELL", lots |-> sell, target_weight |-> weight]
               /\ delta < 0 /\ sell > 0
            \/ a = [action |-> "HOLD", lots |-> 0, target_weight |-> weight]
<1> DEFINE delta == Delta(asset, weight, total)
           cost == LotCost(i, asset)
           buy == WholeLots(Least(delta, spendable), cost)
           sell == Least(asset.lots, WholeLots(-delta, cost))
           beyond == Most(delta, -delta) >= threshold * total
           Buys == beyond /\ delta > 0 /\ asset.buy_enabled /\ buy > 0
           Sells == beyond /\ delta < 0 /\ asset.sell_enabled /\ sell > 0
           Action(action, lots) == [action |-> action, lots |-> lots, target_weight |-> weight]
<1>1. Allocate(i, asset, weight, total, threshold, spendable)
        = CASE Buys -> Action("BUY", buy) [] Sells -> Action("SELL", sell)
            [] OTHER -> Action("HOLD", 0)
  BY DEF Allocate
<1>2. (Buys => delta > 0 /\ buy > 0) /\ (Sells => delta < 0 /\ sell > 0)
  OBVIOUS
<1> HIDE DEF Buys, Sells, buy, sell, delta
<1>3. CASE Buys /\ ~Sells
  BY <1>1, <1>2, <1>3 DEF buy, sell, delta
<1>4. CASE Sells /\ ~Buys
  BY <1>1, <1>2, <1>4 DEF buy, sell, delta
<1>5. CASE ~Buys /\ ~Sells
  BY <1>1, <1>5 DEF buy, sell, delta
<1>6. CASE Buys /\ Sells
  BY <1>1, <1>2, <1>6 DEF buy, sell, delta
<1> QED BY <1>3, <1>4, <1>5, <1>6

\* What a trade is worth in parts of 1/Whole of a rouble.
Worth(i, asset, lots) == lots * LotCost(i, asset) * Whole

\* A trade is of some lots, no more than leads to the target, and a sale of no more
\* than are held.
TradeFits(i, asset, weight, total, a) ==
  /\ a \in PlannedAllocation /\ a.target_weight = weight
  /\ a.action = "BUY" => a.lots > 0 /\ Worth(i, asset, a.lots) <= Delta(asset, weight, total)
  /\ a.action = "SELL" => /\ a.lots > 0 /\ a.lots <= asset.lots
                          /\ Worth(i, asset, a.lots) <= -Delta(asset, weight, total)

LEMMA DeltaTyped ==
  ASSUME NEW asset, asset.value \in Int, NEW weight \in Int, NEW total \in Int
  PROVE  Delta(asset, weight, total) \in Int
<1>1. PICK v \in Int, w \in Int : v = asset.value /\ w = Whole
  BY SettingsAssumption
<1>2. weight * total - v * w \in Int
  OBVIOUS
<1> QED BY <1>1, <1>2 DEF Delta

LEMMA WorthTyped ==
  ASSUME NEW i \in Instruments, NEW asset, asset.price \in Nat, asset.price > 0,
         NEW lots \in Int
  PROVE  /\ Worth(i, asset, lots) \in Int
         /\ lots \in Nat => Worth(i, asset, lots) \in Nat
         /\ lots > 0 => Worth(i, asset, lots) > 0
<1>1. PICK c \in Nat, w \in Nat : c = LotCost(i, asset) /\ w = Whole /\ c > 0 /\ w > 0
  BY SettingsAssumption, CostTyped
<1>2. PICK u \in Nat : u = c * w /\ u > 0
  BY <1>1
<1>3. /\ lots * u \in Int
      /\ lots \in Nat => lots * u \in Nat
      /\ lots > 0 => lots * u > 0
  BY <1>2
<1>4. (lots * c) * w = lots * (c * w)
  OBVIOUS
<1> QED BY <1>1, <1>2, <1>3, <1>4 DEF Worth

\* Each trade fits, and a buy is paid from what may be spent.
LEMMA AllocateFits ==
  ASSUME NEW i \in Instruments, NEW asset \in AssetInput, asset.price > 0,
         NEW weight \in Weights, NEW total \in Int, NEW threshold, NEW spendable \in Nat
  PROVE  LET a == Allocate(i, asset, weight, total, threshold, spendable)
         IN /\ TradeFits(i, asset, weight, total, a)
            /\ a.action = "BUY" => Worth(i, asset, a.lots) <= spendable
<1> DEFINE a == Allocate(i, asset, weight, total, threshold, spendable)
           delta == Delta(asset, weight, total)
           cost == LotCost(i, asset)
           buy == WholeLots(Least(delta, spendable), cost)
           sold == WholeLots(-delta, cost)
           sell == Least(asset.lots, sold)
<1>1. /\ asset.price \in Nat /\ asset.value \in Nat /\ asset.lots \in Nat /\ weight \in Nat
  BY SettingsAssumption DEF AssetInput, Weights
<1>2. cost \in Nat /\ cost > 0 /\ delta \in Int
  BY <1>1, CostTyped, DeltaTyped
<1>3. \/ a = [action |-> "BUY", lots |-> buy, target_weight |-> weight]
               /\ delta > 0 /\ buy > 0
      \/ a = [action |-> "SELL", lots |-> sell, target_weight |-> weight]
               /\ delta < 0 /\ sell > 0
      \/ a = [action |-> "HOLD", lots |-> 0, target_weight |-> weight]
  BY TradeCases
<1>4. Least(delta, spendable) \in Int /\ Least(delta, spendable) <= delta
        /\ Least(delta, spendable) <= spendable
  BY <1>2 DEF Least
<1>5. /\ buy \in Int /\ Worth(i, asset, buy) <= delta /\ Worth(i, asset, buy) <= spendable
  <2>1. buy \in Int /\ Worth(i, asset, buy) <= Least(delta, spendable)
    BY <1>2, <1>4, LotsFit DEF Worth
  <2>2. Worth(i, asset, buy) \in Int
    BY <1>1, <2>1, WorthTyped
  <2> HIDE DEF buy, delta
  <2> QED BY <1>2, <1>4, <2>1, <2>2
<1>6. /\ sell \in Int /\ sell <= asset.lots /\ Worth(i, asset, sell) <= -delta
  <2>1. -delta \in Int
    BY <1>2
  <2>2. sold \in Int /\ Worth(i, asset, sold) <= -delta
    BY <1>2, <2>1, LotsFit DEF Worth
  <2>3. sell \in Int /\ sell <= asset.lots /\ sell <= sold
    BY <1>1, <2>2 DEF Least
  <2>4. Worth(i, asset, sell) <= Worth(i, asset, sold)
    <3>1. PICK w \in Nat : w = Whole
      BY SettingsAssumption
    <3>2. PICK u \in Nat : u = cost * w
      BY <1>2
    <3>3. PICK m \in Int, n \in Int : m = sell /\ n = sold /\ m <= n
      BY <2>2, <2>3
    <3>4. m * u <= n * u
      BY <3>3
    <3>5. (m * cost) * w = m * (cost * w) /\ (n * cost) * w = n * (cost * w)
      BY <1>2
    <3>6. Worth(i, asset, sell) = (m * cost) * w /\ Worth(i, asset, sold) = (n * cost) * w
      BY <3>1, <3>3 DEF Worth
    <3> QED BY <3>2, <3>4, <3>5, <3>6
  <2>5. Worth(i, asset, sell) \in Int /\ Worth(i, asset, sold) \in Int
    BY <1>1, <2>2, <2>3, WorthTyped
  <2> HIDE DEF sell, sold, delta
  <2> QED BY <2>1, <2>2, <2>3, <2>4, <2>5
<1> SUFFICES TradeFits(i, asset, weight, total, a)
             /\ (a.action = "BUY" => Worth(i, asset, a.lots) <= spendable)
  OBVIOUS
<1> HIDE DEF a, buy, sell, delta
<1>7. CASE a = [action |-> "BUY", lots |-> buy, target_weight |-> weight] /\ buy > 0
  BY <1>5, <1>7 DEF TradeFits, PlannedAllocation, AllocationAction, delta
<1>8. CASE a = [action |-> "SELL", lots |-> sell, target_weight |-> weight] /\ sell > 0
  BY <1>6, <1>8 DEF TradeFits, PlannedAllocation, AllocationAction, delta
<1>9. CASE a = [action |-> "HOLD", lots |-> 0, target_weight |-> weight]
  BY <1>9 DEF TradeFits, PlannedAllocation, AllocationAction
<1> QED BY <1>3, <1>7, <1>8, <1>9

\* What the buys of a plan spend, each in parts of 1/Whole of a rouble.
SpentOn(assets, allocations) ==
  [i \in DOMAIN assets |->
     IF allocations[i].action = "BUY" THEN Worth(i, assets[i], allocations[i].lots) ELSE 0]

\* The buys so far and the cash that is left are within the budget.
AffordableTrades(assets, weights, total, budget) ==
  {done \in [spendable : Nat, allocations : [DOMAIN assets -> PlannedAllocation]] :
     /\ \A i \in DOMAIN assets :
          TradeFits(i, assets[i], weights[i], total, done.allocations[i])
     /\ done.spendable + SumOf(SpentOn(assets, done.allocations), DOMAIN assets) <= budget}

\* What create_plan has checked of the assets.
Tradable(assets, constraints) ==
  /\ WellFormed(assets, constraints)
  /\ DOMAIN assets \subseteq Instruments
  /\ \A i \in DOMAIN assets : assets[i].price > 0

LEMMA WeightsTyped ==
  ASSUME NEW assets, NEW constraints, WellFormed(assets, constraints),
         NEW weights \in Fitting(assets, constraints)
  PROVE  /\ \A i \in DOMAIN assets : weights[i] \in Weights
         /\ weights \in [DOMAIN assets -> Nat] /\ DOMAIN weights = DOMAIN assets
         /\ CashWeight(weights) \in Weights
         /\ CashWeight(weights) >= constraints.min_cash_weight
<1>1. weights \in [DOMAIN assets -> Nat] /\ IsFiniteSet(DOMAIN assets)
  BY DEF Fitting, WellFormed
<1>2. \A i \in DOMAIN assets : weights[i] \in Weights
  <2> SUFFICES ASSUME NEW i \in DOMAIN assets PROVE weights[i] \in Weights
    OBVIOUS
  <2>1. weights[i] \in Nat /\ weights[i] <= Cap(assets[i], constraints)
    BY DEF Fitting
  <2>2. Cap(assets[i], constraints) \in Weights
    BY CapTyped
  <2> QED BY <2>1, <2>2, SettingsAssumption DEF Weights
<1>3. SumOf(weights, DOMAIN assets) \in Nat
  BY <1>1, SumNat
<1>4. SumOf(weights, DOMAIN assets) <= Whole - constraints.min_cash_weight
  BY DEF Fitting, Investable
<1>5. constraints.min_cash_weight \in Nat /\ Whole \in Nat
  BY SettingsAssumption DEF WellFormed, RiskProfile, Weights
<1>6. DOMAIN weights = DOMAIN assets
  BY <1>1
<1>7. CashWeight(weights) = Whole - SumOf(weights, DOMAIN assets)
  BY <1>6 DEF CashWeight
<1> QED BY <1>1, <1>2, <1>3, <1>4, <1>5, <1>6, <1>7 DEF Weights

\* A fitting trade is worth what can be counted.
LEMMA SpentTyped ==
  ASSUME NEW assets, NEW constraints, Tradable(assets, constraints),
         NEW allocations \in [DOMAIN assets -> PlannedAllocation]
  PROVE  \A i \in DOMAIN assets : SpentOn(assets, allocations)[i] \in Nat
<1> SUFFICES ASSUME NEW i \in DOMAIN assets PROVE SpentOn(assets, allocations)[i] \in Nat
  OBVIOUS
<1>1. i \in Instruments /\ assets[i].price \in Nat /\ assets[i].price > 0
  BY DEF Tradable, WellFormed, AssetInput
<1>2. allocations[i].lots \in Nat
  BY DEF PlannedAllocation
<1>3. Worth(i, assets[i], allocations[i].lots) \in Nat
  BY <1>1, <1>2, WorthTyped
<1> QED BY <1>3 DEF SpentOn

\* One more target keeps the budget.
LEMMA TradeKeepsBudget ==
  ASSUME NEW assets, NEW constraints, Tradable(assets, constraints),
         NEW weights \in Fitting(assets, constraints), NEW total \in Int, NEW budget \in Nat,
         NEW done \in AffordableTrades(assets, weights, total, budget),
         NEW i \in DOMAIN assets
  PROVE  NextTrades(done, i, assets, weights, constraints, total)
           \in AffordableTrades(assets, weights, total, budget)
<1> DEFINE D == DOMAIN assets
           a == Trade(i, assets, weights, constraints, total, done.spendable)
           next == NextTrades(done, i, assets, weights, constraints, total)
           f == SpentOn(assets, done.allocations)
           g == SpentOn(assets, next.allocations)
<1>1. /\ done.spendable \in Nat /\ done.allocations \in [D -> PlannedAllocation]
      /\ \A j \in D : TradeFits(j, assets[j], weights[j], total, done.allocations[j])
      /\ done.spendable + SumOf(f, D) <= budget
  BY DEF AffordableTrades
<1>2. /\ TradeFits(i, assets[i], weights[i], total, a)
      /\ a.action = "BUY" => Worth(i, assets[i], a.lots) <= done.spendable
  <2>1. assets[i] \in AssetInput /\ assets[i].price > 0 /\ i \in Instruments
    BY DEF Tradable, WellFormed
  <2>2. weights[i] \in Weights
    BY WeightsTyped DEF Tradable
  <2> QED BY <1>1, <2>1, <2>2, AllocateFits DEF Trade
<1>3. next.allocations = [done.allocations EXCEPT ![i] = a]
  BY DEF NextTrades
<1>4. a \in PlannedAllocation
  BY <1>2 DEF TradeFits
<1> HIDE DEF a
<1>5. /\ next.allocations \in [D -> PlannedAllocation]
      /\ next.allocations[i] = a
      /\ \A j \in D \ {i} : next.allocations[j] = done.allocations[j]
  BY <1>1, <1>3, <1>4
<1>6. \A j \in D : TradeFits(j, assets[j], weights[j], total, next.allocations[j])
  BY <1>1, <1>2, <1>5
<1>7. /\ \A j \in D : f[j] \in Nat /\ g[j] \in Nat
      /\ \A j \in D \ {i} : g[j] = f[j]
  BY <1>1, <1>5, SpentTyped DEF SpentOn
<1>8. IsFiniteSet(D) /\ IsFiniteSet(D \ {i})
  BY FS_Subset DEF Tradable, WellFormed
<1>9. /\ next.spendable \in Nat
      /\ next.spendable = done.spendable - g[i]
  <2>1. g[i] = IF a.action = "BUY" THEN Worth(i, assets[i], a.lots) ELSE 0
    BY <1>5 DEF SpentOn
  <2>2. next.spendable = IF a.action = "BUY"
                         THEN done.spendable - Worth(i, assets[i], a.lots)
                         ELSE done.spendable
    BY DEF NextTrades, Spend, Worth, a
  <2> HIDE DEF next, g
  <2> QED BY <1>1, <1>2, <1>7, <2>1, <2>2
<1>n. next = [spendable |-> next.spendable, allocations |-> next.allocations]
  BY DEF NextTrades
<1> HIDE DEF f, g, next, D
<1>10. /\ SumOf(f, D) \in Int /\ SumOf(g, D) \in Int
       /\ SumOf(f, D \ {i}) \in Int
       /\ SumOf(f, D) = f[i] + SumOf(f, D \ {i})
       /\ SumOf(g, D) = g[i] + SumOf(g, D \ {i})
       /\ SumOf(g, D \ {i}) = SumOf(f, D \ {i})
  <2>1. i \in D /\ D \in SUBSET D /\ D \ {i} \in SUBSET D
    BY DEF D
  <2>2. \A j \in D : f[j] \in Int /\ g[j] \in Int
    BY <1>7
  <2>3. /\ SumOf(f, D) \in Int /\ SumOf(g, D) \in Int /\ SumOf(f, D \ {i}) \in Int
    BY <1>8, <2>1, <2>2, SumTyped
  <2>4. SumOf(f, D) = f[i] + SumOf(f, D \ {i}) /\ SumOf(g, D) = g[i] + SumOf(g, D \ {i})
    BY <1>8, <2>1, <2>2, SumRemove
  <2>5. SumOf(g, D \ {i}) = SumOf(f, D \ {i})
    BY <1>7, <1>8, <2>2, SumSame
  <2> QED BY <2>3, <2>4, <2>5
<1>11. f[i] \in Nat /\ g[i] \in Nat
  BY <1>7 DEF D
<1>12. next.spendable + SumOf(g, D) <= budget
  BY <1>1, <1>9, <1>10, <1>11
<1>13. next \in [spendable : Nat, allocations : [D -> PlannedAllocation]]
  BY <1>5, <1>9, <1>n
<1> QED BY <1>6, <1>12, <1>13 DEF AffordableTrades, D, g, next

\* All of them together are within it.
LEMMA AllocationsFit ==
  ASSUME NEW assets, NEW constraints, Tradable(assets, constraints),
         NEW weights \in Fitting(assets, constraints), NEW total \in Int, NEW cash \in Int,
         NEW order \in SetToSeqs(DOMAIN assets)
  PROVE  LET allocations == Allocations(assets, weights, order, constraints, total, cash)
             budget == Most(0, cash * Whole - total * CashWeight(weights))
         IN /\ allocations \in [DOMAIN assets -> PlannedAllocation]
            /\ \A i \in DOMAIN assets :
                 TradeFits(i, assets[i], weights[i], total, allocations[i])
            /\ SumOf(SpentOn(assets, allocations), DOMAIN assets) <= budget
<1> DEFINE D == DOMAIN assets
           first == FirstTrades(assets, weights, total, cash)
           budget == Most(0, cash * Whole - total * CashWeight(weights))
           T == AffordableTrades(assets, weights, total, budget)
<1>1. /\ \A i \in D : weights[i] \in Weights
      /\ CashWeight(weights) \in Int /\ IsFiniteSet(D)
  BY WeightsTyped DEF Tradable, WellFormed, Weights
<1>2. budget \in Nat
  <2>1. PICK c \in Int, w \in Int : c = CashWeight(weights) /\ w = Whole
    BY <1>1, SettingsAssumption
  <2>2. cash * w - total * c \in Int
    OBVIOUS
  <2> QED BY <2>1, <2>2 DEF Most
<1>3. first.spendable = budget /\ first = [spendable |-> first.spendable,
                                           allocations |-> first.allocations]
  BY DEF FirstTrades
<1>4. \A i \in D : first.allocations[i] = [action |-> "HOLD", lots |-> 0,
                                            target_weight |-> weights[i]]
  BY DEF FirstTrades
<1>5. first.allocations = [i \in D |-> first.allocations[i]]
  BY DEF FirstTrades
<1> HIDE DEF first, budget
<1> DEFINE f == SpentOn(assets, first.allocations)
<1>6. \A i \in D : f[i] = 0
  <2> SUFFICES ASSUME NEW i \in D PROVE f[i] = 0
    OBVIOUS
  <2>1. PICK a : a = first.allocations[i]
                 /\ a = [action |-> "HOLD", lots |-> 0, target_weight |-> weights[i]]
    BY <1>4
  <2>2. a.action = "HOLD"
    BY <2>1
  <2> QED BY <2>1, <2>2 DEF SpentOn
<1>7. ASSUME NEW i \in D
      PROVE  /\ first.allocations[i] \in PlannedAllocation
             /\ TradeFits(i, assets[i], weights[i], total, first.allocations[i])
  <2>1. PICK a : a = first.allocations[i]
                 /\ a = [action |-> "HOLD", lots |-> 0, target_weight |-> weights[i]]
    BY <1>4
  <2>2. a \in PlannedAllocation
    BY <1>1, <2>1 DEF PlannedAllocation, AllocationAction
  <2>3. a.action = "HOLD" /\ a.target_weight = weights[i]
    BY <2>1
  <2>4. TradeFits(i, assets[i], weights[i], total, a)
    BY <2>2, <2>3 DEF TradeFits
  <2> QED BY <2>1, <2>2, <2>4
<1>8. SumOf(f, D) = 0
  <2>1. {} \in SUBSET D /\ \A i \in D : f[i] \in Int
    BY <1>6
  <2> HIDE DEF f, D
  <2>2. SumOf(f, D) = SumOf(f, {})
    BY <1>1, <1>6, <2>1, SumSupport
  <2> QED BY <2>2, SumEmpty
<1>9. first \in T
  <2>1. first.allocations \in [D -> PlannedAllocation]
    BY <1>5, <1>7
  <2>2. first \in [spendable : Nat, allocations : [D -> PlannedAllocation]]
    BY <1>2, <1>3, <2>1
  <2>3. first.spendable + SumOf(f, D) <= budget
    BY <1>2, <1>3, <1>8
  <2> QED BY <1>7, <2>2, <2>3 DEF AffordableTrades
<1>10. \A done \in T, i \in D : NextTrades(done, i, assets, weights, constraints, total) \in T
  BY <1>2, TradeKeepsBudget
<1> HIDE DEF T
<1>11. PICK done \in T :
         Allocations(assets, weights, order, constraints, total, cash) = done.allocations
  BY <1>1, <1>9, <1>10, AllocationsKeep DEF first
<1>12. /\ done.allocations \in [D -> PlannedAllocation]
       /\ \A i \in D : TradeFits(i, assets[i], weights[i], total, done.allocations[i])
       /\ done.spendable \in Nat
       /\ done.spendable + SumOf(SpentOn(assets, done.allocations), D) <= budget
  BY DEF T, AffordableTrades
<1>13. SumOf(SpentOn(assets, done.allocations), D) \in Int
  BY <1>1, <1>12, SpentTyped, SumNat
<1>14. SumOf(SpentOn(assets, done.allocations), D) <= budget
  BY <1>2, <1>12, <1>13
<1> QED BY <1>11, <1>12, <1>14 DEF budget

----------------------------------------------------------------------------
(* The plans that are saved                                                 *)

WeightsOf(p) == [i \in DOMAIN p.assets |-> p.allocations[i].target_weight]

\* The assets are those of the portfolio.
TakenFrom(portfolio, assets) ==
  \A i \in DOMAIN assets :
    /\ assets[i].value = portfolio.quantity[i] * portfolio.mark[i]
    /\ assets[i].lots = portfolio.quantity[i] \div Lot[i]
    /\ assets[i].price = portfolio.price[i]

CashOf(portfolio, assets) ==
  Most(0, Total(portfolio) - SumOf([i \in DOMAIN assets |-> assets[i].value], DOMAIN assets))

BudgetOf(portfolio, assets, weights) ==
  Most(0, CashOf(portfolio, assets) * Whole - Total(portfolio) * CashWeight(weights))

\* What holds of every plan that create_plan saves.
Made(p) ==
  /\ Tradable(p.assets, p.constraints) /\ DOMAIN p.assets # {}
  /\ p.portfolio \in Portfolios /\ Total(p.portfolio) > 0
  /\ TakenFrom(p.portfolio, p.assets)
  /\ Valid(p.assets, p.constraints) /\ WeightsOf(p) = optimize(p.assets, p.constraints)
  /\ WeightsOf(p) \in Fitting(p.assets, p.constraints)
  /\ p.cash_weight = CashWeight(WeightsOf(p))
  /\ p.allocations \in [DOMAIN p.assets -> PlannedAllocation]
  /\ \A i \in DOMAIN p.assets :
       TradeFits(i, p.assets[i], WeightsOf(p)[i], Total(p.portfolio), p.allocations[i])
  /\ SumOf(SpentOn(p.assets, p.allocations), DOMAIN p.assets)
       <= BudgetOf(p.portfolio, p.assets, WeightsOf(p))

PlanInv ==
  /\ SettingsInv
  /\ signals \in [Instruments -> Scores \cup {NoSignal}]
  /\ planning \in RiskProfile \cup {NotPlanning}
  /\ plans \in 0 .. MaxPlans
  /\ plan # NoPlan => Made(plan)

LEMMA PortfolioTyped ==
  ASSUME NEW portfolio \in Portfolios
  PROVE  /\ \A i \in Instruments :
              /\ portfolio.quantity[i] \in Int /\ portfolio.mark[i] \in Int
              /\ portfolio.price[i] \in Int
              /\ portfolio.quantity[i] * portfolio.mark[i] \in Int
         /\ portfolio.money \in Int
         /\ Total(portfolio) \in Int
<1>1. /\ portfolio.quantity \in [Instruments -> Int] /\ portfolio.mark \in [Instruments -> Int]
      /\ portfolio.price \in [Instruments -> Int] /\ portfolio.money \in Int
  BY PortfolioAssumption
<1> DEFINE f == [i \in Instruments |-> portfolio.quantity[i] * portfolio.mark[i]]
<1>2. ASSUME NEW i \in Instruments
      PROVE  /\ portfolio.quantity[i] \in Int /\ portfolio.mark[i] \in Int
             /\ portfolio.price[i] \in Int
             /\ portfolio.quantity[i] * portfolio.mark[i] \in Int
  <2>1. PICK q \in Int, m \in Int : q = portfolio.quantity[i] /\ m = portfolio.mark[i]
    BY <1>1
  <2>2. q * m \in Int
    OBVIOUS
  <2> QED BY <1>1, <2>1, <2>2
<1>3. \A i \in Instruments : f[i] \in Int
  BY <1>2
<1>t. Total(portfolio) = portfolio.money + SumOf(f, Instruments)
  BY DEF Total
<1> HIDE DEF f
<1>4. SumOf(f, Instruments) \in Int
  BY <1>3, SumTyped, PlanAssumption
<1> QED BY <1>1, <1>2, <1>4, <1>t

\* The plan of an optimizer and a planner that were called with what create_plan reads.
LEMMA PlanIsMade ==
  ASSUME NEW assets, NEW constraints, NEW portfolio \in Portfolios, NEW order, NEW p,
         Tradable(assets, constraints), DOMAIN assets # {}, Valid(assets, constraints),
         TakenFrom(portfolio, assets), Total(portfolio) > 0,
         NEW weights, weights = optimize(assets, constraints),
         order \in SetToSeqs(DOMAIN assets),
         p = [assets |-> assets, constraints |-> constraints, portfolio |-> portfolio,
              cash_weight |-> CashWeight(weights),
              allocations |-> Allocations(assets, weights, order, constraints,
                                          Total(portfolio), CashOf(portfolio, assets))]
  PROVE  Made(p)
<1> DEFINE D == DOMAIN assets
           total == Total(portfolio)
           cash == CashOf(portfolio, assets)
           value == [i \in D |-> assets[i].value]
           allocations == Allocations(assets, weights, order, constraints, total, cash)
<1>1. weights \in Fitting(assets, constraints)
  BY OptimizeFits DEF Tradable
<1>2. total \in Int
  BY PortfolioTyped
<1>3. cash \in Int
  <2>1. \A i \in D : value[i] \in Int
    BY DEF Tradable, WellFormed, AssetInput
  <2>2. IsFiniteSet(D)
    BY DEF Tradable, WellFormed
  <2> HIDE DEF value, D
  <2>3. SumOf(value, D) \in Int
    BY <2>1, <2>2, SumTyped
  <2>4. cash = Most(0, total - SumOf(value, D))
    BY DEF CashOf, value, D
  <2> HIDE DEF cash, total
  <2> QED BY <1>2, <2>3, <2>4 DEF Most
<1>4. /\ allocations \in [D -> PlannedAllocation]
      /\ \A i \in D : TradeFits(i, assets[i], weights[i], total, allocations[i])
      /\ SumOf(SpentOn(assets, allocations), D)
           <= Most(0, cash * Whole - total * CashWeight(weights))
  BY <1>1, <1>2, <1>3, AllocationsFit
<1>5. /\ p.assets = assets /\ p.constraints = constraints /\ p.portfolio = portfolio
      /\ p.cash_weight = CashWeight(weights) /\ p.allocations = allocations
  OBVIOUS
<1> HIDE DEF allocations
<1>6. WeightsOf(p) = weights
  <2>1. \A i \in D : allocations[i].target_weight = weights[i]
    BY <1>4 DEF TradeFits
  <2>2. weights = [i \in D |-> weights[i]]
    BY <1>1 DEF Fitting
  <2> QED BY <1>5, <2>1, <2>2 DEF WeightsOf
<1> QED BY <1>1, <1>4, <1>5, <1>6 DEF Made, BudgetOf

LEMMA InitPlans == Init => PlanInv
BY InitInv, PlanAssumption DEF Init, PlanInv

LEMMA SavedPlanIsMade ==
  ASSUME PlanInv, create_plan
  PROVE  Made(plan') /\ plans' = plans + 1
<1> PICK portfolio, assets, weights, order :
      /\ portfolio \in Portfolios
      /\ assets = [i \in Watched |-> Asset(i, watchlist[i], portfolio)]
      /\ weights = optimize(assets, planning)
      /\ Total(portfolio) > 0
      /\ Valid(assets, planning)
      /\ order \in Orders(assets, weights)
      /\ save_plan(assets, planning, portfolio, weights,
                   Allocations(assets, weights, order, planning, Total(portfolio),
                     Most(0, Total(portfolio)
                               - SumOf([i \in Watched |-> assets[i].value], Watched))))
  BY DEF create_plan
<1> PICK D : D = Watched
  OBVIOUS
<1>1. D \subseteq Instruments /\ IsFiniteSet(D) /\ D # {} /\ DOMAIN assets = D
  BY PlanAssumption, FS_Subset DEF Watched, create_plan
<1>2. planning \in RiskProfile
  BY DEF PlanInv, create_plan
<1>3. ASSUME NEW i \in D
      PROVE  /\ assets[i] = Asset(i, watchlist[i], portfolio)
             /\ watchlist[i] \in WatchlistItem /\ signals[i] \in Weights
  <2>1. watchlist[i] \in WatchlistItem
    BY <1>1 DEF PlanInv, SettingsInv, SettingsTypeOK, Watched
  <2>2. signals[i] \in Scores
    BY <1>1 DEF PlanInv, create_plan
  <2> QED BY <2>1, <2>2, PlanAssumption
<1>4. ASSUME NEW i \in D
      PROVE  assets[i] \in AssetInput /\ assets[i].price > 0
  <2>1. PICK q \in Int, m \in Int, p \in Int, v \in Int, l \in Int, n \in Nat :
          /\ q = portfolio.quantity[i] /\ m = portfolio.mark[i] /\ p = portfolio.price[i]
          /\ v = q * m /\ n = Lot[i] /\ l = q \div n
    <3>1. PICK n \in Nat : n = Lot[i] /\ n > 0
      BY <1>1, PlanAssumption
    <3>2. PICK q \in Int : q = portfolio.quantity[i]
      BY <1>1, PortfolioTyped
    <3>3. q \div n \in Int
      BY <3>1
    <3> QED BY <1>1, <3>1, <3>2, <3>3, PortfolioTyped
  <2>2. assets[i].price > 0 /\ assets[i].value >= 0 /\ assets[i].lots >= 0
    BY <1>1 DEF Valid
  <2>3. PICK a : a = Asset(i, watchlist[i], portfolio) /\ a = assets[i]
    BY <1>3
  <2>4. a.value = v /\ a.lots = l /\ a.price = p
    BY <2>1, <2>3 DEF Asset
  <2>5. v \in Nat /\ l \in Nat /\ p \in Nat
    BY <2>1, <2>2, <2>3, <2>4
  <2>6. EligibleScore(i, watchlist[i]) \in Weights
    BY <1>3, SettingsAssumption DEF EligibleScore, Weights
  <2>7. /\ watchlist[i].buy_enabled \in BOOLEAN /\ watchlist[i].sell_enabled \in BOOLEAN
        /\ watchlist[i].max_weight \in Weights \cup {NoWeight}
        /\ watchlist[i].manual_target_weight \in Weights \cup {NoWeight}
        /\ watchlist[i].priority \in Nat
    BY <1>3 DEF WatchlistItem
  <2>8. a = [score |-> EligibleScore(i, watchlist[i]), value |-> v, lots |-> l, price |-> p,
             buy_enabled |-> watchlist[i].buy_enabled,
             sell_enabled |-> watchlist[i].sell_enabled,
             max_weight |-> watchlist[i].max_weight,
             manual_target_weight |-> watchlist[i].manual_target_weight,
             priority |-> watchlist[i].priority]
    BY <2>1, <2>3 DEF Asset
  <2> QED BY <2>2, <2>3, <2>5, <2>6, <2>7, <2>8 DEF AssetInput
<1>5. Tradable(assets, planning)
  BY <1>1, <1>2, <1>4 DEF Tradable, WellFormed
<1>6. TakenFrom(portfolio, assets)
  BY <1>1, <1>3 DEF TakenFrom, Asset
<1>7. order \in SetToSeqs(DOMAIN assets)
  BY DEF Orders
<1>8. plan' = [assets |-> assets, constraints |-> planning, portfolio |-> portfolio,
               cash_weight |-> CashWeight(weights),
               allocations |-> Allocations(assets, weights, order, planning,
                                           Total(portfolio), CashOf(portfolio, assets))]
  BY <1>1 DEF save_plan, CashOf
<1>9. Made(plan')
  BY <1>1, <1>5, <1>6, <1>7, <1>8, PlanIsMade
<1> QED BY <1>9 DEF save_plan

LEMMA StepKeepsPlans ==
  ASSUME PlanInv, [Next]_vars
  PROVE  PlanInv'
<1>1. SettingsInv'
  BY StepKeepsInv DEF PlanInv
<1>2. CASE UNCHANGED <<signals, planning, plan, plans>>
  BY <1>1, <1>2 DEF PlanInv, Made
<1>3. CASE AnalyzeWatchlist
  <2>1. signals' \in [Instruments -> Scores \cup {NoSignal}]
    BY <1>3 DEF AnalyzeWatchlist, PlanInv
  <2> QED BY <1>1, <1>3, <2>1 DEF AnalyzeWatchlist, PlanInv, Made
<1>4. CASE get_risk_profile
  <2>1. risk \in RiskProfile
    BY DEF PlanInv, SettingsInv, SettingsTypeOK
  <2> QED BY <1>1, <1>4, <2>1 DEF get_risk_profile, PlanInv, Made
<1>5. CASE create_plan /\ plans < MaxPlans
  <2>1. plans' \in 0 .. MaxPlans
    BY <1>5, SavedPlanIsMade, PlanAssumption DEF PlanInv
  <2>2. Made(plan')
    BY <1>5, SavedPlanIsMade
  <2>3. signals' = signals /\ planning' = NotPlanning
    BY <1>5 DEF create_plan
  <2> QED BY <1>1, <2>1, <2>2, <2>3 DEF PlanInv, Made
<1>6. CASE RaisePlan
  BY <1>1, <1>6 DEF RaisePlan, PlanInv, Made
<1> QED BY <1>2, <1>3, <1>4, <1>5, <1>6 DEF Next, vars

LEMMA PlansMade == Spec => []PlanInv
BY InitPlans, StepKeepsPlans, PTL DEF Spec

----------------------------------------------------------------------------
(* The theorems                                                             *)

LEMMA MadeTyped ==
  ASSUME NEW p, Made(p)
  PROVE  /\ DOMAIN p.assets \subseteq Instruments /\ DOMAIN p.assets # {}
         /\ \A i \in DOMAIN p.assets :
              p.assets[i] \in AssetInput /\ p.allocations[i] \in PlannedAllocation
         /\ p.constraints \in RiskProfile
         /\ p.cash_weight \in Weights
<1>1. p.cash_weight \in Weights
  BY WeightsTyped DEF Made, Tradable
<1> QED BY <1>1 DEF Made, Tradable, WellFormed

\* A plan is of instruments of the watchlist, with weights that are parts of Whole and
\* lots that are numbers, whatever the broker answers and the administrator stores.
THEOREM PlanTypeCorrect == Spec => []TypeOK
<1>1. ASSUME PlanInv PROVE TypeOK
  BY <1>1, MadeTyped DEF PlanInv, SettingsInv, TypeOK
<1> QED BY <1>1, PlansMade, PTL

LEMMA MadeWithinLimits ==
  ASSUME NEW p, Made(p)
  PROVE  /\ p.cash_weight >= p.constraints.min_cash_weight
         /\ \A i \in DOMAIN p.assets :
              LET w == p.allocations[i].target_weight
              IN /\ w <= p.constraints.max_position_weight
                 /\ p.assets[i].max_weight \notin {NoWeight, 0} => w <= p.assets[i].max_weight
                 /\ w > 0 => i \in Manual(p.assets) \cup Candidates(p.assets)
<1>1. p.cash_weight >= p.constraints.min_cash_weight
  BY WeightsTyped DEF Made, Tradable
<1>2. ASSUME NEW i \in DOMAIN p.assets
      PROVE  LET w == p.allocations[i].target_weight
             IN /\ w <= p.constraints.max_position_weight
                /\ p.assets[i].max_weight \notin {NoWeight, 0} => w <= p.assets[i].max_weight
                /\ w > 0 => i \in Manual(p.assets) \cup Candidates(p.assets)
  <2>1. PICK w : w = p.allocations[i].target_weight /\ w = WeightsOf(p)[i]
    BY DEF WeightsOf
  <2>2. /\ w \in Nat /\ w <= Cap(p.assets[i], p.constraints)
        /\ w > 0 => i \in Manual(p.assets) \cup Candidates(p.assets)
    BY <2>1 DEF Made, Fitting
  <2>3. /\ p.constraints.max_position_weight \in Nat
        /\ p.assets[i].max_weight \in Weights \cup {NoWeight}
    BY DEF Made, Tradable, WellFormed, RiskProfile, AssetInput, Weights
  <2>4. PICK m : m = p.assets[i].max_weight
    OBVIOUS
  <2>5. m \in Nat \cup {NoWeight} /\ Whole \in Nat
    BY <2>3, <2>4, SettingsAssumption DEF Weights
  <2>6. Cap(p.assets[i], p.constraints)
          = Least(p.constraints.max_position_weight, IF m \in {NoWeight, 0} THEN Whole ELSE m)
    BY <2>4 DEF Cap
  <2>7. w <= p.constraints.max_position_weight /\ (m \notin {NoWeight, 0} => w <= m)
    <3>1. CASE m \in {NoWeight, 0}
      BY <2>2, <2>3, <2>5, <2>6, <3>1 DEF Least
    <3>2. CASE m \notin {NoWeight, 0}
      <4>1. m \in Nat
        BY <2>5, <3>2
      <4> QED BY <2>2, <2>3, <2>6, <3>2, <4>1 DEF Least
    <3> QED BY <3>1, <3>2
  <2> QED BY <2>1, <2>2, <2>4, <2>7
<1> QED BY <1>1, <1>2

\* Every plan keeps the cash reserve and both limits of a position, and gives a weight
\* only to an administrator's target or to an eligible signal.
THEOREM LimitsKept == Spec => []TargetsWithinLimits
<1>1. ASSUME PlanInv PROVE TargetsWithinLimits
  BY <1>1, MadeWithinLimits DEF PlanInv, TargetsWithinLimits, Targets, WeightOf
<1> QED BY <1>1, PlansMade, PTL

\* Who is below its cap has the share of its score in what any other got, and while one is
\* below its cap all that may be invested is: where the rounds leave no rest.
THEOREM SharesAreFair ==
  Spec => []((plan # NoPlan => DivisionsExact(plan.assets, plan.constraints)) => FairShares)
<1>1. ASSUME PlanInv, plan # NoPlan, DivisionsExact(plan.assets, plan.constraints)
      PROVE  FairShares
  <2> DEFINE w == WeightsOf(plan)
             c == Candidates(plan.assets)
             below == {i \in c : WeightOf(i) < CapOf(i)}
  <2>1. Made(plan)
    BY <1>1 DEF PlanInv
  <2>2. w \in Fair(plan.assets, plan.constraints)
    BY <1>1, <2>1, OptimizeIsFair DEF Made, Tradable
  <2>3. c \subseteq DOMAIN plan.assets /\ \A i \in c : w[i] = WeightOf(i)
    BY DEF Candidates, WeightsOf, WeightOf
  <2>4. below = Below(w, plan.assets, plan.constraints)
    BY <2>3 DEF Below, CapOf
  <2>5. \A i \in below, j \in c :
          WeightOf(j) * plan.assets[i].score <= WeightOf(i) * plan.assets[j].score
    <3> HIDE DEF w
    <3> QED BY <2>2, <2>3, <2>4 DEF Fair, ShareKept
  <2>6. ASSUME below # {} PROVE plan.cash_weight = plan.constraints.min_cash_weight
    <3>1. SumOf(w, DOMAIN plan.assets) = Whole - plan.constraints.min_cash_weight
      BY <2>2, <2>4, <2>6 DEF Fair, Investable
    <3>2. DOMAIN w = DOMAIN plan.assets
      BY DEF WeightsOf
    <3>3. plan.cash_weight = Whole - SumOf(w, DOMAIN plan.assets)
      BY <2>1, <3>2 DEF Made, CashWeight
    <3>4. Whole \in Int /\ plan.constraints.min_cash_weight \in Int
      BY <2>1, SettingsAssumption DEF Made, Tradable, WellFormed, RiskProfile, Weights
    <3> HIDE DEF w
    <3> QED BY <3>1, <3>3, <3>4
  <2> QED BY <2>5, <2>6 DEF FairShares
<1>2. PlanInv => ((plan # NoPlan => DivisionsExact(plan.assets, plan.constraints)) => FairShares)
  BY <1>1 DEF FairShares
<1> QED BY <1>2, PlansMade, PTL

\* The arithmetic of the reserve.
LEMMA ReserveLeft ==
  ASSUME NEW money \in Int, NEW spent \in Int, NEW total \in Int, NEW reserve \in Int,
         NEW least \in Int, total > 0, least <= reserve, 0 <= least, spent > 0,
         Whole * spent <= Most(0, Most(0, money) * Whole - total * reserve)
  PROVE  (money - spent) * Whole >= total * least
<1>1. PICK w \in Nat : w = Whole /\ w > 0
  BY SettingsAssumption
<1>2. PICK c \in Nat : c = Most(0, money)
  BY DEF Most
<1>3. PICK d \in Int, r \in Nat, l \in Nat, s \in Int, m \in Int :
        /\ d = c * w - r /\ r = total * reserve /\ l = total * least /\ s = w * spent
        /\ m = money * w
  BY <1>1
<1>4. l <= r
  <2>1. total * (reserve - least) >= 0
    OBVIOUS
  <2>2. total * (reserve - least) = total * reserve - total * least
    OBVIOUS
  <2> QED BY <1>3, <2>1, <2>2
<1>5. s > 0 /\ s <= Most(0, d)
  BY <1>1, <1>2, <1>3
<1>6. s <= c * w - r
  BY <1>3, <1>5 DEF Most
<1>7. c = money
  <2> SUFFICES ASSUME c = 0 PROVE FALSE
    BY <1>2 DEF Most
  <2>1. c * w = 0
    BY <1>1
  <2> QED BY <1>3, <1>5, <1>6, <2>1
<1>8. (money - spent) * w = m - s
  BY <1>1, <1>3
<1>9. s <= m - r
  BY <1>3, <1>6, <1>7
<1>10. m - s >= l
  BY <1>3, <1>4, <1>9
<1> QED BY <1>1, <1>3, <1>8, <1>10

\* The cash of a plan whose positions are all of the watchlist is the money of the account.
LEMMA CashIsMoney ==
  ASSUME NEW portfolio \in Portfolios, NEW assets, IsFiniteSet(DOMAIN assets),
         DOMAIN assets \subseteq Instruments, TakenFrom(portfolio, assets),
         \A i \in Instruments \ DOMAIN assets : portfolio.quantity[i] = 0
  PROVE  CashOf(portfolio, assets) = Most(0, portfolio.money)
<1> DEFINE D == DOMAIN assets
           f == [i \in Instruments |-> portfolio.quantity[i] * portfolio.mark[i]]
           v == [i \in D |-> assets[i].value]
<1>1. \A i \in Instruments : f[i] \in Int
  BY PortfolioTyped
<1>2. ASSUME NEW i \in Instruments \ D PROVE f[i] = 0
  <2>1. PICK m \in Int : m = portfolio.mark[i]
    BY PortfolioTyped
  <2>2. 0 * m = 0
    BY <2>1
  <2> QED BY <2>1, <2>2
<1>3. \A i \in D : v[i] \in Int /\ v[i] = f[i]
  BY <1>1 DEF TakenFrom
<1>t. Total(portfolio) = portfolio.money + SumOf(f, Instruments)
  BY DEF Total
<1>4. CashOf(portfolio, assets) = Most(0, Total(portfolio) - SumOf(v, D))
  BY DEF CashOf
<1>5. D \in SUBSET Instruments /\ IsFiniteSet(D) /\ IsFiniteSet(Instruments)
  BY PlanAssumption
<1> HIDE DEF f, v, D
<1>6. SumOf(f, Instruments) = SumOf(f, D)
  BY <1>1, <1>2, <1>5, SumSupport
<1>7. SumOf(v, D) = SumOf(f, D)
  BY <1>3, <1>5, SumSame
<1>8. SumOf(f, D) \in Int /\ portfolio.money \in Int
  BY <1>1, <1>5, SumTyped, PortfolioTyped
<1>9. Total(portfolio) - SumOf(v, D) = portfolio.money
  BY <1>t, <1>6, <1>7, <1>8
<1> QED BY <1>4, <1>9

LEMMA MadeAffordable ==
  ASSUME NEW p, Made(p), NEW B, B = {i \in DOMAIN p.assets : p.allocations[i].action = "BUY"},
         B # {}, \A i \in Instruments \ DOMAIN p.assets : p.portfolio.quantity[i] = 0
  PROVE  (p.portfolio.money
            - SumOf([i \in B |-> p.allocations[i].lots * LotCost(i, p.assets[i])], B)) * Whole
           >= Total(p.portfolio) * p.constraints.min_cash_weight
<1> DEFINE D == DOMAIN p.assets
           f == [i \in B |-> p.allocations[i].lots * LotCost(i, p.assets[i])]
           g == SpentOn(p.assets, p.allocations)
           spent == SumOf(f, B)
           weights == WeightsOf(p)
           total == Total(p.portfolio)
<1>1. /\ IsFiniteSet(D) /\ B \in SUBSET D /\ IsFiniteSet(B)
  BY FS_Subset DEF Made, Tradable, WellFormed
<1>2. ASSUME NEW i \in B
      PROVE  f[i] \in Nat /\ f[i] > 0 /\ g[i] = Whole * f[i]
  <2>1. /\ i \in Instruments /\ p.assets[i].price \in Nat /\ p.assets[i].price > 0
        /\ p.allocations[i].action = "BUY" /\ p.allocations[i] \in PlannedAllocation
        /\ p.allocations[i].lots > 0
    BY <1>1 DEF Made, Tradable, WellFormed, AssetInput, TradeFits
  <2>2. PICK n \in Nat, c \in Nat, w \in Nat :
          /\ n = p.allocations[i].lots /\ n > 0
          /\ c = LotCost(i, p.assets[i]) /\ c > 0 /\ w = Whole
    BY <2>1, CostTyped, SettingsAssumption DEF PlannedAllocation
  <2>3. n * c \in Nat /\ n * c > 0 /\ (n * c) * w = w * (n * c)
    BY <2>2
  <2>4. g[i] = (n * c) * w
    BY <1>1, <2>1, <2>2 DEF SpentOn, Worth
  <2> QED BY <2>2, <2>3, <2>4
<1>3. \A i \in D : g[i] \in Nat
  BY SpentTyped DEF Made
<1>4. \A i \in D \ B : g[i] = 0
  BY DEF SpentOn
<1>5. SumOf(g, D) <= BudgetOf(p.portfolio, p.assets, weights)
  BY DEF Made
<1>6. CashOf(p.portfolio, p.assets) = Most(0, p.portfolio.money)
  BY <1>1, CashIsMoney DEF Made, Tradable
<1>7. /\ total \in Int /\ total > 0 /\ p.portfolio.money \in Int
  BY PortfolioTyped DEF Made
<1>8. /\ CashWeight(weights) \in Int /\ p.constraints.min_cash_weight \in Nat
      /\ CashWeight(weights) >= p.constraints.min_cash_weight
  BY WeightsTyped DEF Made, Tradable, WellFormed, RiskProfile, Weights
<1>w. Whole \in Int
  BY SettingsAssumption
<1> HIDE DEF f, g, D, total, weights
<1>9. SumOf(g, D) = Whole * spent
  <2>1. SumOf(g, D) = SumOf(g, B)
    BY <1>1, <1>3, <1>4, SumSupport
  <2>2. SumOf(g, B) = Whole * SumOf(f, B)
    BY <1>1, <1>2, <1>w, SumScale
  <2> QED BY <2>1, <2>2
<1>10. spent \in Nat /\ spent > 0
  <2>1. spent \in Nat /\ \A i \in B : f[i] <= spent
    BY <1>1, <1>2, SumNat
  <2> QED BY <1>2, <2>1
<1> HIDE DEF spent
<1>11. Whole * spent <= Most(0, Most(0, p.portfolio.money) * Whole - total * CashWeight(weights))
  BY <1>5, <1>6, <1>9 DEF BudgetOf, total
<1>12. (p.portfolio.money - spent) * Whole >= total * p.constraints.min_cash_weight
  <2>1. PICK m \in Int, s \in Int, r \in Int, l \in Int, t \in Int :
          /\ m = p.portfolio.money /\ s = spent /\ r = CashWeight(weights)
          /\ l = p.constraints.min_cash_weight /\ t = total
    BY <1>7, <1>8, <1>10
  <2>2. t > 0 /\ l <= r /\ 0 <= l /\ s > 0
    BY <1>7, <1>8, <1>10, <2>1
  <2>3. Whole * s <= Most(0, Most(0, m) * Whole - t * r)
    BY <1>11, <2>1
  <2>4. (m - s) * Whole >= t * l
    BY <2>2, <2>3, ReserveLeft
  <2> QED BY <2>1, <2>4
<1> QED BY <1>12 DEF spent, f, total

LEMMA MadeOfHeld ==
  ASSUME NEW p, Made(p), NEW i \in DOMAIN p.assets, p.allocations[i].action = "SELL"
  PROVE  p.allocations[i].lots * Lot[i] <= p.portfolio.quantity[i]
<1>1. /\ i \in Instruments /\ p.portfolio.quantity[i] \in Int
      /\ p.allocations[i] \in PlannedAllocation
      /\ p.allocations[i].lots <= p.portfolio.quantity[i] \div Lot[i]
  BY PortfolioTyped DEF Made, Tradable, TradeFits, TakenFrom
<1>2. PICK l \in Nat, q \in Int, n \in Nat :
        l = Lot[i] /\ l > 0 /\ q = p.portfolio.quantity[i] /\ n = p.allocations[i].lots
  BY <1>1, PlanAssumption DEF PlannedAllocation
<1>3. PICK h \in Int : h = q \div l
  BY <1>2
<1>4. l * h <= q
  BY <1>2, <1>3
<1>5. n * l <= l * h
  <2>1. n <= h
    BY <1>1, <1>2, <1>3
  <2>2. l * (h - n) >= 0
    BY <1>2, <2>1
  <2>3. l * (h - n) = l * h - n * l
    OBVIOUS
  <2> QED BY <2>2, <2>3
<1>6. n * l <= q
  BY <1>4, <1>5
<1> QED BY <1>2, <1>6

\* The buys of a plan together leave the reserve in the account, and no sale is of more
\* than is held.
THEOREM PlanIsAffordable == Spec => []PlanAffordable
<1>1. ASSUME PlanInv, plan # NoPlan PROVE PlanAffordable
  <2>1. Made(plan)
    BY <1>1 DEF PlanInv
  <2>2. Bought = {i \in DOMAIN plan.assets : plan.allocations[i].action = "BUY"}
    BY DEF Bought, Targets
  <2>3. (Bought # {} /\ \A i \in Instruments \ Targets : plan.portfolio.quantity[i] = 0)
          => (plan.portfolio.money
                - SumOf([i \in Bought |-> plan.allocations[i].lots
                                            * LotCost(i, plan.assets[i])], Bought)) * Whole
               >= Total(plan.portfolio) * plan.constraints.min_cash_weight
    BY <2>1, <2>2, MadeAffordable DEF Targets
  <2>4. \A i \in Targets : plan.allocations[i].action = "SELL"
          => plan.allocations[i].lots * Lot[i] <= plan.portfolio.quantity[i]
    BY <2>1, MadeOfHeld DEF Targets
  <2> QED BY <2>3, <2>4 DEF PlanAffordable
<1>2. PlanInv => PlanAffordable
  BY <1>1 DEF PlanAffordable
<1> QED BY <1>2, PlansMade, PTL

\* A buy is made below the target only, and a sale above it.
Directed(assets, weights, total) ==
  {done \in [spendable : Int,
             allocations : [DOMAIN assets -> [action : AllocationAction, lots : Int,
                                              target_weight : Weights]]] :
     \A i \in DOMAIN assets :
       /\ done.allocations[i].action = "BUY" => Delta(assets[i], weights[i], total) > 0
       /\ done.allocations[i].action = "SELL" => Delta(assets[i], weights[i], total) < 0}

\* The second planning is of other values, which nothing has validated.
LEMMA AllocationsDirected ==
  ASSUME NEW assets, NEW weights, NEW constraints, NEW total \in Int, NEW cash \in Int,
         IsFiniteSet(DOMAIN assets), DOMAIN assets \subseteq Instruments,
         \A i \in DOMAIN assets :
           /\ assets[i].value \in Int /\ assets[i].lots \in Int
           /\ assets[i].price \in Nat /\ assets[i].price > 0 /\ weights[i] \in Weights,
         CashWeight(weights) \in Int,
         NEW order \in SetToSeqs(DOMAIN assets), NEW i \in DOMAIN assets
  PROVE  LET a == Allocations(assets, weights, order, constraints, total, cash)[i]
         IN /\ a.action = "BUY" => Delta(assets[i], weights[i], total) > 0
            /\ a.action = "SELL" => Delta(assets[i], weights[i], total) < 0
<1> DEFINE D == DOMAIN assets
           Rec == [action : AllocationAction, lots : Int, target_weight : Weights]
           T == Directed(assets, weights, total)
           first == FirstTrades(assets, weights, total, cash)
<1>1. first \in T
  <2>1. first.spendable \in Int
    <3>1. PICK c \in Int, w \in Int : c = CashWeight(weights) /\ w = Whole
      BY SettingsAssumption
    <3>2. cash * w - total * c \in Int
      OBVIOUS
    <3> QED BY <3>1, <3>2 DEF FirstTrades, Most
  <2>2. first.allocations = [j \in D |-> first.allocations[j]]
        /\ first = [spendable |-> first.spendable, allocations |-> first.allocations]
    BY DEF FirstTrades
  <2>3. \A j \in D : first.allocations[j] = [action |-> "HOLD", lots |-> 0,
                                              target_weight |-> weights[j]]
    BY DEF FirstTrades
  <2> HIDE DEF first
  <2>4. ASSUME NEW j \in D
        PROVE  first.allocations[j] \in Rec /\ first.allocations[j].action = "HOLD"
    <3>1. PICK a : a = first.allocations[j]
                   /\ a = [action |-> "HOLD", lots |-> 0, target_weight |-> weights[j]]
      BY <2>3
    <3>2. a \in Rec /\ a.action = "HOLD"
      BY <3>1 DEF AllocationAction
    <3> QED BY <3>1, <3>2
  <2>5. first.allocations \in [D -> Rec]
    BY <2>2, <2>4
  <2> QED BY <2>1, <2>2, <2>4, <2>5 DEF Directed
<1>2. ASSUME NEW done \in T, NEW j \in D
      PROVE  NextTrades(done, j, assets, weights, constraints, total) \in T
  <2> DEFINE a == Trade(j, assets, weights, constraints, total, done.spendable)
             next == NextTrades(done, j, assets, weights, constraints, total)
             delta == Delta(assets[j], weights[j], total)
             cost == LotCost(j, assets[j])
             buy == WholeLots(Least(delta, done.spendable), cost)
             sold == WholeLots(-delta, cost)
             sell == Least(assets[j].lots, sold)
  <2>1. /\ done.spendable \in Int /\ done.allocations \in [D -> Rec]
        /\ \A k \in D :
             /\ done.allocations[k].action = "BUY" => Delta(assets[k], weights[k], total) > 0
             /\ done.allocations[k].action = "SELL" => Delta(assets[k], weights[k], total) < 0
    BY DEF Directed
  <2>2. delta \in Int /\ cost \in Nat /\ cost > 0 /\ weights[j] \in Weights
        /\ assets[j].lots \in Int
    <3>1. weights[j] \in Int
      BY SettingsAssumption DEF Weights
    <3> QED BY <3>1, DeltaTyped, CostTyped
  <2>3. buy \in Int /\ sell \in Int
    <3>1. Least(delta, done.spendable) \in Int /\ -delta \in Int
      BY <2>1, <2>2 DEF Least
    <3>2. buy \in Int /\ sold \in Int
      BY <2>2, <3>1, LotsFit
    <3> QED BY <2>2, <3>2 DEF Least
  <2>4. \/ a = [action |-> "BUY", lots |-> buy, target_weight |-> weights[j]]
           /\ delta > 0 /\ buy > 0
        \/ a = [action |-> "SELL", lots |-> sell, target_weight |-> weights[j]]
           /\ delta < 0 /\ sell > 0
        \/ a = [action |-> "HOLD", lots |-> 0, target_weight |-> weights[j]]
    BY TradeCases DEF Trade
  <2>n. next = [spendable |-> next.spendable, allocations |-> next.allocations]
        /\ next.allocations = [done.allocations EXCEPT ![j] = a]
        /\ next.spendable = IF a.action = "BUY"
                            THEN done.spendable - Worth(j, assets[j], a.lots)
                            ELSE done.spendable
    BY DEF NextTrades, Spend, Worth
  <2> HIDE DEF a, next, delta, cost, buy, sell
  <2>5. /\ a \in Rec
        /\ a.action = "BUY" => delta > 0
        /\ a.action = "SELL" => delta < 0
    BY <2>2, <2>3, <2>4 DEF AllocationAction
  <2>6. Worth(j, assets[j], a.lots) \in Int
    BY <2>5, WorthTyped
  <2>7. next.spendable \in Int
    BY <2>1, <2>6, <2>n
  <2>8. next.allocations \in [D -> Rec] /\ next.allocations[j] = a
        /\ \A k \in D \ {j} : next.allocations[k] = done.allocations[k]
    BY <2>1, <2>5, <2>n
  <2>9. \A k \in D :
          /\ next.allocations[k].action = "BUY" => Delta(assets[k], weights[k], total) > 0
          /\ next.allocations[k].action = "SELL" => Delta(assets[k], weights[k], total) < 0
    BY <2>1, <2>5, <2>8 DEF delta
  <2>10. next \in [spendable : Int, allocations : [D -> Rec]]
    BY <2>7, <2>8, <2>n
  <2>11. next \in T
    BY <2>9, <2>10 DEF Directed
  <2> QED BY <2>11 DEF next
<1> HIDE DEF T
<1>3. PICK done \in T :
        Allocations(assets, weights, order, constraints, total, cash) = done.allocations
  BY <1>1, <1>2, AllocationsKeep
<1> QED BY <1>3 DEF T, Directed

\* A filled trade moves a position towards its target by what the trade is worth.
LEMMA FilledDelta ==
  ASSUME NEW i \in Instruments, NEW lots \in Int, NEW weight \in Int, NEW total \in Int,
         NEW asset, asset.value \in Int, asset.price \in Nat, NEW filled,
         filled.value = asset.value + lots * LotCost(i, asset)
  PROVE  Delta(filled, weight, total) = Delta(asset, weight, total) - Worth(i, asset, lots)
<1>1. PICK w \in Int, p \in Nat, l \in Nat, v \in Int :
        w = Whole /\ p = asset.price /\ l = Lot[i] /\ v = asset.value
  <2>1. Lot[i] \in Nat
    BY PlanAssumption
  <2>2. Whole \in Int
    BY SettingsAssumption
  <2> QED BY <2>1, <2>2
<1>2. PICK c \in Int : c = p * l /\ c = LotCost(i, asset)
  <2>1. p * l \in Int
    OBVIOUS
  <2> QED BY <1>1, <2>1 DEF LotCost
<1>3. PICK wt \in Int, a \in Int, u \in Int :
        wt = weight * total /\ a = v * w /\ u = (lots * c) * w
  OBVIOUS
<1>4. (v + lots * c) * w = a + u
  BY <1>3
<1>5. Delta(filled, weight, total) = wt - (a + u)
  BY <1>1, <1>2, <1>3, <1>4 DEF Delta
<1>6. Delta(asset, weight, total) = wt - a /\ Worth(i, asset, lots) = u
  BY <1>1, <1>2, <1>3 DEF Delta, Worth
<1> QED BY <1>3, <1>5, <1>6

LEMMA MadeNotTakenBack ==
  ASSUME NEW p, Made(p), p.portfolio.mark = p.portfolio.price, NEW i \in DOMAIN p.assets,
         NEW sign \in Int, NEW filled,
         sign = CASE p.allocations[i].action = "BUY" -> 1
                  [] p.allocations[i].action = "SELL" -> -1 [] OTHER -> 0,
         filled.value = (p.portfolio.quantity[i] + sign * p.allocations[i].lots * Lot[i])
                          * p.portfolio.mark[i]
  PROVE  /\ p.allocations[i].action = "BUY"
              => Delta(filled, WeightsOf(p)[i], Total(p.portfolio)) >= 0
         /\ p.allocations[i].action = "SELL"
              => Delta(filled, WeightsOf(p)[i], Total(p.portfolio)) <= 0
<1> DEFINE asset == p.assets[i]
           total == Total(p.portfolio)
<1>1. /\ i \in Instruments /\ asset \in AssetInput /\ asset.price > 0
      /\ p.portfolio.quantity[i] \in Int /\ p.portfolio.mark[i] = asset.price
      /\ asset.value = p.portfolio.quantity[i] * p.portfolio.mark[i]
      /\ TradeFits(i, asset, WeightsOf(p)[i], total, p.allocations[i])
      /\ total \in Int
  BY PortfolioTyped DEF Made, Tradable, WellFormed, TakenFrom
<1>2. PICK q \in Int, m \in Nat, n \in Nat, w \in Int :
        /\ q = p.portfolio.quantity[i] /\ m = p.portfolio.mark[i] /\ m = asset.price
        /\ n = p.allocations[i].lots /\ w = WeightsOf(p)[i] /\ m > 0
  <2>1. asset.price \in Nat
    BY <1>1 DEF AssetInput
  <2>2. p.allocations[i].lots \in Nat /\ WeightsOf(p)[i] \in Int
    BY <1>1, SettingsAssumption DEF TradeFits, PlannedAllocation, Weights
  <2> QED BY <1>1, <2>1, <2>2
<1>v. asset.value = q * m /\ asset.value \in Int /\ asset.price \in Nat
  BY <1>1, <1>2 DEF AssetInput
<1>l. PICK l \in Nat, c \in Nat : l = Lot[i] /\ c = m * l /\ c = LotCost(i, asset)
  BY <1>1, <1>2, PlanAssumption DEF LotCost
<1>3. Delta(asset, w, total) \in Int /\ Worth(i, asset, n) \in Int
  BY <1>1, <1>2, DeltaTyped, WorthTyped DEF AssetInput
<1> HIDE DEF asset, total
<1>4. ASSUME p.allocations[i].action = "BUY" PROVE Delta(filled, w, total) >= 0
  <2>1. sign = 1
    BY <1>4
  <2>2. filled.value = asset.value + n * LotCost(i, asset)
    <3>1. (q + 1 * n * l) * m = q * m + n * (m * l)
      BY <1>2, <1>l
    <3> QED BY <1>2, <1>v, <1>l, <2>1, <3>1
  <2>3. Delta(filled, w, total) = Delta(asset, w, total) - Worth(i, asset, n)
    BY <1>1, <1>2, <1>v, <2>2, FilledDelta
  <2>4. Worth(i, asset, n) <= Delta(asset, w, total)
    BY <1>1, <1>2, <1>4 DEF TradeFits
  <2> QED BY <1>3, <2>3, <2>4
<1>5. ASSUME p.allocations[i].action = "SELL" PROVE Delta(filled, w, total) <= 0
  <2>1. sign = -1
    BY <1>5
  <2>2. filled.value = asset.value + (-n) * LotCost(i, asset) /\ -n \in Int
    <3>1. (q + (-1) * n * l) * m = q * m + (-n) * (m * l)
      BY <1>2, <1>l
    <3> QED BY <1>2, <1>v, <1>l, <2>1, <3>1
  <2>3. Delta(filled, w, total) = Delta(asset, w, total) - Worth(i, asset, -n)
    BY <1>1, <1>2, <1>v, <2>2, FilledDelta
  <2>4. Worth(i, asset, n) <= -Delta(asset, w, total)
    BY <1>1, <1>2, <1>5 DEF TradeFits
  <2>5. Worth(i, asset, -n) = -Worth(i, asset, n)
    <3>1. PICK k \in Nat, v \in Nat : k = LotCost(i, asset) /\ v = Whole
      BY <1>1, CostTyped, SettingsAssumption DEF AssetInput
    <3>2. ((-n) * k) * v = -((n * k) * v)
      OBVIOUS
    <3> QED BY <3>1, <3>2 DEF Worth
  <2> QED BY <1>3, <2>3, <2>4, <2>5
<1> QED BY <1>2, <1>4, <1>5 DEF total

\* After a plan was filled at its own prices no trade of it is taken back by the next.
THEOREM NothingTakenBack == Spec => []NoReversal
<1>1. ASSUME PlanInv, plan # NoPlan, plan.portfolio.mark = plan.portfolio.price
      PROVE  NoReversal
  <2> DEFINE D == Targets
             weights == [i \in Targets |-> WeightOf(i)]
             total == Total(plan.portfolio)
             next == [i \in Targets |->
               [plan.assets[i] EXCEPT !.value = Filled[i] * plan.portfolio.mark[i],
                                      !.lots = Filled[i] \div Lot[i]]]
             value == [i \in Targets |-> next[i].value]
             cash == Most(0, total - SumOf(value, Targets))
  <2>1. /\ Made(plan) /\ D = DOMAIN plan.assets /\ D \subseteq Instruments /\ IsFiniteSet(D)
        /\ weights = WeightsOf(plan) /\ weights \in Fitting(plan.assets, plan.constraints)
        /\ total \in Int /\ WellFormed(plan.assets, plan.constraints)
    BY <1>1, PortfolioTyped
       DEF PlanInv, Made, Tradable, WellFormed, Targets, WeightOf, WeightsOf
  <2>2. ASSUME NEW i \in D
        PROVE  \E sign \in {-1, 0, 1} :
                 /\ sign = CASE plan.allocations[i].action = "BUY" -> 1
                             [] plan.allocations[i].action = "SELL" -> -1 [] OTHER -> 0
                 /\ Filled[i] = plan.portfolio.quantity[i]
                                  + sign * plan.allocations[i].lots * Lot[i]
    <3>1. PICK sign : sign = CASE plan.allocations[i].action = "BUY" -> 1
                               [] plan.allocations[i].action = "SELL" -> -1 [] OTHER -> 0
      OBVIOUS
    <3>2. sign \in {-1, 0, 1}
      <4>1. CASE plan.allocations[i].action = "BUY"
        BY <3>1, <4>1
      <4>2. CASE plan.allocations[i].action = "SELL"
        BY <3>1, <4>2
      <4>3. CASE plan.allocations[i].action \notin {"BUY", "SELL"}
        BY <3>1, <4>3
      <4> QED BY <4>1, <4>2, <4>3
    <3>3. Filled[i] = plan.portfolio.quantity[i] + sign * plan.allocations[i].lots * Lot[i]
      BY <2>1, <3>1 DEF Filled
    <3> QED BY <3>1, <3>2, <3>3
  <2>3. ASSUME NEW i \in D
        PROVE  /\ next[i].value = Filled[i] * plan.portfolio.mark[i]
               /\ next[i].lots = Filled[i] \div Lot[i]
               /\ next[i].price = plan.assets[i].price
               /\ next[i].value \in Int /\ next[i].lots \in Int
               /\ next[i].price \in Nat /\ next[i].price > 0
               /\ weights[i] \in Weights
    <3>1. plan.assets[i] \in AssetInput /\ plan.assets[i].price > 0
          /\ plan.allocations[i] \in PlannedAllocation
      BY <2>1 DEF Made, Tradable, WellFormed
    <3>2. /\ next[i].value = Filled[i] * plan.portfolio.mark[i]
          /\ next[i].lots = Filled[i] \div Lot[i]
          /\ next[i].price = plan.assets[i].price
      BY <3>1 DEF AssetInput
    <3>3. PICK q \in Int, n \in Int, l \in Nat, m \in Int, s \in Int :
            /\ l > 0 /\ l = Lot[i] /\ q = plan.portfolio.quantity[i]
            /\ m = plan.portfolio.mark[i] /\ n = plan.allocations[i].lots
            /\ Filled[i] = q + s * n * l
      <4>1. Lot[i] \in Nat /\ Lot[i] > 0 /\ plan.allocations[i].lots \in Int
        BY <2>1, <3>1, PlanAssumption DEF PlannedAllocation
      <4>2. plan.portfolio.quantity[i] \in Int /\ plan.portfolio.mark[i] \in Int
        BY <2>1, PortfolioTyped DEF Made
      <4>3. PICK s \in Int : Filled[i] = plan.portfolio.quantity[i]
                                            + s * plan.allocations[i].lots * Lot[i]
        BY <2>2
      <4> QED BY <4>1, <4>2, <4>3
    <3>4. PICK f \in Int : f = Filled[i]
      BY <3>3
    <3>5. f * m \in Int /\ f \div l \in Int
      BY <3>3
    <3>6. plan.assets[i].price \in Nat
      BY <3>1 DEF AssetInput
    <3>7. weights[i] \in Weights
      BY <2>1, WeightsTyped
    <3> HIDE DEF next, weights
    <3> QED BY <3>1, <3>2, <3>3, <3>4, <3>5, <3>6, <3>7
  <2>4. DOMAIN next = D
    OBVIOUS
  <2> HIDE DEF next
  <2>5. \A i \in D : value[i] \in Int
    BY <2>3
  <2> HIDE DEF value
  <2>6. cash \in Int
    <3>1. SumOf(value, D) \in Int
      BY <2>1, <2>5, SumTyped
    <3> QED BY <2>1, <3>1 DEF Most
  <2>7. CashWeight(weights) \in Int
    <3>1. CashWeight(weights) \in Weights
      BY <2>1, WeightsTyped
    <3> QED BY <3>1, SettingsAssumption DEF Weights
  <2> HIDE DEF weights, cash, total
  <2>8. ASSUME NEW order \in Orders(next, weights), NEW i \in D
        PROVE  {plan.allocations[i].action,
                Allocations(next, weights, order, plan.constraints, total, cash)[i].action}
                 # {"BUY", "SELL"}
    <3>1. order \in SetToSeqs(DOMAIN next)
      BY DEF Orders
    <3> DEFINE a == Allocations(next, weights, order, plan.constraints, total, cash)[i]
               delta == Delta(next[i], weights[i], total)
    <3>2. /\ a.action = "BUY" => delta > 0
          /\ a.action = "SELL" => delta < 0
      BY <2>1, <2>3, <2>4, <2>6, <2>7, <3>1, AllocationsDirected
    <3>3. PICK sign \in Int :
            /\ sign = CASE plan.allocations[i].action = "BUY" -> 1
                        [] plan.allocations[i].action = "SELL" -> -1 [] OTHER -> 0
            /\ Filled[i] = plan.portfolio.quantity[i]
                             + sign * plan.allocations[i].lots * Lot[i]
      BY <2>2
    <3>4. /\ plan.allocations[i].action = "BUY" => delta >= 0
          /\ plan.allocations[i].action = "SELL" => delta <= 0
      BY <1>1, <2>1, <2>3, <3>3, MadeNotTakenBack DEF total
    <3>5. delta \in Int
      <4>1. weights[i] \in Int
        BY <2>3, SettingsAssumption DEF Weights
      <4> QED BY <2>1, <2>3, <4>1, DeltaTyped
    <3> HIDE DEF a, delta
    <3>6. {plan.allocations[i].action, a.action} # {"BUY", "SELL"}
      BY <3>2, <3>4, <3>5
    <3> QED BY <3>6 DEF a
  <2> QED BY <2>8 DEF NoReversal, weights, cash, total, next, value
<1>2. PlanInv => NoReversal
  BY <1>1 DEF NoReversal
<1> QED BY <1>2, PlansMade, PTL
=============================================================================
