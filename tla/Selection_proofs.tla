-------------------------- MODULE Selection_proofs --------------------------
(***************************************************************************)
(* Theorems about the greedy budget selection, for every selection         *)
(* problem: any finite set of groups, any sizes, scores and target.        *)
(***************************************************************************)
EXTENDS Selection, FiniteSetTheorems, TLAPS

\* A set of numbers that has zero and with each number the next has all of them.
LEMMA Induction ==
    ASSUME NEW T \in SUBSET Nat, 0 \in T, \A n \in T : n + 1 \in T
    PROVE  T = Nat
<1> SUFFICES ASSUME Nat \ T # {} PROVE FALSE
  OBVIOUS
<1>1. IsWellFoundedOn(OpToRel(<, Nat), Nat)
  BY NatLessThanWellFounded
<1>2. PICK m \in Nat \ T : \A k \in Nat \ T : ~(<<k, m>> \in OpToRel(<, Nat))
  BY <1>1, WFMin, Nat \ T \subseteq Nat
<1>3. \A k \in Nat \ T : ~(k < m)
  BY <1>2 DEF OpToRel
<1>4. m # 0
  OBVIOUS
<1>5. m - 1 \in T
  BY <1>3, <1>4
<1>6. (m - 1) + 1 \in T
  BY <1>5
<1> QED
  BY <1>6, (m - 1) + 1 = m

\* Whatever holds of a set when it holds without any one element holds of all subsets.
LEMMA SubsetInduction ==
    ASSUME NEW S, IsFiniteSet(S), NEW T \in SUBSET SUBSET S,
           \A s \in SUBSET S : (\A x \in s : s \ {x} \in T) => s \in T
    PROVE  T = SUBSET S
<1> SUFFICES ASSUME (SUBSET S) \ T # {} PROVE FALSE
  OBVIOUS
<1>1. IsWellFoundedOn(StrictSubsetOrdering(S), FiniteSubsetsOf(S))
  BY FS_StrictSubsetOrderingWellFounded
<1>2. (SUBSET S) \ T \subseteq FiniteSubsetsOf(S)
  BY FS_Subset DEF FiniteSubsetsOf
<1>3. PICK s \in (SUBSET S) \ T :
          \A t \in (SUBSET S) \ T : ~(<<t, s>> \in StrictSubsetOrdering(S))
  BY <1>1, <1>2, WFMin
<1>4. ASSUME NEW x \in s PROVE s \ {x} \in T
  <2>1. s \ {x} \in SUBSET S /\ s \ {x} \subseteq s /\ s \ {x} # s
    OBVIOUS
  <2>2. <<s \ {x}, s>> \in StrictSubsetOrdering(S)
    BY <2>1 DEF StrictSubsetOrdering
  <2> QED
    BY <1>3, <2>1, <2>2
<1> QED
  BY <1>4

-----------------------------------------------------------------------------
\* Sums.  What a fold of a function's values over a finite set computes is a sum:
\* of every subset, whichever element is taken first.

Adds(u, S, f) ==
    /\ u \in [SUBSET S -> Int] /\ u[{}] = 0
    /\ \A s \in SUBSET S : \A x \in s : u[s] = f[x] + u[s \ {x}]

\* The recursion by which the fold is defined, and that it has a solution.
Folded(u, S, f) ==
    u = [s \in SUBSET S |-> IF s = {} THEN 0
                            ELSE f[CHOOSE x \in s : TRUE] + u[s \ {CHOOSE x \in s : TRUE}]]

LEMMA FoldExists ==
    ASSUME NEW S, IsFiniteSet(S), NEW f \in [S -> Int]
    PROVE  \E u : Folded(u, S, f)
<1> DEFINE First(s) == CHOOSE x \in s : TRUE
           Small(n) == {s \in SUBSET S : Cardinality(s) <= n}
           Folds(u, D) == u = [s \in D |-> IF s = {} THEN 0
                                            ELSE f[First(s)] + u[s \ {First(s)}]]
           T == {n \in Nat : \E u : Folds(u, Small(n))}
<1>1. \A s \in SUBSET S : Cardinality(s) \in Nat /\ (Cardinality(s) = 0 <=> s = {})
  BY FS_Subset, FS_CardinalityType, FS_EmptySet
<1>2. ASSUME NEW s \in SUBSET S, s # {}
      PROVE  /\ First(s) \in s /\ s \ {First(s)} \in SUBSET S
             /\ Cardinality(s \ {First(s)}) = Cardinality(s) - 1
  <2>1. First(s) \in s
    BY <1>2
  <2>2. IsFiniteSet(s)
    BY FS_Subset
  <2> QED
    BY <2>1, <2>2, FS_RemoveElement
<1> HIDE DEF First
<1>3. 0 \in T
  <2> DEFINE u == [s \in Small(0) |-> 0]
  <2>1. \A s \in Small(0) : s = {}
    BY <1>1
  <2>2. Folds(u, Small(0))
    BY <2>1
  <2> QED
    BY <2>2
<1>4. ASSUME NEW n \in Nat, NEW u, Folds(u, Small(n))
      PROVE  \E v : Folds(v, Small(n + 1))
  <2> DEFINE v == [s \in Small(n + 1) |->
                      IF s \in Small(n) THEN u[s] ELSE f[First(s)] + u[s \ {First(s)}]]
  <2>1. ASSUME NEW s \in Small(n + 1)
        PROVE  v[s] = IF s = {} THEN 0 ELSE f[First(s)] + v[s \ {First(s)}]
    <3>1. ASSUME s # {}
          PROVE  s \ {First(s)} \in Small(n) /\ s \ {First(s)} \in Small(n + 1)
      BY <1>1, <1>2, <3>1
    <3>2. {} \in Small(n)
      BY <1>1
    <3>3. CASE s = {}
      BY <3>2, <3>3, <1>4
    <3>4. CASE s # {}
      <4>1. v[s \ {First(s)}] = u[s \ {First(s)}]
        BY <3>1, <3>4
      <4>2. s \in Small(n) => u[s] = f[First(s)] + u[s \ {First(s)}]
        BY <1>4, <3>4
      <4> QED
        BY <3>4, <4>1, <4>2
    <3> QED
      BY <3>3, <3>4
  <2>2. Folds(v, Small(n + 1))
    BY <2>1
  <2> QED
    BY <2>2
<1>5. T \subseteq Nat /\ \A n \in T : n + 1 \in T
  <2> HIDE DEF Folds, Small
  <2> QED
    BY <1>4
<1>6. Cardinality(S) \in T
  <2> HIDE DEF T
  <2>1. T = Nat
    BY <1>3, <1>5, Induction
  <2> QED
    BY <2>1, FS_CardinalityType
<1>7. Small(Cardinality(S)) = SUBSET S
  BY FS_Subset
<1>8. \E u : Folds(u, SUBSET S)
  <2> HIDE DEF Folds, Small
  <2> QED
    BY <1>6, <1>7
<1> QED
  BY <1>8 DEF First, Folded

\* SumFunction adds up: there is a sum of every subset, and it is the sum of all.
LEMMA SumAdds ==
    ASSUME NEW S, IsFiniteSet(S), NEW f \in [S -> Int]
    PROVE  \E u : Adds(u, S, f) /\ SumFunction(f) = u[S]
<1> DEFINE First(s) == CHOOSE x \in s : TRUE
           iter == CHOOSE u : Folded(u, S, f)
<1>1. Folded(iter, S, f)
  BY FoldExists
<1>2. SumFunction(f) = iter[S]
  BY DEF SumFunction, SumFunctionOnSet, FoldFunctionOnSet, MapThenFoldSet, Folded
<1>3. \A s \in SUBSET S : s # {} => First(s) \in s
  OBVIOUS
<1>4. /\ iter = [s \in SUBSET S |-> iter[s]] /\ iter[{}] = 0
      /\ \A s \in SUBSET S : s # {} => iter[s] = f[First(s)] + iter[s \ {First(s)}]
  BY <1>1 DEF Folded
<1> HIDE DEF iter, First
<1> DEFINE T == {s \in SUBSET S : /\ iter[s] \in Int
                                  /\ \A x \in s : /\ iter[s \ {x}] \in Int
                                                  /\ iter[s] = f[x] + iter[s \ {x}]}
<1>5. ASSUME NEW s \in SUBSET S, \A x \in s : s \ {x} \in T
      PROVE  s \in T
  <2>1. CASE s = {}
    BY <2>1, <1>4
  <2>2. CASE s # {}
    <3> DEFINE c == First(s)
    <3>1. c \in s /\ iter[s] = f[c] + iter[s \ {c}]
      BY <2>2, <1>3, <1>4
    <3> HIDE DEF c
    <3>2. \A x \in s : f[x] \in Int /\ iter[s \ {x}] \in Int
      BY <1>5
    <3>3. ASSUME NEW x \in s PROVE iter[s] = f[x] + iter[s \ {x}]
      <4>1. CASE x = c
        BY <3>1, <4>1
      <4>2. CASE x # c
        <5>1. iter[s \ {c}] = f[x] + iter[(s \ {c}) \ {x}]
          BY <4>2, <3>1, <1>5
        <5>2. iter[s \ {x}] = f[c] + iter[(s \ {x}) \ {c}]
          BY <4>2, <3>1, <1>5
        <5>3. (s \ {c}) \ {x} = (s \ {x}) \ {c}
          OBVIOUS
        <5>4. iter[(s \ {c}) \ {x}] \in Int
          BY <4>2, <3>1, <1>5
        <5>5. f[x] \in Int /\ f[c] \in Int
          BY <3>1, <3>2
        <5>6. iter[s] = f[c] + iter[s \ {c}]
          BY <3>1
        <5>7. iter[s \ {x}] = f[c] + iter[(s \ {c}) \ {x}]
          BY <5>2, <5>3
        <5> QED
          BY <5>1, <5>4, <5>5, <5>6, <5>7
      <4> QED
        BY <4>1, <4>2
    <3>4. iter[s] \in Int
      BY <3>1, <3>2
    <3> QED
      BY <3>2, <3>3, <3>4
  <2> QED
    BY <2>1, <2>2
<1>6. T \in SUBSET SUBSET S
  OBVIOUS
<1>7. T = SUBSET S
  <2> HIDE DEF T
  <2> QED
    BY <1>5, <1>6, SubsetInduction
<1>8. Adds(iter, S, f)
  BY <1>4, <1>7 DEF Adds
<1> QED
  BY <1>2, <1>8

\* Sums of smaller numbers are not larger.
LEMMA AddsBound ==
    ASSUME NEW S, IsFiniteSet(S), NEW f \in [S -> Int], NEW g \in [S -> Int],
           NEW u, Adds(u, S, f), NEW v, Adds(v, S, g)
    PROVE  \A s \in SUBSET S : (\A x \in s : f[x] <= g[x]) => u[s] <= v[s]
<1> DEFINE T == {s \in SUBSET S : (\A x \in s : f[x] <= g[x]) => u[s] <= v[s]}
<1>1. ASSUME NEW s \in SUBSET S, \A x \in s : s \ {x} \in T,
             \A x \in s : f[x] <= g[x]
      PROVE  u[s] <= v[s]
  <2>1. CASE s = {}
    BY <2>1 DEF Adds
  <2>2. CASE s # {}
    <3>1. PICK x \in s : TRUE
      BY <2>2
    <3>2. u[s \ {x}] <= v[s \ {x}] /\ f[x] <= g[x]
      BY <1>1
    <3>3. u[s] = f[x] + u[s \ {x}] /\ v[s] = g[x] + v[s \ {x}]
      BY DEF Adds
    <3>4. u[s \ {x}] \in Int /\ v[s \ {x}] \in Int /\ f[x] \in Int /\ g[x] \in Int
      BY DEF Adds
    <3> QED
      BY <3>2, <3>3, <3>4
  <2> QED
    BY <2>1, <2>2
<1>2. \A s \in SUBSET S : (\A x \in s : s \ {x} \in T) => s \in T
  BY <1>1
<1>3. T \in SUBSET SUBSET S
  OBVIOUS
<1>4. T = SUBSET S
  <2> HIDE DEF T
  <2> QED
    BY <1>2, <1>3, SubsetInduction
<1> QED
  BY <1>4

\* Sums are numbers and grow with what is summed.
LEMMA SumType ==
    ASSUME NEW S, IsFiniteSet(S), NEW f \in [S -> Int]
    PROVE  SumFunction(f) \in Int
<1>1. PICK u : Adds(u, S, f) /\ SumFunction(f) = u[S]
  BY SumAdds
<1> QED
  BY <1>1 DEF Adds

LEMMA SumBound ==
    ASSUME NEW S, IsFiniteSet(S), NEW f \in [S -> Int], NEW g \in [S -> Int],
           \A x \in S : f[x] <= g[x]
    PROVE  SumFunction(f) <= SumFunction(g)
<1>1. PICK u : Adds(u, S, f) /\ SumFunction(f) = u[S]
  BY SumAdds
<1>2. PICK v : Adds(v, S, g) /\ SumFunction(g) = v[S]
  BY SumAdds
<1> QED
  BY <1>1, <1>2, AddsBound

\* When one summand changes, the sum changes by as much.
LEMMA SumUpdate ==
    ASSUME NEW S, IsFiniteSet(S), NEW f \in [S -> Int], NEW g \in [S -> Int],
           NEW x \in S, \A y \in S \ {x} : g[y] = f[y]
    PROVE  SumFunction(g) = SumFunction(f) - f[x] + g[x]
<1>1. PICK u : Adds(u, S, f) /\ SumFunction(f) = u[S]
  BY SumAdds
<1>2. PICK v : Adds(v, S, g) /\ SumFunction(g) = v[S]
  BY SumAdds
<1>3. S \ {x} \in SUBSET S /\ \A y \in S \ {x} : f[y] <= g[y] /\ g[y] <= f[y]
  OBVIOUS
<1>4. u[S \ {x}] <= v[S \ {x}]
  BY <1>1, <1>2, <1>3, AddsBound
<1>5. v[S \ {x}] <= u[S \ {x}]
  BY <1>1, <1>2, <1>3, AddsBound
<1>6. /\ u[S \ {x}] \in Int /\ v[S \ {x}] \in Int /\ f[x] \in Int /\ g[x] \in Int
      /\ u[S] = f[x] + u[S \ {x}] /\ v[S] = g[x] + v[S \ {x}]
  BY <1>1, <1>2 DEF Adds
<1> QED
  BY <1>1, <1>2, <1>4, <1>5, <1>6

\* The sum over a part of the set is the sum of the function on that part.
LEMMA SumOn ==
    ASSUME NEW I, IsFiniteSet(I), NEW f \in [I -> Int], NEW u, Adds(u, I, f),
           NEW S \in SUBSET I, NEW g \in [S -> Int], \A x \in S : g[x] = f[x]
    PROVE  SumFunction(g) = u[S]
<1>1. IsFiniteSet(S)
  BY FS_Subset
<1>2. PICK v : Adds(v, S, g) /\ SumFunction(g) = v[S]
  BY <1>1, SumAdds
<1> DEFINE T == {s \in SUBSET S : v[s] = u[s]}
<1>3. ASSUME NEW s \in SUBSET S, \A x \in s : s \ {x} \in T
      PROVE  v[s] = u[s]
  <2>1. CASE s = {}
    BY <2>1, <1>2 DEF Adds
  <2>2. ASSUME NEW x \in s PROVE v[s] = u[s]
    <3>1. v[s] = g[x] + v[s \ {x}]
      BY <1>2 DEF Adds
    <3>2. s \in SUBSET I /\ u[s] = f[x] + u[s \ {x}]
      BY DEF Adds
    <3> QED
      BY <1>3, <3>1, <3>2
  <2> QED
    BY <2>1, <2>2
<1>4. T = SUBSET S
  <2>1. T \in SUBSET SUBSET S /\ \A s \in SUBSET S : (\A x \in s : s \ {x} \in T) => s \in T
    BY <1>3
  <2> HIDE DEF T
  <2> QED
    BY <1>1, <2>1, SubsetInduction
<1> QED
  BY <1>2, <1>4

\* Sums over disjoint sets add up.
LEMMA SumSplit ==
    ASSUME NEW I, IsFiniteSet(I), NEW f \in [I -> Int], NEW u, Adds(u, I, f),
           NEW A \in SUBSET I, NEW B \in SUBSET I, A \cap B = {}
    PROVE  u[A \cup B] = u[A] + u[B]
<1>1. IsFiniteSet(B)
  BY FS_Subset
<1> DEFINE T == {s \in SUBSET B : u[A \cup s] = u[A] + u[s]}
<1>2. ASSUME NEW s \in SUBSET B, \A x \in s : s \ {x} \in T
      PROVE  u[A \cup s] = u[A] + u[s]
  <2>1. CASE s = {}
    BY <2>1, A \cup {} = A DEF Adds
  <2>2. ASSUME NEW x \in s PROVE u[A \cup s] = u[A] + u[s]
    <3>1. (A \cup s) \ {x} = A \cup (s \ {x})
      OBVIOUS
    <3>2. u[A \cup s] = f[x] + u[A \cup (s \ {x})] /\ u[s] = f[x] + u[s \ {x}]
      <4>1. x \in A \cup s /\ A \cup s \in SUBSET I /\ s \in SUBSET I
        OBVIOUS
      <4> QED
        BY <3>1, <4>1 DEF Adds
    <3>3. u[A \cup (s \ {x})] = u[A] + u[s \ {x}]
      BY <1>2
    <3>4. u[A] \in Int /\ u[s \ {x}] \in Int /\ f[x] \in Int
      BY DEF Adds
    <3> QED
      BY <3>2, <3>3, <3>4
  <2> QED
    BY <2>1, <2>2
<1>3. T = SUBSET B
  <2>1. T \in SUBSET SUBSET B /\ \A s \in SUBSET B : (\A x \in s : s \ {x} \in T) => s \in T
    BY <1>2
  <2> HIDE DEF T
  <2> QED
    BY <1>1, <2>1, SubsetInduction
<1> QED
  BY <1>3

\* What is zero everywhere sums up to zero.
LEMMA SumVanishes ==
    ASSUME NEW I, IsFiniteSet(I), NEW f \in [I -> Int], NEW u, Adds(u, I, f),
           NEW S \in SUBSET I, \A x \in S : f[x] = 0
    PROVE  u[S] = 0
<1> DEFINE z == [s \in SUBSET I |-> 0]
           c == [x \in I |-> 0]
<1>1. Adds(z, I, c) /\ c \in [I -> Int] /\ z[S] = 0
  BY DEF Adds
<1>2. \A x \in S : f[x] <= c[x] /\ c[x] <= f[x]
  OBVIOUS
<1> HIDE DEF z, c
<1>3. u[S] <= z[S] /\ z[S] <= u[S]
  BY <1>1, <1>2, AddsBound
<1>4. u[S] \in Int
  BY DEF Adds
<1> QED
  BY <1>1, <1>3, <1>4

\* Summing within every class and then over the classes is summing.
LEMMA SumByClass ==
    ASSUME NEW I, IsFiniteSet(I), NEW f \in [I -> Int], NEW u, Adds(u, I, f),
           NEW G, IsFiniteSet(G), NEW b \in [I -> G],
           NEW C \in [G -> SUBSET I], \A g \in G : \A i \in I : i \in C[g] <=> b[i] = g,
           NEW h \in [G -> Int], \A g \in G : h[g] = u[C[g]]
    PROVE  SumFunction(h) = u[I]
<1>1. PICK v : Adds(v, G, h) /\ SumFunction(h) = v[G]
  BY SumAdds
<1> DEFINE Of(s) == {i \in I : b[i] \in s}
           T == {s \in SUBSET G : v[s] = u[Of(s)]}
<1>2. ASSUME NEW s \in SUBSET G, \A x \in s : s \ {x} \in T
      PROVE  v[s] = u[Of(s)]
  <2>1. CASE s = {}
    BY <2>1, <1>1, Of({}) = {} DEF Adds
  <2>2. ASSUME NEW x \in s PROVE v[s] = u[Of(s)]
    <3> DEFINE A == Of(s \ {x})
               B == C[x]
    <3>1. A \cap B = {} /\ A \cup B = Of(s) /\ A \in SUBSET I /\ B \in SUBSET I
      OBVIOUS
    <3>2. u[A \cup B] = u[A] + u[B]
      <4> HIDE DEF A, B
      <4> QED
        BY <3>1, SumSplit
    <3>3. v[s] = h[x] + v[s \ {x}] /\ v[s \ {x}] = u[A] /\ h[x] = u[B]
      <4>1. v[s] = h[x] + v[s \ {x}]
        BY <1>1 DEF Adds
      <4>2. s \ {x} \in T
        BY <1>2
      <4>3. v[s \ {x}] = u[A] /\ h[x] = u[B]
        BY <4>2
      <4> QED
        BY <4>1, <4>3
    <3>4. u[A] \in Int /\ u[B] \in Int
      BY <3>1 DEF Adds
    <3>5. u[A \cup B] = u[Of(s)]
      BY <3>1
    <3> HIDE DEF A, B, Of
    <3> QED
      BY <3>2, <3>3, <3>4, <3>5
  <2> QED
    BY <2>1, <2>2
<1>3. T = SUBSET G
  <2>1. T \in SUBSET SUBSET G /\ \A s \in SUBSET G : (\A x \in s : s \ {x} \in T) => s \in T
    BY <1>2
  <2> HIDE DEF T
  <2> QED
    BY <2>1, SubsetInduction
<1>4. Of(G) = I
  OBVIOUS
<1> QED
  BY <1>1, <1>3, <1>4

\* A sum does not depend on how its summands are numbered.
LEMMA SumRenumbered ==
    ASSUME NEW K, IsFiniteSet(K), NEW S, IsFiniteSet(S), NEW p \in [K -> S],
           \A j, k \in K : p[j] = p[k] => j = k, \A s \in S : \E k \in K : p[k] = s,
           NEW f \in [S -> Int], NEW g \in [K -> Int], \A k \in K : g[k] = f[p[k]]
    PROVE  SumFunction(g) = SumFunction(f)
<1>1. PICK u : Adds(u, K, g) /\ SumFunction(g) = u[K]
  BY SumAdds
<1> DEFINE C == [s \in S |-> {k \in K : p[k] = s}]
<1>2. ASSUME NEW s \in S PROVE f[s] = u[C[s]]
  <2>1. PICK k \in K : p[k] = s
    OBVIOUS
  <2>2. C[s] = {k}
    BY <2>1
  <2>3. {k} \in SUBSET K /\ {k} \ {k} = {}
    OBVIOUS
  <2>4. u[{k}] = g[k] + u[{}] /\ u[{}] = 0 /\ g[k] \in Int
    BY <1>1, <2>3 DEF Adds
  <2>5. f[s] = g[k]
    BY <2>1
  <2> QED
    BY <2>2, <2>4, <2>5
<1>3. C \in [S -> SUBSET K] /\ \A s \in S : \A k \in K : k \in C[s] <=> p[k] = s
  OBVIOUS
<1>4. Adds(u, K, g)
  BY <1>1
<1> HIDE DEF C
<1>5. SumFunction(f) = u[K]
  BY <1>2, <1>3, <1>4, SumByClass
<1> QED
  BY <1>1, <1>5

-----------------------------------------------------------------------------

(***************************************************************************)
(* The four legacy estimates of actionLoss are natural numbers.            *)
(***************************************************************************)
LEMMA LegacyUnits ==
    ASSUME NEW d \in Percent, NEW r \in Percent
    PROVE  /\ 20 + d \in Nat
           /\ 40 + 2 * d \in Nat
           /\ 100 + 4 * d \in Nat
           /\ 200 + 4 * (r + d) \in Nat
BY DEF Percent

(***************************************************************************)
(* A permitted proposal has a natural number as its loss, whichever of the *)
(* three scoring policies of actionLoss prices it.                         *)
(***************************************************************************)
LEMMA LossIsNat ==
    ASSUME NEW s, NEW a \in Actions, NEW offered, a \in offered,
           IsScore(s, offered), Allowed(s, a)
    PROVE  LossOf(s, a) \in Nat
<1>1. CASE s.keep # Nil
  <2>1. s.keep.call \in Percent /\ s.keep.result \in Percent
    BY <1>1 DEF IsScore
  <2>2. KeepLoss(s.keep, a) \in Nat
    BY <2>1 DEF KeepLoss, Larger, Percent
  <2> QED
    BY <1>1, <2>2 DEF LossOf
<1>2. CASE s.keep = Nil /\ s.loss # Nil
  <2>1. a \in DOMAIN s.loss
    BY <1>2 DEF Allowed
  <2>2. s.loss[a] \in Percent
    BY <1>2, <2>1 DEF IsScore
  <2>3. 20 * s.loss[a] \in Nat
    BY <2>2 DEF Percent
  <2> QED
    BY <1>2, <2>3 DEF LossOf
<1>3. CASE s.keep = Nil /\ s.loss = Nil
  <2>1. s.detail \in Percent /\ s.relevance \in Percent
    BY <1>3 DEF IsScore
  <2>2. /\ 20 + s.detail \in Nat
        /\ 40 + 2 * s.detail \in Nat
        /\ 100 + 4 * s.detail \in Nat
        /\ 200 + 4 * (s.relevance + s.detail) \in Nat
    BY <2>1, LegacyUnits
  <2>3. LegacyLoss(s, a) \in Nat
    BY <2>2, Zenon DEF LegacyLoss, Actions
  <2> QED
    BY <1>3, <2>3 DEF LossOf
<1> QED
  BY <1>1, <1>2, <1>3

(***************************************************************************)
(* A representation has a natural size and loss, and only the original     *)
(* carries the action keep.                                                *)
(***************************************************************************)
LEMMA RepresentationFacts ==
    ASSUME NEW c, IsInput(c), NEW g \in c.groups,
           NEW r \in Representations(c, g)
    PROVE  /\ r.tokens \in Nat
           /\ r.loss \in Nat
           /\ r.action = "keep" => r = Whole(c, g)
<1>1. CASE r = Whole(c, g)
  BY <1>1 DEF Whole, IsInput
<1>2. ASSUME NEW a \in Permitted(c, g), r = Variant(c, g, a)
      PROVE  /\ r.tokens \in Nat
             /\ r.loss \in Nat
             /\ r.action # "keep"
  <2>1. /\ a \in Actions /\ a \in c.offer[g]
        /\ Allowed(c.score[g], a)
        /\ IsScore(c.score[g], c.offer[g])
    BY <1>2 DEF Permitted, IsInput
  <2>2. LossOf(c.score[g], a) \in Nat
    BY <2>1, LossIsNat
  <2>3. c.size[g][a] \in Nat
    BY <2>1 DEF IsInput
  <2> QED
    BY <1>2, <2>1, <2>2, <2>3 DEF Variant, Actions
<1> QED
  BY <1>1, <1>2 DEF Representations

(***************************************************************************)
(* What one iteration knows of the move it applies.                        *)
(***************************************************************************)
LEMMA MoveFacts ==
    ASSUME TypeOK, NEW m \in Open
    PROVE  /\ m.group \in input.groups
           /\ m.action \in Permitted(input, m.group)
           /\ After(m) = Variant(input, m.group, m.action)
           /\ After(m) \in Representations(input, m.group)
           /\ After(m).tokens \in Nat
           /\ After(m).loss \in Nat
           /\ After(m).action = m.action
           /\ m.action # "keep"
           /\ selected[m.group].tokens \in Nat
           /\ selected[m.group].loss \in Nat
           /\ Saving(m) \in Nat /\ Saving(m) > 0
           /\ Price(m) \in Nat /\ Price(m) > 0
<1>1. /\ m.group \in input.groups
      /\ m.action \in Permitted(input, m.group)
      /\ m.action \in Actions
      /\ After(m).tokens < selected[m.group].tokens
  BY DEF Open, Move
<1>2. After(m) = Variant(input, m.group, m.action)
  BY DEF After
<1>3. After(m) \in Representations(input, m.group)
  BY <1>1, <1>2 DEF Representations
<1>4. After(m).tokens \in Nat /\ After(m).loss \in Nat
  BY <1>1, <1>3, RepresentationFacts DEF TypeOK
<1>5. selected[m.group].tokens \in Nat /\ selected[m.group].loss \in Nat
  BY <1>1, RepresentationFacts DEF TypeOK
<1>6. After(m).action = m.action
  BY <1>2 DEF Variant
<1>7. Saving(m) \in Nat /\ Saving(m) > 0
  BY <1>1, <1>4, <1>5 DEF Saving
<1>8. Price(m) \in Nat /\ Price(m) > 0
  BY <1>4, <1>5 DEF Price, Larger, Epsilon
<1>9. m.action # "keep"
  BY <1>1 DEF Actions
<1> QED
  BY <1>1, <1>2, <1>3, <1>4, <1>5, <1>6, <1>7, <1>8, <1>9

(***************************************************************************)
(* Fractions: a strictly smaller numerator over a denominator at least as  *)
(* large, or a numerator no larger over a larger denominator, is smaller.  *)
(***************************************************************************)
LEMMA SmallerFraction ==
    ASSUME NEW p \in Nat, NEW q \in Nat, NEW x \in Nat, NEW y \in Nat,
           p > 0, y > 0,
           \/ p < q /\ y <= x
           \/ p <= q /\ y < x
    PROVE  p * y < q * x
<1>1. CASE p < q /\ y <= x
  <2>1. p * y < q * y
    BY <1>1, SMT
  <2>2. q * y <= q * x
    BY <1>1, SMT
  <2> QED
    BY <2>1, <2>2, SMT
<1>2. CASE p <= q /\ y < x
  <2>1. p * y < p * x
    BY <1>2, SMT
  <2>2. p * x <= q * x
    BY <1>2, SMT
  <2> QED
    BY <2>1, <2>2, SMT
<1> QED
  BY <1>1, <1>2

LEMMA TypeStart ==
    ASSUME NEW c, IsInput(c), Begin(c) PROVE TypeOK
<1>1. IsInput(input) /\ input = c
  BY DEF Begin
<1>2. selected = [g \in input.groups |-> Whole(input, g)]
  BY DEF Begin, Keeping
<1> QED
  BY <1>1, <1>2 DEF TypeOK, Representations

\* Applying an open move, the best or another.
Applied == /\ \E m \in Open : /\ selected' = [selected EXCEPT ![m.group] = After(m)]
                              /\ total' = total - Saving(m)
           /\ UNCHANGED input

LEMMA TypeStepApplied == ASSUME TypeOK, Applied PROVE TypeOK'
<1>1. PICK m \in Open : selected' = [selected EXCEPT ![m.group] = After(m)]
  BY DEF Applied
<1>2. input' = input
  BY DEF Applied
<1>3. m.group \in input.groups /\ After(m) \in Representations(input, m.group)
  BY MoveFacts
<1>4. DOMAIN selected' = input.groups
  BY <1>1 DEF TypeOK
<1>5. \A g \in input.groups : selected'[g] \in Representations(input, g)
  BY <1>1, <1>3 DEF TypeOK
<1> QED
  BY <1>2, <1>4, <1>5 DEF TypeOK

LEMMA TypeStep == ASSUME TypeOK, Reduce PROVE TypeOK'
<1>1. Applied
  BY DEF Reduce, Applied
<1> QED
  BY <1>1, TypeStepApplied

-----------------------------------------------------------------------------
(***************************************************************************)
(* Protected groups stay verbatim and every other representation is one    *)
(* that was offered and that its score permits, for every problem          *)
(* (selectMessages with actionLoss).                                       *)
(***************************************************************************)
THEOREM ChoiceSafety == Spec => []TypeOK
<1>1. Init => TypeOK
  BY TypeStart, CasesAssumption DEF Init
<1>2. TypeOK /\ [Next]_vars => TypeOK'
  <2>1. ASSUME TypeOK, UNCHANGED vars PROVE TypeOK'
    BY <2>1 DEF TypeOK, vars
  <2> QED
    BY <2>1, TypeStep DEF Next
<1> QED
  BY <1>1, <1>2, PTL DEF Spec

(***************************************************************************)
(* One iteration keeps every chosen representation undominated.  The best  *)
(* move m leads to representation r of group g at price p for saving x; a  *)
(* permitted proposal v smaller than r was an open move itself, saving     *)
(* more, so had it lost no more than r it would have been the better       *)
(* fraction.                                                               *)
(***************************************************************************)
LEMMA BestIsUndominated ==
    ASSUME TypeOK, Undominated, NEW m \in Open, Best(m),
           NEW a \in Permitted(input, m.group),
           Variant(input, m.group, a).tokens <= After(m).tokens
    PROVE  /\ After(m).loss >= selected[m.group].loss
           /\ Variant(input, m.group, a).loss >= After(m).loss
           /\ Variant(input, m.group, a).tokens < After(m).tokens =>
                  Variant(input, m.group, a).loss > After(m).loss
<1> DEFINE g == m.group
           n == [group |-> g, action |-> a]
           v == Variant(input, g, a)
           r == After(m)
           old == selected[g]
<1>1. /\ g \in input.groups
      /\ m.action \in Permitted(input, g)
      /\ r = Variant(input, g, m.action)
      /\ r.tokens < old.tokens
      /\ r.tokens \in Nat /\ r.loss \in Nat
      /\ old.tokens \in Nat /\ old.loss \in Nat
  BY MoveFacts DEF Open
<1>2. a \in Actions
  BY <1>1 DEF Permitted, TypeOK, IsInput
<1>3. v \in Representations(input, g)
  BY <1>1 DEF Representations
<1>4. v.tokens \in Nat /\ v.loss \in Nat
  BY <1>1, <1>3, RepresentationFacts DEF TypeOK
<1>5. n \in Open /\ After(n) = v /\ n.group = g
  BY <1>1, <1>2, <1>4 DEF Open, Move, After
<1>6. ~Cheaper(n, m)
  BY <1>5 DEF Best
<1>7. /\ Saving(m) = old.tokens - r.tokens
      /\ Saving(n) = old.tokens - v.tokens
      /\ Price(m) = Epsilon + Larger(0, r.loss - old.loss)
      /\ Price(n) = Epsilon + Larger(0, v.loss - old.loss)
  BY <1>5 DEF Saving, Price
<1>8. /\ Saving(m) \in Nat /\ Saving(m) > 0 /\ Price(m) \in Nat /\ Price(m) > 0
      /\ Saving(n) \in Nat /\ Saving(n) > 0 /\ Price(n) \in Nat /\ Price(n) > 0
  BY <1>5, MoveFacts
<1>9. ~(Price(n) < Price(m) /\ Saving(m) <= Saving(n))
      /\ ~(Price(n) <= Price(m) /\ Saving(m) < Saving(n))
  BY <1>6, <1>8, SmallerFraction DEF Cheaper
<1>10. old.loss <= r.loss /\ old.loss <= v.loss
  <2>1. CASE old.action = "keep"
    <3>1. old \in Representations(input, g)
      BY <1>1 DEF TypeOK
    <3>2. old = Whole(input, g)
      BY <1>1, <2>1, <3>1, RepresentationFacts DEF TypeOK
    <3>3. old.loss = 0
      BY <3>2 DEF Whole
    <3> QED
      BY <1>1, <1>4, <3>3
  <2>2. CASE old.action # "keep"
    <3>1. r.loss > old.loss
      BY <1>1, <2>2 DEF Undominated
    <3>2. v.loss > old.loss
      BY <1>1, <1>4, <2>2 DEF Undominated
    <3> QED
      BY <1>1, <1>4, <3>1, <3>2
  <2> QED
    BY <2>1, <2>2
<1>11. /\ Price(m) = Epsilon + (r.loss - old.loss)
       /\ Price(n) = Epsilon + (v.loss - old.loss)
  BY <1>1, <1>4, <1>7, <1>10 DEF Larger
<1> QED
  BY <1>1, <1>4, <1>7, <1>9, <1>10, <1>11 DEF Epsilon

(***************************************************************************)
(* The inductive invariant: safe choices, none of them dominated.          *)
(***************************************************************************)
SelectionInv == TypeOK /\ Undominated

LEMMA SelectionInvStep == SelectionInv /\ [Next]_vars => Undominated'
<1> SUFFICES ASSUME SelectionInv, [Next]_vars
             PROVE  Undominated'
  OBVIOUS
<1> USE DEF SelectionInv
<1>1. CASE Reduce
  <2>1. PICK m \in Open : Best(m)
              /\ selected' = [selected EXCEPT ![m.group] = After(m)]
    BY <1>1 DEF Reduce
  <2>2. input' = input
    BY <1>1 DEF Reduce
  <2>3. SUFFICES ASSUME NEW h \in input.groups, selected'[h].action # "keep",
                        NEW a \in Permitted(input, h)
                 PROVE  LET v == Variant(input, h, a) IN
                        /\ v.tokens < selected'[h].tokens =>
                              v.loss > selected'[h].loss
                        /\ v.tokens = selected'[h].tokens =>
                              v.loss >= selected'[h].loss
    BY <2>2 DEF Undominated, Permitted, Variant
  <2>4. CASE h # m.group
    <3>1. selected'[h] = selected[h]
      BY <2>1, <2>4 DEF TypeOK
    <3> QED
      BY <2>3, <3>1 DEF Undominated
  <2>5. CASE h = m.group
    <3>1. selected'[h] = After(m)
      BY <2>1, <2>5 DEF TypeOK
    <3>2. After(m).tokens \in Nat /\ Variant(input, h, a).tokens \in Nat
      <4>1. Variant(input, h, a) \in Representations(input, h)
        BY DEF Representations
      <4> QED
        BY <4>1, MoveFacts, RepresentationFacts DEF TypeOK
    <3> QED
      BY <2>1, <2>5, <3>1, <3>2, BestIsUndominated
  <2> QED
    BY <2>4, <2>5
<1>2. CASE UNCHANGED vars
  BY <1>2 DEF vars, Undominated, Permitted, Variant
<1> QED
  BY <1>1, <1>2 DEF Next

(***************************************************************************)
(* Greedy selection with recomputed marginal costs never rests on a        *)
(* dominated representation (the loop of selectMessages), for every        *)
(* problem: this needs exact arithmetic over products, not a small model.  *)
(***************************************************************************)
THEOREM NeverDominated == Spec => []Undominated
<1>1. Init => Undominated
  BY DEF Init, Begin, Keeping, Whole, Undominated
<1>2. SelectionInv /\ [Next]_vars => Undominated'
  BY SelectionInvStep
<1>3. Spec => []TypeOK
  BY ChoiceSafety
<1> QED
  BY <1>1, <1>2, <1>3, PTL DEF Spec, SelectionInv

(***************************************************************************)
(* Every iteration changes one group, makes it smaller, never lowers its   *)
(* estimated loss, and lowers the total by exactly what it saves.          *)
(***************************************************************************)
THEOREM NeverTradesBack == Spec => OneWay
<1> DEFINE Step == \E g \in input.groups :
          /\ selected'[g].tokens < selected[g].tokens
          /\ selected'[g].loss >= selected[g].loss
          /\ \A h \in input.groups \ {g} : selected'[h] = selected[h]
          /\ total' = total - (selected[g].tokens - selected'[g].tokens)
<1>1. SelectionInv /\ [Next]_vars => [Step]_vars
  <2> SUFFICES ASSUME SelectionInv, Reduce
               PROVE  Step
    BY DEF Next
  <2> USE DEF SelectionInv
  <2>1. PICK m \in Open : Best(m)
              /\ selected' = [selected EXCEPT ![m.group] = After(m)]
              /\ total' = total - Saving(m)
    BY DEF Reduce
  <2>2. m.group \in input.groups /\ m.action \in Permitted(input, m.group)
        /\ After(m) = Variant(input, m.group, m.action)
        /\ After(m).tokens \in Nat
    BY MoveFacts
  <2>3. selected'[m.group] = After(m)
        /\ \A h \in input.groups \ {m.group} : selected'[h] = selected[h]
    BY <2>1, <2>2 DEF TypeOK
  <2>4. After(m).tokens < selected[m.group].tokens
    BY DEF Open
  <2>5. After(m).loss >= selected[m.group].loss
    <3>1. Variant(input, m.group, m.action).tokens <= After(m).tokens
      BY <2>2
    <3> QED
      BY <2>1, <2>2, <3>1, BestIsUndominated
  <2>6. total' = total - (selected[m.group].tokens - selected'[m.group].tokens)
    BY <2>1, <2>3 DEF Saving
  <2> QED
    BY <2>2, <2>3, <2>4, <2>5, <2>6
<1>2. Spec => []SelectionInv
  BY ChoiceSafety, NeverDominated, PTL DEF SelectionInv
<1> QED
  BY <1>1, <1>2, PTL DEF Spec, OneWay

(***************************************************************************)
(* The running total, kept by differences, is the sum of what is chosen.   *)
(***************************************************************************)
Chosen == [g \in input.groups |-> selected[g].tokens]
TotalInv == total = SumFunction(Chosen)

LEMMA ChosenFacts ==
    ASSUME TypeOK
    PROVE  Chosen \in [input.groups -> Int] /\ IsFiniteSet(input.groups)
<1>1. \A g \in input.groups : selected[g].tokens \in Nat
  BY RepresentationFacts DEF TypeOK
<1> QED
  BY <1>1 DEF Chosen, TypeOK, IsInput

LEMMA TotalStart ==
    ASSUME NEW c, IsInput(c), Begin(c) PROVE TotalInv
<1>1. Chosen = c.cost
  BY DEF Chosen, Begin, Keeping, Whole, IsInput
<1> QED
  BY <1>1 DEF TotalInv, Begin

LEMMA TotalStepApplied == ASSUME TypeOK, TypeOK', TotalInv, Applied PROVE TotalInv'
<1>1. PICK m \in Open : /\ selected' = [selected EXCEPT ![m.group] = After(m)]
                        /\ total' = total - Saving(m)
  BY DEF Applied
<1>2. input' = input
  BY DEF Applied
<1>3. /\ m.group \in input.groups /\ After(m).tokens \in Nat
      /\ selected[m.group].tokens \in Nat
  BY MoveFacts
<1>4. /\ Chosen \in [input.groups -> Int] /\ Chosen' \in [input.groups -> Int]
      /\ IsFiniteSet(input.groups)
  <2>1. \A g \in input.groups : selected'[g].tokens \in Nat
    BY <1>2, RepresentationFacts DEF TypeOK
  <2> QED
    BY <2>1, <1>2, ChosenFacts DEF Chosen
<1>5. /\ Chosen'[m.group] = After(m).tokens /\ Chosen[m.group] = selected[m.group].tokens
      /\ \A g \in input.groups \ {m.group} : Chosen'[g] = Chosen[g]
  BY <1>1, <1>2, <1>3 DEF Chosen, TypeOK
<1> DEFINE now == SumFunction(Chosen)
           next == SumFunction(Chosen')
<1>6. next = now - Chosen[m.group] + Chosen'[m.group]
  BY <1>3, <1>4, <1>5, SumUpdate
<1>7. now \in Int /\ next \in Int
  BY <1>2, <1>4, SumType
<1>8. next = now - (selected[m.group].tokens - After(m).tokens)
  <2> HIDE DEF now, next
  <2> QED
    BY <1>3, <1>5, <1>6, <1>7
<1> QED
  BY <1>1, <1>8 DEF TotalInv, Saving

LEMMA TotalStep == ASSUME TypeOK, TypeOK', TotalInv, Reduce PROVE TotalInv'
<1>1. Applied
  BY DEF Reduce, Applied
<1> QED
  BY <1>1, TotalStepApplied

StuckIsSmallest == Stuck => \A g \in input.groups : Smallest(g)

\* A group that is not at its smallest has an open move.
LEMMA StuckAtMinimum == TypeOK => StuckIsSmallest
<1> SUFFICES ASSUME TypeOK, Open = {}, NEW g \in input.groups,
                    NEW r \in Representations(input, g)
             PROVE  selected[g].tokens <= r.tokens
  BY DEF StuckIsSmallest, Stuck, Smallest
<1>1. selected[g] \in Representations(input, g)
  BY DEF TypeOK
<1>2. selected[g].tokens \in Nat /\ r.tokens \in Nat
  BY <1>1, RepresentationFacts DEF TypeOK
<1>3. CASE r = Whole(input, g)
  <2>1. CASE selected[g] = Whole(input, g)
    BY <1>2, <1>3, <2>1
  <2>2. ASSUME NEW a \in Permitted(input, g),
               selected[g] = Variant(input, g, a)
        PROVE  selected[g].tokens < r.tokens
    BY <1>3, <2>2 DEF TypeOK, IsInput, Permitted, Variant, Whole
  <2> QED
    BY <1>1, <1>2, <2>1, <2>2 DEF Representations
<1>4. ASSUME NEW a \in Permitted(input, g), r = Variant(input, g, a)
      PROVE  selected[g].tokens <= r.tokens
  <2> DEFINE n == [group |-> g, action |-> a]
  <2>1. a \in Actions
    BY <1>4 DEF Permitted, TypeOK, IsInput
  <2>2. n \in Move /\ After(n) = r
    BY <1>4, <2>1 DEF Move, After
  <2>3. ~(r.tokens < selected[g].tokens)
    BY <1>4, <2>2 DEF Open
  <2> QED
    BY <1>2, <2>3
<1> QED
  BY <1>3, <1>4 DEF Representations

(***************************************************************************)
(* When the loop stops above the target, every group is already at its     *)
(* smallest permitted representation.                                      *)
(***************************************************************************)
THEOREM StopsAtMinimum == Spec => []StuckIsSmallest
  BY StuckAtMinimum, ChoiceSafety, PTL

(***************************************************************************)
(* When the loop gives up, no choice of permitted representations fits the *)
(* target: whatever is chosen instead is at least as large in every group, *)
(* and hence in sum, and the total is the sum (selectMessages).            *)
(***************************************************************************)
THEOREM GivingUpIsHonest == Spec => []UnmetIsTight
<1>1. TypeOK /\ TotalInv => UnmetIsTight
  <2> SUFFICES ASSUME TypeOK, TotalInv, Stuck,
                      NEW f \in [input.groups -> Actions \cup {"keep"}],
                      \A g \in input.groups : f[g] \in {"keep"} \cup Permitted(input, g)
               PROVE  SumFunction([g \in input.groups |->
                          IF f[g] = "keep" THEN input.cost[g]
                                           ELSE input.size[g][f[g]]]) > input.target
    BY StuckAtMinimum DEF UnmetIsTight, StuckIsSmallest
  <2> DEFINE h == [g \in input.groups |-> IF f[g] = "keep" THEN input.cost[g]
                                                          ELSE input.size[g][f[g]]]
  <2>1. ASSUME NEW g \in input.groups
        PROVE  h[g] \in Int /\ Chosen[g] <= h[g]
    <3>1. Smallest(g)
      BY StuckAtMinimum DEF StuckIsSmallest
    <3>2. \E r \in Representations(input, g) : r.tokens = h[g]
      <4>1. CASE f[g] = "keep"
        <5>1. Whole(input, g) \in Representations(input, g)
          BY DEF Representations
        <5> QED
          BY <4>1, <5>1 DEF Whole
      <4>2. CASE f[g] # "keep"
        <5>1. Variant(input, g, f[g]) \in Representations(input, g)
          BY <4>2 DEF Representations
        <5> QED
          BY <4>2, <5>1 DEF Variant
      <4> QED
        BY <4>1, <4>2
    <3> QED
      BY <3>1, <3>2, RepresentationFacts DEF Smallest, Chosen, TypeOK
  <2>2. h \in [input.groups -> Int]
    BY <2>1
  <2>3. /\ Chosen \in [input.groups -> Int] /\ IsFiniteSet(input.groups)
        /\ input.target \in Int
    BY ChosenFacts DEF TypeOK, IsInput
  <2> HIDE DEF h
  <2>4. SumFunction(Chosen) <= SumFunction(h)
    BY <2>1, <2>2, <2>3, SumBound
  <2>5. SumFunction(Chosen) \in Int /\ SumFunction(h) \in Int
    BY <2>2, <2>3, SumType
  <2>6. SumFunction(h) > input.target
    BY <2>3, <2>4, <2>5 DEF TotalInv, Stuck
  <2> QED
    BY <2>6 DEF h
<1>2. Init => TotalInv
  BY TotalStart, CasesAssumption DEF Init
<1>3. TypeOK /\ TypeOK' /\ TotalInv /\ [Next]_vars => TotalInv'
  BY TotalStep DEF Next, vars, TotalInv, Chosen
<1> QED
  BY <1>1, <1>2, <1>3, ChoiceSafety, PTL DEF Spec

=============================================================================
