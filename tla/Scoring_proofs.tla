--------------------------- MODULE Scoring_proofs ---------------------------
(***************************************************************************)
(* Proofs about the planning of Batching, and about Scoring, for every     *)
(* evaluation, every encoding of requests and all limits.  Planning does   *)
(* not read what the pass changes, so each theorem of planning holds of    *)
(* Batching alone and of the whole call.  At the end, the other scorer:    *)
(* Replay, for whatever it is supplied with.                               *)
(***************************************************************************)
EXTENDS Scoring, Replay, SequenceTheorems, WellFoundedInduction, TLAPS

-----------------------------------------------------------------------------
\* Lists.

LEMMA ListOf == ASSUME NEW S, NEW s \in Seq(S) PROVE IsList(s)
<1>1. DOMAIN s = 1..Len(s) /\ Len(s) \in Nat
  OBVIOUS
<1>2. s = [i \in 1..Len(s) |-> s[i]]
  OBVIOUS
<1> QED
  BY <1>1, <1>2 DEF IsList

LEMMA ListShape ==
    ASSUME NEW s, IsList(s)
    PROVE  Len(s) \in Nat /\ DOMAIN s = 1..Len(s) /\ s = [i \in 1..Len(s) |-> s[i]]
BY DEF IsList

LEMMA Joined ==
    ASSUME NEW s, NEW t, IsList(s), IsList(t)
    PROVE  /\ IsList(s \o t) /\ Len(s \o t) = Len(s) + Len(t)
           /\ \A i \in 1..Len(s) : (s \o t)[i] = s[i]
           /\ \A i \in 1..Len(t) : (s \o t)[Len(s) + i] = t[i]
           /\ \A i \in 1..(Len(s) + Len(t)) : i > Len(s) => (s \o t)[i] = t[i - Len(s)]
<1> DEFINE S == {s[i] : i \in DOMAIN s} \cup {t[i] : i \in DOMAIN t}
<1>1. s \in Seq(S) /\ t \in Seq(S)
  <2>1. \A i \in 1..Len(s) : s[i] \in S
    BY ListShape
  <2>2. \A i \in 1..Len(t) : t[i] \in S
    BY ListShape
  <2> QED
    BY <2>1, <2>2, ListShape
<1> HIDE DEF S
<1>2. s \o t \in Seq(S) /\ Len(s \o t) = Len(s) + Len(t)
  BY <1>1
<1>3. \A i \in 1..(Len(s) + Len(t)) :
         (s \o t)[i] = IF i <= Len(s) THEN s[i] ELSE t[i - Len(s)]
  BY <1>1
<1>4. Len(s) \in Nat /\ Len(t) \in Nat
  BY <1>1
<1>5. \A i \in 1..Len(t) : (s \o t)[Len(s) + i] = t[i]
  <2> TAKE i \in 1..Len(t)
  <2>1. Len(s) + i \in 1..(Len(s) + Len(t)) /\ ~(Len(s) + i <= Len(s)) /\ (Len(s) + i) - Len(s) = i
    BY <1>4
  <2> QED
    BY <1>3, <2>1
<1>6. IsList(s \o t)
  BY <1>2, ListOf
<1>7. \A i \in 1..Len(s) : (s \o t)[i] = s[i]
  BY <1>3, <1>4
<1>8. \A i \in 1..(Len(s) + Len(t)) : i > Len(s) => (s \o t)[i] = t[i - Len(s)]
  BY <1>3, <1>4
<1> QED
  BY <1>2, <1>5, <1>6, <1>7, <1>8

LEMMA Single == ASSUME NEW e PROVE IsList(<<e>>) /\ Len(<<e>>) = 1 /\ <<e>>[1] = e /\ DOMAIN <<e>> = {1}
<1>1. <<e>> \in Seq({e})
  OBVIOUS
<1>2. IsList(<<e>>)
  BY <1>1, ListOf
<1> QED
  BY <1>2

LEMMA NoneListed == IsList(<<>>) /\ Len(<<>>) = 0
BY DEF IsList

LEMMA Appended ==
    ASSUME NEW s, NEW e, IsList(s)
    PROVE  Append(s, e) = s \o <<e>>
<1> DEFINE S == {s[i] : i \in DOMAIN s} \cup {e}
<1>1. s \in Seq(S)
  <2>1. \A i \in 1..Len(s) : s[i] \in S
    BY ListShape
  <2> QED
    BY <2>1, ListShape
<1> HIDE DEF S
<1>2. e \in S
  BY DEF S
<1> QED
  BY <1>1, <1>2, AppendIsConcat

LEMMA Rest ==
    ASSUME NEW s, IsList(s), s # <<>>
    PROVE  /\ Len(s) > 0 /\ Head(s) = s[1]
           /\ IsList(Tail(s)) /\ Len(Tail(s)) = Len(s) - 1
           /\ \A i \in 1..(Len(s) - 1) : Tail(s)[i] = s[i + 1]
<1> DEFINE S == {s[i] : i \in DOMAIN s}
<1>1. s \in Seq(S)
  BY DEF IsList
<1> HIDE DEF S
<1>2. /\ Tail(s) \in Seq(S) /\ Head(s) = s[1] /\ Len(s) > 0
      /\ Len(Tail(s)) = Len(s) - 1
      /\ \A i \in 1..(Len(s) - 1) : Tail(s)[i] = s[i + 1]
  <2>1. Len(s) > 0
    BY <1>1, EmptySeq
  <2> QED
    BY <1>1, <2>1
<1>3. IsList(Tail(s))
  BY <1>2, ListOf
<1> QED
  BY <1>2, <1>3

LEMMA Associative ==
    ASSUME NEW s, NEW t, NEW u, IsList(s), IsList(t), IsList(u)
    PROVE  (s \o t) \o u = s \o (t \o u)
<1> DEFINE S == {s[i] : i \in DOMAIN s} \cup {t[i] : i \in DOMAIN t} \cup {u[i] : i \in DOMAIN u}
<1>1. s \in Seq(S) /\ t \in Seq(S) /\ u \in Seq(S)
  <2>1. \A i \in 1..Len(s) : s[i] \in S
    BY ListShape
  <2>2. \A i \in 1..Len(t) : t[i] \in S
    BY ListShape
  <2>3. \A i \in 1..Len(u) : u[i] \in S
    BY ListShape
  <2> HIDE DEF S
  <2> QED
    BY <2>1, <2>2, <2>3, ListShape
<1> HIDE DEF S
<1> QED
  BY <1>1, ConcatAssociative

Members(s) == {s[k] : k \in DOMAIN s}

\* What holds of the members of two lists holds of those of both joined.
LEMMA JoinedMembers ==
    ASSUME NEW s, NEW t, IsList(s), IsList(t), NEW i \in DOMAIN (s \o t)
    PROVE  \/ \E j \in DOMAIN s : (s \o t)[i] = s[j]
           \/ \E j \in DOMAIN t : (s \o t)[i] = t[j]
<1>1. /\ Len(s) \in Nat /\ DOMAIN s = 1..Len(s)
      /\ Len(t) \in Nat /\ DOMAIN t = 1..Len(t)
      /\ DOMAIN (s \o t) = 1..(Len(s) + Len(t))
  BY ListShape, Joined
<1>2. CASE i <= Len(s)
  BY <1>1, <1>2, Joined
<1>3. CASE i > Len(s)
  <2>1. i - Len(s) \in 1..Len(t)
    BY <1>1, <1>3
  <2> QED
    BY <1>1, <1>3, <2>1, Joined
<1> QED
  BY <1>1, <1>2, <1>3

LEMMA MembersJoined ==
    ASSUME NEW s, NEW t, IsList(s), IsList(t)
    PROVE  Members(s \o t) = Members(s) \cup Members(t)
<1>1. /\ Len(s) \in Nat /\ DOMAIN s = 1..Len(s)
      /\ Len(t) \in Nat /\ DOMAIN t = 1..Len(t)
      /\ DOMAIN (s \o t) = 1..(Len(s) + Len(t))
      /\ \A i \in 1..Len(s) : (s \o t)[i] = s[i]
      /\ \A i \in 1..Len(t) : (s \o t)[Len(s) + i] = t[i]
  BY ListShape, Joined
<1>2. \A i \in DOMAIN s : i \in DOMAIN (s \o t)
  BY <1>1
<1>3. \A i \in DOMAIN t : Len(s) + i \in DOMAIN (s \o t)
  BY <1>1
<1>4. \A i \in DOMAIN (s \o t) : (s \o t)[i] \in Members(s) \cup Members(t)
  BY JoinedMembers DEF Members
<1> QED
  BY <1>1, <1>2, <1>3, <1>4 DEF Members

-----------------------------------------------------------------------------
\* Flattening.

LEMMA Induction ==
    ASSUME NEW T \in SUBSET Nat, 0 \in T, \A n \in T : n + 1 \in T
    PROVE  T = Nat
<1> SUFFICES ASSUME Nat \ T # {} PROVE FALSE
  OBVIOUS
<1>1. IsWellFoundedOn(OpToRel(<, Nat), Nat)
  BY NatLessThanWellFounded
<1>2. PICK m \in Nat \ T : \A k \in Nat \ T : ~(<<k, m>> \in OpToRel(<, Nat))
  BY <1>1, WFMin, Nat \ T \subseteq Nat
<1>3. \A k \in Nat \ T : ~(k < m)
  BY <1>2 DEF OpToRel
<1>4. m # 0
  OBVIOUS
<1>5. m - 1 \in T
  BY <1>3, <1>4
<1>6. (m - 1) + 1 \in T
  BY <1>5
<1> QED
  BY <1>6, (m - 1) + 1 = m

\* f joins ever more of the members of s.
Runs(f, s) == f = [i \in 0..Len(s) |-> IF i = 0 THEN <<>> ELSE f[i - 1] \o s[i]]

LEMMA RunExists == ASSUME NEW s, Len(s) \in Nat PROVE \E f : Runs(f, s)
<1> DEFINE R(f, k) == f = [i \in 0..k |-> IF i = 0 THEN <<>> ELSE f[i - 1] \o s[i]]
           T == {k \in Nat : \E f : R(f, k)}
<1>1. 0 \in T
  <2> DEFINE f == [i \in 0..0 |-> <<>>]
  <2>1. R(f, 0)
    OBVIOUS
  <2> QED
    BY <2>1
<1>2. ASSUME NEW k \in Nat, \E f : R(f, k) PROVE \E f : R(f, k + 1)
  <2>1. PICK f : R(f, k)
    BY <1>2
  <2> DEFINE g == [i \in 0..(k + 1) |-> IF i = k + 1 THEN f[k] \o s[k + 1] ELSE f[i]]
  <2>2. ASSUME NEW i \in 0..(k + 1)
        PROVE  g[i] = IF i = 0 THEN <<>> ELSE g[i - 1] \o s[i]
    <3>1. CASE i = k + 1
      BY <3>1
    <3>2. CASE i # k + 1
      <4>1. i \in 0..k /\ g[i] = f[i]
        BY <3>2
      <4>2. f[i] = IF i = 0 THEN <<>> ELSE f[i - 1] \o s[i]
        BY <2>1, <4>1
      <4>3. i # 0 => g[i - 1] = f[i - 1]
        BY <4>1
      <4> QED
        BY <4>1, <4>2, <4>3
    <3> QED
      BY <3>1, <3>2
  <2>3. R(g, k + 1)
    BY <2>2
  <2> QED
    BY <2>3
<1> HIDE DEF R
<1>3. ASSUME NEW k \in T PROVE k + 1 \in T
  BY <1>2
<1>4. Len(s) \in T
  <2> HIDE DEF T
  <2>1. T \subseteq Nat
    BY DEF T
  <2> QED
    BY <1>1, <1>3, <2>1, Induction
<1> QED
  BY <1>4 DEF R, Runs

LEMMA FlatRuns == ASSUME NEW s, Len(s) \in Nat PROVE \E f : Runs(f, s) /\ Flat(s) = f[Len(s)]
<1> DEFINE upTo == CHOOSE f : Runs(f, s)
<1>1. Runs(upTo, s)
  BY RunExists
<1>2. Flat(s) = upTo[Len(s)]
  BY DEF Flat, Runs
<1> HIDE DEF upTo
<1> QED
  BY <1>1, <1>2

\* A run at each place, from the one before.
LEMMA RunAt ==
    ASSUME NEW s, Len(s) \in Nat, NEW f, Runs(f, s)
    PROVE  /\ f[0] = <<>>
           /\ \A k \in Nat : k + 1 <= Len(s) => f[k + 1] = f[k] \o s[k + 1]
<1>1. \A i \in 0..Len(s) : f[i] = IF i = 0 THEN <<>> ELSE f[i - 1] \o s[i]
  BY DEF Runs
<1>2. ASSUME NEW k \in Nat, k + 1 <= Len(s) PROVE f[k + 1] = f[k] \o s[k + 1]
  <2>1. k + 1 \in 0..Len(s) /\ k + 1 # 0 /\ (k + 1) - 1 = k
    BY <1>2
  <2> QED
    BY <1>1, <2>1
<1>3. 0 \in 0..Len(s)
  OBVIOUS
<1>4. f[0] = <<>>
  BY <1>1, <1>3
<1> QED
  BY <1>2, <1>4

Listed(s) == IsList(s) /\ \A i \in DOMAIN s : IsList(s[i])

LEMMA FlatEmpty == Flat(<<>>) = <<>>
<1>1. PICK f : Runs(f, <<>>) /\ Flat(<<>>) = f[Len(<<>>)]
  BY FlatRuns
<1> QED
  BY <1>1, RunAt

\* The runs of a list of lists are lists, and hold the members of its members.
LEMMA RunFacts ==
    ASSUME NEW s, Listed(s), NEW f, Runs(f, s), NEW n \in 0..Len(s)
    PROVE  /\ IsList(f[n])
           /\ Members(f[n]) = UNION {Members(s[i]) : i \in 1..n}
<1>0. Len(s) \in Nat /\ DOMAIN s = 1..Len(s) /\ \A i \in 1..Len(s) : IsList(s[i])
  BY ListShape DEF Listed
<1> DEFINE U(k) == UNION {Members(s[i]) : i \in 1..k}
           T == {k \in Nat : k <= Len(s) => IsList(f[k]) /\ Members(f[k]) = U(k)}
<1>1. 0 \in T
  <2>1. f[0] = <<>>
    BY <1>0, RunAt
  <2>2. Members(<<>>) = {}
    BY DEF Members
  <2>3. U(0) = {}
    OBVIOUS
  <2> HIDE DEF U
  <2> QED
    BY <2>1, <2>2, <2>3, NoneListed
<1>2. ASSUME NEW k \in T PROVE k + 1 \in T
  <2> SUFFICES ASSUME k + 1 <= Len(s)
               PROVE  IsList(f[k + 1]) /\ Members(f[k + 1]) = U(k + 1)
    OBVIOUS
  <2>1. k \in Nat /\ IsList(f[k]) /\ Members(f[k]) = U(k) /\ IsList(s[k + 1])
    BY <1>0
  <2>2. f[k + 1] = f[k] \o s[k + 1]
    BY <1>0, <2>1, RunAt
  <2>3. IsList(f[k + 1])
    BY <2>1, <2>2, Joined
  <2>4. Members(f[k] \o s[k + 1]) = Members(f[k]) \cup Members(s[k + 1])
    BY <2>1, MembersJoined
  <2>5. U(k + 1) = U(k) \cup Members(s[k + 1])
    <3>1. 1..(k + 1) = (1..k) \cup {k + 1}
      BY <2>1
    <3> QED
      BY <3>1
  <2> QED
    BY <2>1, <2>2, <2>3, <2>4, <2>5
<1> HIDE DEF T, U
<1>3. T \subseteq Nat
  BY DEF T
<1>4. T = Nat
  BY <1>1, <1>2, <1>3, Induction
<1>5. n \in Nat /\ n <= Len(s)
  BY <1>0
<1> QED
  BY <1>4, <1>5 DEF T, U

LEMMA FlatFacts ==
    ASSUME NEW s, Listed(s)
    PROVE  /\ IsList(Flat(s))
           /\ Members(Flat(s)) = UNION {Members(s[i]) : i \in DOMAIN s}
<1>1. Len(s) \in Nat /\ DOMAIN s = 1..Len(s)
  BY ListShape DEF Listed
<1>2. PICK f : Runs(f, s) /\ Flat(s) = f[Len(s)]
  BY <1>1, FlatRuns
<1> QED
  BY <1>1, <1>2, RunFacts

\* Flattening two lists joined is joining them flattened.
LEMMA FlatJoined ==
    ASSUME NEW s, NEW t, Listed(s), Listed(t)
    PROVE  Flat(s \o t) = Flat(s) \o Flat(t)
<1>0. /\ IsList(s) /\ Len(s) \in Nat /\ DOMAIN s = 1..Len(s)
      /\ IsList(t) /\ Len(t) \in Nat /\ DOMAIN t = 1..Len(t)
      /\ \A i \in 1..Len(t) : IsList(t[i])
  BY ListShape DEF Listed
<1>1. PICK f : Runs(f, s) /\ Flat(s) = f[Len(s)]
  BY <1>0, FlatRuns
<1>2. PICK g : Runs(g, t) /\ Flat(t) = g[Len(t)]
  BY <1>0, FlatRuns
<1>3. /\ Len(s \o t) = Len(s) + Len(t) /\ Len(s \o t) \in Nat
      /\ \A i \in 1..Len(s) : (s \o t)[i] = s[i]
      /\ \A i \in 1..Len(t) : (s \o t)[Len(s) + i] = t[i]
  BY <1>0, Joined
<1>4. PICK h : Runs(h, s \o t) /\ Flat(s \o t) = h[Len(s \o t)]
  BY <1>3, FlatRuns
<1>runs. \A n \in Nat : n + 1 <= Len(s) + Len(t) => h[n + 1] = h[n] \o (s \o t)[n + 1]
  BY <1>3, <1>4, RunAt
<1>5. h[Len(s)] = f[Len(s)]
  <2> DEFINE T == {k \in Nat : k <= Len(s) => h[k] = f[k]}
  <2>1. 0 \in T
    BY <1>0, <1>1, <1>3, <1>4, RunAt
  <2>2. ASSUME NEW k \in T PROVE k + 1 \in T
    <3> SUFFICES ASSUME k + 1 <= Len(s) PROVE h[k + 1] = f[k + 1]
      OBVIOUS
    <3>1. k \in Nat /\ h[k] = f[k] /\ k + 1 \in 1..Len(s) /\ k + 1 <= Len(s) + Len(t)
      BY <1>0
    <3>2. f[k + 1] = f[k] \o s[k + 1]
      BY <1>0, <1>1, <3>1, RunAt
    <3>3. h[k + 1] = h[k] \o (s \o t)[k + 1]
      BY <1>runs, <3>1
    <3>4. (s \o t)[k + 1] = s[k + 1]
      BY <1>3, <3>1
    <3> QED
      BY <3>1, <3>2, <3>3, <3>4
  <2>3. T \subseteq Nat
    OBVIOUS
  <2> HIDE DEF T
  <2>4. Len(s) \in T
    BY <1>0, <2>1, <2>2, <2>3, Induction
  <2> QED
    BY <1>0, <2>4 DEF T
<1>6. IsList(f[Len(s)]) /\ \A k \in 0..Len(t) : IsList(g[k])
  BY <1>0, <1>1, <1>2, RunFacts
<1>7. h[Len(s) + Len(t)] = f[Len(s)] \o g[Len(t)]
  <2> DEFINE P(k) == h[Len(s) + k] = f[Len(s)] \o g[k]
             T == {k \in Nat : k <= Len(t) => P(k)}
  <2>1. P(0)
    <3>1. g[0] = <<>>
      BY <1>0, <1>2, RunAt
    <3>2. Len(s) + 0 = Len(s)
      BY <1>0
    <3>3. f[Len(s)] \o <<>> = f[Len(s)]
      BY <1>6, ConcatEmptySeq DEF IsList
    <3> QED
      BY <1>5, <3>1, <3>2, <3>3
  <2>2. ASSUME NEW k \in Nat, k + 1 <= Len(t), P(k) PROVE P(k + 1)
    <3>1. /\ k + 1 \in 1..Len(t) /\ k \in 0..Len(t)
          /\ Len(s) + (k + 1) = (Len(s) + k) + 1 /\ Len(s) + k \in Nat
          /\ (Len(s) + k) + 1 <= Len(s) + Len(t)
      BY <1>0, <2>2
    <3>2. g[k + 1] = g[k] \o t[k + 1]
      BY <1>0, <1>2, <2>2, RunAt
    <3>3. h[(Len(s) + k) + 1] = h[Len(s) + k] \o (s \o t)[(Len(s) + k) + 1]
      BY <1>runs, <3>1
    <3>4. (s \o t)[Len(s) + (k + 1)] = t[k + 1]
      BY <1>3, <3>1
    <3>5. (f[Len(s)] \o g[k]) \o t[k + 1] = f[Len(s)] \o (g[k] \o t[k + 1])
      <4>1. IsList(f[Len(s)]) /\ IsList(g[k]) /\ IsList(t[k + 1])
        BY <1>0, <1>6, <3>1
      <4> DEFINE x == f[Len(s)]
                 y == g[k]
                 z == t[k + 1]
      <4>2. IsList(x) /\ IsList(y) /\ IsList(z)
        BY <4>1
      <4> HIDE DEF x, y, z
      <4>3. (x \o y) \o z = x \o (y \o z)
        BY <4>2, Associative, Z3
      <4> QED
        BY <4>3 DEF x, y, z
    <3> QED
      BY <2>2, <3>1, <3>2, <3>3, <3>4, <3>5
  <2> HIDE DEF P
  <2>3. 0 \in T /\ T \subseteq Nat
    BY <2>1
  <2>4. ASSUME NEW k \in T PROVE k + 1 \in T
    BY <1>0, <2>2
  <2> HIDE DEF T
  <2>5. T = Nat
    BY <2>3, <2>4, Induction
  <2>6. P(Len(t))
    BY <1>0, <2>5 DEF T
  <2> QED
    BY <2>6 DEF P
<1> QED
  BY <1>1, <1>2, <1>3, <1>4, <1>7

LEMMA FlatSingle == ASSUME NEW e, IsList(e) PROVE Flat(<<e>>) = e
<1>1. Len(<<e>>) = 1 /\ <<e>>[1] = e
  BY Single
<1>2. PICK f : Runs(f, <<e>>) /\ Flat(<<e>>) = f[1]
  BY <1>1, FlatRuns
<1>3. f[0] = <<>> /\ f[1] = f[0] \o <<e>>[1]
  <2>1. Len(<<e>>) \in Nat /\ 0 + 1 <= Len(<<e>>) /\ 0 + 1 = 1
    BY <1>1
  <2>2. \A k \in Nat : k + 1 <= Len(<<e>>) => f[k + 1] = f[k] \o <<e>>[k + 1]
    BY <1>2, <2>1, RunAt, Zenon
  <2> QED
    BY <1>2, <2>1, <2>2, RunAt
<1>4. <<>> \o e = e
  BY ConcatEmptySeq DEF IsList
<1> QED
  BY <1>1, <1>2, <1>3, <1>4

\* A list taken apart into its members is whole again when flattened.
LEMMA FlatSingles ==
    ASSUME NEW e, NEW s, IsList(e), IsList(s), Len(s) = Len(e),
           \A i \in 1..Len(e) : s[i] = <<e[i]>>
    PROVE  Flat(s) = e
<1>0. Len(e) \in Nat /\ DOMAIN e = 1..Len(e) /\ e = [i \in 1..Len(e) |-> e[i]]
  BY ListShape
<1> DEFINE S == {e[i] : i \in DOMAIN e}
           upTo(k) == SubSeq(e, 1, k)
<1>1. e \in Seq(S)
  BY DEF IsList
<1> HIDE DEF S
<1>2. PICK f : Runs(f, s) /\ Flat(s) = f[Len(e)]
  BY <1>0, FlatRuns
<1> DEFINE T == {k \in Nat : k <= Len(e) => f[k] = SubSeq(e, 1, k)}
<1>3. 0 \in T
  <2>1. SubSeq(e, 1, 0) = <<>>
    BY SubSeqEmpty
  <2>2. f[0] = <<>>
    BY <1>0, <1>2, RunAt
  <2> QED
    BY <2>1, <2>2
<1>4. ASSUME NEW k \in T PROVE k + 1 \in T
  <2> SUFFICES ASSUME k + 1 <= Len(e) PROVE f[k + 1] = SubSeq(e, 1, k + 1)
    OBVIOUS
  <2>1. k \in Nat /\ f[k] = SubSeq(e, 1, k) /\ k + 1 \in 1..Len(e) /\ 1 \in 1..Len(e)
    BY <1>0
  <2>2. f[k + 1] = f[k] \o <<e[k + 1]>>
    <3>1. f[k + 1] = f[k] \o s[k + 1]
      BY <1>0, <1>2, <2>1, RunAt
    <3>2. s[k + 1] = <<e[k + 1]>>
      BY <2>1
    <3> QED
      BY <3>1, <3>2
  <2>3. SubSeq(e, 1, k + 1) = SubSeq(e, 1, (k + 1) - 1) \o <<e[k + 1]>>
    BY <1>1, <2>1, SubSeqRecursiveSecond
  <2>4. (k + 1) - 1 = k
    BY <2>1
  <2> QED
    BY <2>1, <2>2, <2>3, <2>4
<1>5. T \subseteq Nat
  OBVIOUS
<1> HIDE DEF T
<1>6. Len(e) \in T
  BY <1>0, <1>3, <1>4, <1>5, Induction
<1>7. SubSeq(e, 1, Len(e)) = e
  BY <1>1, SubSeqFull
<1> QED
  BY <1>0, <1>2, <1>6, <1>7 DEF T

-----------------------------------------------------------------------------
\* The invariant of planning.

\* q is p, or p with a preview cut at a rune and declared incomplete.
IsCutOf(q, p) ==
    \/ q = p
    \/ \E n \in p.preview.starts :
          q = [p EXCEPT !.preview = Prefix(p.preview, n), !.complete = FALSE]

PartsOf(c) == {PiecesOf(c)[j] : j \in DOMAIN PiecesOf(c)}

\* c shows o as EvidenceHonest wants it.
Shows(c, o) ==
    /\ o.id = c.id
    /\ \/ c.preview = o.preview /\ c.complete = o.complete
       \/ /\ ~c.complete
          /\ c.preview.bytes \in o.preview.starts
          /\ c.preview = Prefix(o.preview, c.preview.bytes)

\* A request that may be sent as it is.
Genuine(b) ==
    /\ b.body = Body(context, b.candidates) /\ Fits(b.body)
    /\ \A c \in Members(b.candidates) : \E o \in {eval.candidates[k] : k \in 1..N} : Shows(c, o)

ShapeInv ==
    /\ eval \in Evaluations /\ keep \in BOOLEAN
    /\ pc \in {"context", "batches", "split", "done", "failed"}
    /\ start \in 1..(N + 1) /\ end \in start..(N + 1)
    /\ IsList(batches) /\ IsList(split) /\ IsList(pieces)
    /\ pc = "context" => batches = <<>> /\ start = 1 /\ end = 1
    /\ pc \in {"context", "batches", "done"} => split = <<>> /\ pieces = <<>>
    /\ pc = "split" => start <= N /\ end = start
    /\ pc = "done" => start = N + 1

\* Whatever is planned so far, or waits to be, could be sent.
RequestInv ==
    /\ end > start => /\ \E cs \in {Chosen(start, end - 1)} : accepted = Body(context, cs)
                      /\ Fits(accepted)
    /\ \A i \in DOMAIN batches : Genuine(batches[i])
    /\ \A i \in DOMAIN split : Genuine(split[i])

\* A part still to be placed is one of the candidate's, perhaps cut.
PieceInv ==
    pc = "split" => \A j \in DOMAIN pieces :
        \E p \in PartsOf(eval.candidates[start]) : IsCutOf(pieces[j], p)

LimitInv == Len(batches) > MaxBatches => pc = "failed"

PlanInv == ShapeInv /\ RequestInv /\ PieceInv /\ LimitInv /\ RefusedForCause

\* What the assumption says of the evaluation at hand.
LEMMA CandidateFacts ==
    ASSUME eval \in Evaluations
    PROVE  /\ N \in Nat /\ DOMAIN eval.candidates = 1..N
           /\ IsList(eval.candidates)
           /\ \A i \in 1..N : IsCandidate(eval.candidates[i])
<1>1. IsList(eval.candidates) /\ \A i \in DOMAIN eval.candidates : IsCandidate(eval.candidates[i])
  BY EvaluationsAssumption
<1> QED
  BY <1>1, ListShape DEF N

\* A part asks about the candidate it is a part of, and is shown like it.
LEMMA PartFacts ==
    ASSUME NEW c, IsCandidate(c)
    PROVE  /\ IsList(PiecesOf(c))
           /\ \A p \in PartsOf(c) : IsCandidate(p) /\ p.id = c.id
                                   /\ p.preview = c.preview /\ p.complete = c.complete
<1> DEFINE V == Seq(Actions)
           R == [id : {c.id}, preview : [bytes : Nat, starts : SUBSET Nat], complete : BOOLEAN,
                 variants : V]
<1>1. c \in R /\ IsText(c.preview)
  BY DEF IsCandidate
<1>2. CASE keep
  <2>1. PiecesOf(c) = <<c>>
    BY <1>2 DEF PiecesOf
  <2>2. PartsOf(c) = {c}
    BY <2>1, Single DEF PartsOf
  <2> QED
    BY <2>1, <2>2, Single
<1>3. CASE ~keep
  <2> DEFINE part(j) == [c EXCEPT !.variants = <<@[j]>>]
  <2>1. PiecesOf(c) = [j \in DOMAIN c.variants |-> part(j)]
    BY <1>3 DEF PiecesOf
  <2>2. c.variants \in V /\ DOMAIN c.variants = 1..Len(c.variants) /\ Len(c.variants) \in Nat
    BY <1>1
  <2>3. ASSUME NEW j \in DOMAIN c.variants
        PROVE  /\ IsCandidate(part(j)) /\ part(j).id = c.id
               /\ part(j).preview = c.preview /\ part(j).complete = c.complete
    <3>1. <<c.variants[j]>> \in V
      <4>1. c.variants[j] \in Actions
        BY <2>2
      <4> QED
        BY <4>1
    <3> HIDE DEF V
    <3>2. part(j) \in R /\ part(j).preview = c.preview
      BY <1>1, <3>1
    <3>3. part(j).id = c.id /\ part(j).complete = c.complete
      BY <1>1
    <3>4. IsCandidate(part(j))
      BY <1>1, <3>2, <3>3 DEF IsCandidate, V
    <3> QED
      BY <3>2, <3>3, <3>4
  <2> DEFINE P == {part(j) : j \in DOMAIN c.variants}
  <2>4. PiecesOf(c) \in Seq(P)
    <3>1. \A j \in 1..Len(c.variants) : part(j) \in P
      BY <2>2
    <3> HIDE DEF P, part
    <3> QED
      BY <2>1, <2>2, <3>1
  <2>5. \A p \in PartsOf(c) : \E j \in DOMAIN c.variants : p = part(j)
    BY <2>1 DEF PartsOf
  <2> HIDE DEF P
  <2>6. IsList(PiecesOf(c))
    BY <2>4, ListOf
  <2> HIDE DEF part
  <2> QED
    BY <2>3, <2>5, <2>6
<1> QED
  BY <1>2, <1>3

-----------------------------------------------------------------------------
\* Cuts.

LEMMA GreatestExists ==
    ASSUME NEW n \in Nat, NEW S \in SUBSET (0..n), S # {}
    PROVE  \E m \in S : \A k \in S : k <= m
<1> DEFINE T == {n - k : k \in S}
<1>1. T \subseteq Nat /\ T # {}
  <2>1. \A k \in S : k \in Nat /\ k <= n
    OBVIOUS
  <2>2. \A k \in S : n - k \in Nat
    BY <2>1
  <2> QED
    BY <2>2
<1>2. IsWellFoundedOn(OpToRel(<, Nat), Nat)
  BY NatLessThanWellFounded
<1>3. PICK d \in T : \A e \in T : ~(<<e, d>> \in OpToRel(<, Nat))
  <2> HIDE DEF T
  <2> QED
    BY <1>1, <1>2, WFMin
<1>4. \A e \in T : ~(e < d)
  <2> HIDE DEF T
  <2> QED
    BY <1>1, <1>3 DEF OpToRel
<1>5. PICK m \in S : d = n - m
  OBVIOUS
<1>6. \A k \in S : k <= m
  <2> TAKE k \in S
  <2>1. ~(n - k < n - m)
    BY <1>4, <1>5
  <2> QED
    BY <2>1
<1> QED
  BY <1>6

\* The halving of a preview finds the beginning of a rune.
LEMMA HalfIsCut ==
    ASSUME NEW t, t \in [bytes : Nat, starts : SUBSET Nat], IsText(t), t.bytes > 0
    PROVE  Half(t) \in t.starts
<1> DEFINE h == t.bytes \div 2
           S == {k \in t.starts : k <= h}
<1>1. h \in Nat /\ h < t.bytes /\ 0 \in t.starts
  BY DEF IsText
<1>2. S \in SUBSET (0..h) /\ S # {}
  BY <1>1
<1>3. PICK m \in S : \A k \in S : k <= m
  <2> HIDE DEF S, h
  <2> QED
    BY <1>1, <1>2, GreatestExists
<1>4. m \in 0..t.bytes /\ IsCut(t, t.bytes \div 2, m)
  BY <1>1, <1>2, <1>3 DEF IsCut
<1>5. IsCut(t, t.bytes \div 2, Half(t))
  BY <1>4 DEF Half
<1> QED
  BY <1>1, <1>5 DEF IsCut

\* A prefix of a prefix is a prefix.
LEMMA PrefixOfPrefix ==
    ASSUME NEW t, t \in [bytes : Nat, starts : SUBSET Nat],
           NEW n \in t.starts, NEW e \in Prefix(t, n).starts
    PROVE  e \in t.starts /\ Prefix(Prefix(t, n), e) = Prefix(t, e)
<1>1. e < n /\ e \in t.starts /\ n \in Nat /\ e \in Nat
  BY DEF Prefix
<1>2. {k \in {j \in t.starts : j < n} : k < e} = {k \in t.starts : k < e}
  BY <1>1
<1> QED
  BY <1>1, <1>2 DEF Prefix

LEMMA CutFacts ==
    ASSUME NEW p, IsCandidate(p), NEW q, IsCutOf(q, p)
    PROVE  /\ IsCandidate(q) /\ q.id = p.id
           /\ q.preview.bytes = 0 => q = Bare(p)
           /\ q.preview.bytes > 0 =>
                IsCutOf([q EXCEPT !.preview = Prefix(@, Half(@)), !.complete = FALSE], p)
<1> DEFINE T == [bytes : Nat, starts : SUBSET Nat]
           V == Seq(Actions)
           R == [id : {p.id}, preview : T, complete : BOOLEAN, variants : V]
<1>0. p \in R /\ IsText(p.preview) /\ p.preview \in T
  BY DEF IsCandidate
<1> HIDE DEF V
<1>1. \A n \in p.preview.starts :
         /\ n \in Nat /\ n < p.preview.bytes
         /\ Prefix(p.preview, n) \in T /\ IsText(Prefix(p.preview, n))
         /\ Prefix(p.preview, n).bytes = n
         /\ n = 0 => Prefix(p.preview, n) = Empty
  <2> TAKE n \in p.preview.starts
  <2>1. n \in Nat /\ n < p.preview.bytes /\ 0 \in p.preview.starts
    BY <1>0 DEF IsText
  <2>2. \A k \in p.preview.starts : k \in Nat
    BY <1>0
  <2> QED
    BY <2>1, <2>2 DEF Prefix, IsText, Empty
<1> HIDE DEF T
<1>2. CASE q = p
  <2>1. q.preview.bytes = 0 => q.preview = Empty
    <3>1. p.preview.bytes = 0 => p.preview.starts = {}
      BY <1>0 DEF IsText
    <3>2. p.preview = [bytes |-> p.preview.bytes, starts |-> p.preview.starts]
      BY <1>0 DEF T
    <3> QED
      BY <1>2, <3>1, <3>2 DEF Empty
  <2>2. q.preview.bytes = 0 => q = Bare(p)
    BY <1>0, <1>2, <2>1 DEF Bare
  <2>3. q.preview.bytes > 0 => Half(q.preview) \in q.preview.starts
    BY <1>0, <1>2, HalfIsCut DEF T
  <2>4. [q EXCEPT !.preview = Prefix(@, Half(@)), !.complete = FALSE]
          = [p EXCEPT !.preview = Prefix(p.preview, Half(p.preview)), !.complete = FALSE]
    BY <1>0, <1>2
  <2> QED
    BY <1>2, <2>2, <2>3, <2>4 DEF IsCutOf
<1>3. ASSUME NEW n \in p.preview.starts,
             q = [p EXCEPT !.preview = Prefix(p.preview, n), !.complete = FALSE]
      PROVE  /\ IsCandidate(q) /\ q.id = p.id
             /\ q.preview.bytes = 0 => q = Bare(p)
             /\ q.preview.bytes > 0 =>
                  IsCutOf([q EXCEPT !.preview = Prefix(@, Half(@)), !.complete = FALSE], p)
  <2>1. q \in R /\ q.id = p.id /\ q.preview = Prefix(p.preview, n) /\ q.complete = FALSE
    BY <1>0, <1>1, <1>3
  <2>2. IsCandidate(q)
    BY <1>1, <2>1 DEF IsCandidate, T, V
  <2>3. q.preview.bytes = n
    BY <1>1, <2>1
  <2>4. n = 0 => q = Bare(p)
    <3>1. p.preview.bytes # 0
      BY <1>0, <1>1 DEF T
    <3> QED
      BY <1>0, <1>1, <1>3, <3>1 DEF Bare
  <2>5. ASSUME n > 0
        PROVE  IsCutOf([q EXCEPT !.preview = Prefix(@, Half(@)), !.complete = FALSE], p)
    <3> DEFINE e == Half(q.preview)
    <3>1. e \in q.preview.starts
      BY <1>1, <2>1, <2>3, <2>5, HalfIsCut DEF T
    <3> HIDE DEF e
    <3>2. e \in p.preview.starts /\ Prefix(q.preview, e) = Prefix(p.preview, e)
      BY <1>0, <2>1, <3>1, PrefixOfPrefix DEF T
    <3>3. [q EXCEPT !.preview = Prefix(@, Half(@)), !.complete = FALSE]
            = [q EXCEPT !.preview = Prefix(p.preview, e), !.complete = FALSE]
      BY <2>1, <3>2 DEF e
    <3>4. [q EXCEPT !.preview = Prefix(p.preview, e), !.complete = FALSE]
            = [p EXCEPT !.preview = Prefix(p.preview, e), !.complete = FALSE]
      BY <1>0, <1>3
    <3> QED
      BY <3>2, <3>3, <3>4 DEF IsCutOf
  <2>6. n \in Nat
    BY <1>1
  <2> QED
    BY <2>1, <2>2, <2>3, <2>4, <2>5, <2>6
<1> QED
  BY <1>2, <1>3 DEF IsCutOf

LEMMA CutShows ==
    ASSUME NEW c, NEW p \in PartsOf(c), IsCandidate(c), NEW q, IsCutOf(q, p)
    PROVE  Shows(q, c)
<1>1. IsCandidate(p) /\ p.id = c.id /\ p.preview = c.preview /\ p.complete = c.complete
  BY PartFacts
<1>2. CASE q = p
  BY <1>1, <1>2 DEF Shows
<1>3. ASSUME NEW n \in p.preview.starts,
             q = [p EXCEPT !.preview = Prefix(p.preview, n), !.complete = FALSE]
      PROVE  Shows(q, c)
  <2>1. q.preview = Prefix(p.preview, n) /\ q.complete = FALSE /\ q.id = p.id
    BY <1>1, <1>3 DEF IsCandidate
  <2>2. q.preview.bytes = n
    BY <2>1 DEF Prefix
  <2> QED
    BY <1>1, <2>1, <2>2 DEF Shows
<1> QED
  BY <1>2, <1>3 DEF IsCutOf

-----------------------------------------------------------------------------
\* The invariant is inductive.

LEMMA ChosenFacts ==
    ASSUME NEW from \in Nat \ {0}, NEW to \in Nat, eval \in Evaluations, to <= N
    PROVE  /\ IsList(Chosen(from, to))
           /\ \A c \in Members(Chosen(from, to)) : \E k \in 1..N : c = eval.candidates[k]
           /\ from = to => Chosen(from, to) = <<eval.candidates[from]>>
<1> DEFINE S == Members(eval.candidates)
<1>1. eval.candidates \in Seq(S) /\ N \in Nat /\ N = Len(eval.candidates)
      /\ DOMAIN eval.candidates = 1..N
  BY CandidateFacts DEF IsList, Members, N
<1>2. \A i \in from..to : eval.candidates[i] \in S
  BY <1>1 DEF Members
<1>3. \A c \in S : \E k \in 1..N : c = eval.candidates[k]
  BY <1>1 DEF Members
<1> HIDE DEF S
<1>4. /\ Chosen(from, to) \in Seq(S)
      /\ Len(Chosen(from, to)) = IF from <= to THEN to - from + 1 ELSE 0
      /\ \A i \in 1..(to - from + 1) : Chosen(from, to)[i] = eval.candidates[from + i - 1]
  BY <1>2, SubSeqProperties DEF Chosen
<1>5. \A c \in Members(Chosen(from, to)) : c \in S
  BY <1>4 DEF Members
<1>6. from = to => Chosen(from, to) = <<eval.candidates[from]>>
  <2> SUFFICES ASSUME from = to PROVE Chosen(from, to) = <<eval.candidates[from]>>
    OBVIOUS
  <2>1. eval.candidates[from] \in S
    BY <1>2
  <2>2. Len(Chosen(from, to)) = 1 /\ Chosen(from, to)[1] = eval.candidates[from]
    BY <1>4
  <2>3. <<eval.candidates[from]>> \in Seq(S) /\ Len(<<eval.candidates[from]>>) = 1
    BY <2>1
  <2> QED
    BY <1>4, <2>2, <2>3, SeqEqual
<1> QED
  BY <1>3, <1>4, <1>5, <1>6, ListOf

LEMMA PlanStarts == Init => PlanInv
<1> SUFFICES ASSUME Init PROVE PlanInv
  OBVIOUS
<1> USE DEF Init
<1>1. N \in Nat
  BY CandidateFacts
<1>2. ShapeInv
  BY <1>1, NoneListed DEF ShapeInv
<1>3. RequestInv /\ PieceInv
  BY DEF RequestInv, PieceInv
<1>4. LimitInv /\ RefusedForCause
  BY NoneListed, EvaluationsAssumption DEF LimitInv, RefusedForCause
<1> QED
  BY <1>2, <1>3, <1>4 DEF PlanInv

\* What a step that leaves the input and the context alone leaves of the notions.
LEMMA SameInput ==
    ASSUME UNCHANGED <<input, context>>
    PROVE  /\ N' = N /\ eval' = eval /\ keep' = keep /\ flaky' = flaky /\ context' = context
           /\ \A n, cs : Body(n, cs)' = Body(n, cs)
           /\ \A b : Genuine(b)' <=> Genuine(b)
           /\ \A c : PartsOf(c)' = PartsOf(c)
           /\ \A c : PiecesOf(c)' = PiecesOf(c)
           /\ \A i, j : Chosen(i, j)' = Chosen(i, j)
BY DEF input, N, Body, Asks, Wire, Genuine, Fits, Members, PartsOf, PiecesOf, Chosen, Pair,
       Losses

LEMMA StillGenuine ==
    ASSUME RequestInv, UNCHANGED <<input, context>>
    PROVE  /\ batches' = batches => (\A i \in DOMAIN batches : Genuine(batches[i]))'
           /\ split' = split => (\A i \in DOMAIN split : Genuine(split[i]))'
<1> USE DEF RequestInv, Genuine, Body, Asks, Wire, Fits, Members, Shows, Pair, Losses, input, N
<1>1. ASSUME batches' = batches PROVE (\A i \in DOMAIN batches : Genuine(batches[i]))'
  BY <1>1
<1>2. ASSUME split' = split PROVE (\A i \in DOMAIN split : Genuine(split[i]))'
  BY <1>2
<1> HIDE DEF Genuine
<1> QED
  BY <1>1, <1>2

LEMMA ContextKeeps ==
    ASSUME PlanInv, ShortenContext \/ ContextDone \/ ContextUncounted
    PROVE  PlanInv'
<1>1. /\ UNCHANGED <<input, Packing>> /\ pc = "context"
      /\ pc' \in {"context", "batches"} \/ (pc' = "failed" /\ flaky)
  BY DEF ShortenContext, ContextDone, ContextUncounted
<1>2. batches = <<>> /\ split = <<>> /\ pieces = <<>> /\ start = 1 /\ end = 1 /\ N' = N
  BY <1>1 DEF PlanInv, ShapeInv, input, N
<1>3. ShapeInv'
  BY <1>1, <1>2 DEF PlanInv, ShapeInv, input, Packing
<1>4. RequestInv' /\ PieceInv'
  BY <1>1, <1>2 DEF RequestInv, PieceInv, Packing
<1>5. LimitInv'
  BY <1>1, <1>2, NoneListed, EvaluationsAssumption DEF LimitInv, Packing
<1>6. RefusedForCause'
  BY <1>1 DEF RefusedForCause, input
<1> QED
  BY <1>3, <1>4, <1>5, <1>6 DEF PlanInv

LEMMA ExtendKeeps == ASSUME PlanInv, Extend PROVE PlanInv'
<1> USE DEF PlanInv
<1>0. /\ pc = "batches" /\ pc' = pc /\ end <= N /\ Fits(Longer)
      /\ accepted' = Longer /\ end' = end + 1
      /\ UNCHANGED <<start, pieces, split, batches>>
      /\ eval \in Evaluations /\ N \in Nat /\ start \in 1..(N + 1) /\ end \in start..(N + 1)
  BY CandidateFacts DEF Extend, Accepts, ShapeInv
<1>1. UNCHANGED <<input, context>>
  BY DEF Extend
<1>2. ShapeInv'
  BY <1>0, <1>1 DEF ShapeInv, input, N
<1>3. (\E cs \in {Chosen(start, end - 1)} : accepted = Body(context, cs))' /\ Fits(accepted)'
  <2>1. (end + 1) - 1 = end
    BY <1>0
  <2>2. PICK cs : cs = Chosen(start, end)
    OBVIOUS
  <2>3. accepted' = Body(context, cs) /\ Fits(accepted')
    BY <1>0, <2>2 DEF Longer
  <2>4. Body(context, cs)' = Body(context, cs)
    BY <1>1 DEF input, Body, Asks, Wire, Pair, Losses
  <2>5. Chosen(start, end - 1)' = cs
    BY <1>0, <1>1, <2>1, <2>2 DEF input, Chosen
  <2> QED
    BY <2>3, <2>4, <2>5 DEF Fits
<1>4. RequestInv'
  <2>1. (\A i \in DOMAIN batches : Genuine(batches[i]))'
    BY <1>0, <1>1, StillGenuine
  <2>2. (\A i \in DOMAIN split : Genuine(split[i]))'
    BY <1>0, <1>1, StillGenuine
  <2> QED
    BY <1>3, <2>1, <2>2 DEF RequestInv
<1>5. PieceInv' /\ LimitInv' /\ RefusedForCause'
  BY <1>0 DEF PieceInv, LimitInv, RefusedForCause
<1> QED
  BY <1>2, <1>4, <1>5

\* New requests are appended, and compared with the limit.
LEMMA AddKeeps ==
    ASSUME PlanInv, NEW more, NEW upTo \in 1..(N + 1), Add(more, upTo),
           IsList(more), \A i \in DOMAIN more : Genuine(more[i]),
           split' = <<>>, pieces' = <<>>
    PROVE  PlanInv'
<1> USE DEF PlanInv
<1>0. /\ batches' = batches \o more
      /\ pc' = IF Len(batches') > MaxBatches THEN "failed" ELSE "batches"
      /\ start' = upTo /\ end' = upTo
  BY DEF Add
<1>1. UNCHANGED <<input, context>>
  BY DEF Add
<1>2. N \in Nat /\ IsList(batches)
  BY CandidateFacts DEF ShapeInv
<1>3. IsList(batches')
  BY <1>0, <1>2, Joined
<1>4. ShapeInv'
  BY <1>0, <1>1, <1>2, <1>3, NoneListed DEF ShapeInv, input, N
<1>5. \A i \in DOMAIN batches' : Genuine(batches'[i])
  BY <1>0, <1>2, JoinedMembers DEF RequestInv
<1>6. RequestInv'
  <2>1. (\A i \in DOMAIN batches : Genuine(batches[i]))'
    BY <1>1, <1>5 DEF Genuine, Body, Asks, Wire, Fits, Members, Shows, Pair, Losses, input, N
  <2> QED
    BY <1>0, <1>2, <2>1 DEF RequestInv
<1>7. PieceInv' /\ LimitInv' /\ RefusedForCause'
  BY <1>0 DEF PieceInv, LimitInv, RefusedForCause
<1> QED
  BY <1>4, <1>6, <1>7

LEMMA CloseBatchKeeps == ASSUME PlanInv, CloseBatch PROVE PlanInv'
<1> USE DEF PlanInv
<1>0. /\ pc = "batches" /\ end > start
      /\ Add(<<[body |-> accepted, candidates |-> Chosen(start, end - 1)]>>, end)
      /\ UNCHANGED <<pieces, split>>
  BY DEF CloseBatch
<1> DEFINE b == [body |-> accepted, candidates |-> Chosen(start, end - 1)]
<1>1. /\ eval \in Evaluations /\ N \in Nat /\ start \in 1..(N + 1) /\ end \in start..(N + 1)
      /\ split = <<>> /\ pieces = <<>>
  BY <1>0, CandidateFacts DEF ShapeInv
<1>2. Genuine(b)
  <2>1. start \in Nat \ {0} /\ end - 1 \in Nat /\ end - 1 <= N
    BY <1>0, <1>1
  <2>2. \A c \in Members(Chosen(start, end - 1)) : \E k \in 1..N : c = eval.candidates[k]
    BY <1>1, <2>1, ChosenFacts
  <2>3. accepted = Body(context, Chosen(start, end - 1)) /\ Fits(accepted)
    BY <1>0 DEF RequestInv
  <2> QED
    BY <2>2, <2>3 DEF Genuine, Shows
<1> HIDE DEF b
<1>3. IsList(<<b>>) /\ \A i \in DOMAIN <<b>> : Genuine(<<b>>[i])
  BY <1>2, Single
<1>4. end \in 1..(N + 1) /\ Add(<<b>>, end) /\ split' = <<>> /\ pieces' = <<>>
  BY <1>0, <1>1 DEF b
<1> QED
  BY <1>3, <1>4, AddKeeps

LEMMA SplitCandidateKeeps == ASSUME PlanInv, SplitCandidate PROVE PlanInv'
<1> USE DEF PlanInv
<1> DEFINE c == eval.candidates[start]
<1>0. /\ pc = "batches" /\ start <= N /\ end = start /\ NoLonger
      /\ pieces' = PiecesOf(c)
      /\ pc' = IF pieces' = <<>> THEN "failed" ELSE "split"
      /\ UNCHANGED <<start, end, accepted, split, batches>>
  BY DEF SplitCandidate
<1>1. UNCHANGED <<input, context>>
  BY DEF SplitCandidate
<1>2. eval \in Evaluations /\ N \in Nat /\ start \in 1..N
  BY <1>0, CandidateFacts DEF ShapeInv
<1>3. IsCandidate(c) /\ IsList(PiecesOf(c))
  BY <1>2, CandidateFacts, PartFacts
<1>4. ShapeInv'
  BY <1>0, <1>1, <1>3 DEF ShapeInv, input, N
<1>5. RequestInv'
  <2>1. (\A i \in DOMAIN batches : Genuine(batches[i]))'
    BY <1>0, <1>1, StillGenuine
  <2>2. (\A i \in DOMAIN split : Genuine(split[i]))'
    BY <1>0, <1>1, StillGenuine
  <2>3. end' = start' /\ start' \in Nat
    BY <1>0, <1>2
  <2> QED
    BY <2>1, <2>2, <2>3 DEF RequestInv
<1>6. PieceInv'
  <2>1. \A j \in DOMAIN pieces' : pieces'[j] \in PartsOf(c)
    BY <1>0 DEF PartsOf
  <2>2. PartsOf(eval.candidates[start])' = PartsOf(c)
    BY <1>0, <1>1 DEF input, PartsOf, PiecesOf
  <2>3. \A j \in DOMAIN pieces' : IsCutOf(pieces'[j], pieces'[j])
    BY DEF IsCutOf
  <2> QED
    BY <2>1, <2>2, <2>3 DEF PieceInv, IsCutOf
<1>7. LimitInv'
  BY <1>0 DEF LimitInv
<1>8. RefusedForCause'
  <2> SUFFICES ASSUME pc' = "failed", ~flaky PROVE RefusedForCause'
    BY <1>1 DEF RefusedForCause, input
  <2>0. eval' = eval /\ keep' = keep /\ context' = context /\ start' = start
    BY <1>0, <1>1 DEF input
  <2>1. PiecesOf(c) = <<>>
    BY <1>0
  <2>2. ~Fits(Longer) /\ Longer = Body(context, <<c>>)
    <3>1. Chosen(start, start) = <<c>>
      BY <1>2, ChosenFacts
    <3> QED
      BY <1>0, <3>1 DEF NoLonger, Refuses, Longer
  <2>3. PiecesOf(eval.candidates[start])' = PiecesOf(c)
    BY <2>0 DEF PiecesOf
  <2>4. Body(context, <<eval.candidates[start]>>)' = Body(context, <<c>>)
    BY <2>0 DEF Body, Asks, Wire, Pair, Losses
  <2> QED
    BY <2>1, <2>2, <2>3, <2>4 DEF RefusedForCause, Fits
<1> QED
  BY <1>4, <1>5, <1>6, <1>7, <1>8

LEMMA FinishKeeps == ASSUME PlanInv, Finish PROVE PlanInv'
<1> USE DEF PlanInv
<1>0. pc = "batches" /\ start > N /\ pc' = "done" /\ UNCHANGED <<input, context, Packing>>
  BY DEF Finish
<1>1. ShapeInv'
  <2>1. start = N + 1
    BY <1>0, CandidateFacts DEF ShapeInv
  <2> QED
    BY <1>0, <2>1 DEF ShapeInv, Packing, input, N
<1>2. RequestInv'
  BY <1>0, SameInput DEF RequestInv, Packing
<1>3. PieceInv' /\ LimitInv' /\ RefusedForCause'
  BY <1>0 DEF PieceInv, LimitInv, RefusedForCause, Packing
<1> QED
  BY <1>1, <1>2, <1>3

\* In the middle of a split there is a candidate, and the parts are cuts of its own.
LEMMA SplitFacts ==
    ASSUME PlanInv, pc = "split"
    PROVE  /\ eval \in Evaluations /\ start \in 1..N /\ N \in Nat /\ end = start
           /\ IsCandidate(eval.candidates[start])
           /\ IsList(pieces) /\ IsList(split) /\ IsList(batches)
           /\ \A j \in DOMAIN pieces : \E p \in PartsOf(eval.candidates[start]) :
                 IsCandidate(p) /\ IsCutOf(pieces[j], p)
<1>1. eval \in Evaluations /\ start \in 1..N /\ N \in Nat /\ end = start
  BY CandidateFacts DEF PlanInv, ShapeInv
<1>2. IsCandidate(eval.candidates[start])
  BY <1>1, CandidateFacts
<1> QED
  BY <1>1, <1>2, PartFacts DEF PlanInv, ShapeInv, PieceInv

LEMMA PlacePartKeeps == ASSUME PlanInv, PlacePart PROVE PlanInv'
<1> USE DEF PlanInv
<1> DEFINE b == [body |-> Part, candidates |-> <<Head(pieces)>>]
<1>0. /\ pc = "split" /\ pieces # <<>> /\ Fits(Part)
      /\ split' = Append(split, b) /\ pieces' = Tail(pieces)
      /\ UNCHANGED <<pc, start, end, accepted, batches>>
  BY DEF PlacePart, Accepts
<1>1. UNCHANGED <<input, context>>
  BY DEF PlacePart
<1>2. IsList(pieces) /\ IsList(split) /\ N \in Nat /\ end = start /\ start \in 1..N
  BY <1>0, SplitFacts
<1>3. /\ IsList(Tail(pieces)) /\ Head(pieces) = pieces[1] /\ 1 \in DOMAIN pieces
      /\ \A j \in DOMAIN Tail(pieces) : Tail(pieces)[j] = pieces[j + 1] /\ j + 1 \in DOMAIN pieces
  BY <1>0, <1>2, Rest, ListShape
<1>4. Genuine(b)
  <2>1. PICK p \in PartsOf(eval.candidates[start]) : IsCutOf(Head(pieces), p)
    BY <1>0, <1>3 DEF PieceInv
  <2>2. Shows(Head(pieces), eval.candidates[start])
    BY <1>0, <2>1, SplitFacts, CutShows
  <2>3. Members(<<Head(pieces)>>) = {Head(pieces)}
    BY Single DEF Members
  <2> QED
    BY <1>0, <1>2, <2>2, <2>3 DEF Genuine, Part
<1> HIDE DEF b
<1>5. split' = split \o <<b>> /\ IsList(split')
  BY <1>0, <1>2, Appended, Single, Joined
<1>6. ShapeInv'
  BY <1>0, <1>1, <1>3, <1>5 DEF ShapeInv, input, N
<1>7. RequestInv'
  <2>1. \A i \in DOMAIN split' : Genuine(split'[i])
    BY <1>2, <1>4, <1>5, Single, JoinedMembers DEF RequestInv
  <2>2. (\A i \in DOMAIN split : Genuine(split[i]))'
    BY <1>1, <2>1 DEF Genuine, Body, Asks, Wire, Fits, Members, Shows, Pair, Losses, input, N
  <2>3. (\A i \in DOMAIN batches : Genuine(batches[i]))'
    BY <1>0, <1>1, StillGenuine
  <2> QED
    BY <1>0, <1>2, <2>2, <2>3 DEF RequestInv
<1>8. PieceInv'
  <2>1. \A j \in DOMAIN pieces' : \E p \in PartsOf(eval.candidates[start]) : IsCutOf(pieces'[j], p)
    BY <1>0, <1>3 DEF PieceInv
  <2>2. PartsOf(eval.candidates[start])' = PartsOf(eval.candidates[start])
    BY <1>0, <1>1 DEF PartsOf, PiecesOf, input
  <2> QED
    BY <2>1, <2>2 DEF PieceInv
<1>9. LimitInv' /\ RefusedForCause'
  BY <1>0 DEF LimitInv, RefusedForCause
<1> QED
  BY <1>6, <1>7, <1>8, <1>9

LEMMA HalvePreviewKeeps == ASSUME PlanInv, HalvePreview PROVE PlanInv'
<1> USE DEF PlanInv
<1> DEFINE h(q) == [q EXCEPT !.preview = Prefix(@, Half(@)), !.complete = FALSE]
<1>0. /\ pc = "split" /\ pieces # <<>> /\ Head(pieces).preview.bytes > 0
      /\ pieces' = [pieces EXCEPT ![1].preview = Prefix(@, Half(@)), ![1].complete = FALSE]
      /\ UNCHANGED <<pc, start, end, accepted, split, batches>>
  BY DEF HalvePreview
<1>1. UNCHANGED <<input, context>>
  BY DEF HalvePreview
<1>2. IsList(pieces) /\ N \in Nat /\ end = start /\ start \in 1..N
  BY <1>0, SplitFacts
<1>3. /\ Head(pieces) = pieces[1] /\ 1 \in DOMAIN pieces /\ DOMAIN pieces = 1..Len(pieces)
      /\ Len(pieces) \in Nat /\ pieces = [j \in 1..Len(pieces) |-> pieces[j]]
  BY <1>0, <1>2, Rest, ListShape
<1>4. pieces' = [j \in 1..Len(pieces) |-> IF j = 1 THEN h(pieces[1]) ELSE pieces[j]]
  BY <1>0, <1>3
<1> HIDE DEF h
<1>5. IsList(pieces')
  <2> DEFINE S == Members(pieces) \cup {h(pieces[1])}
  <2>1. \A j \in 1..Len(pieces) : (IF j = 1 THEN h(pieces[1]) ELSE pieces[j]) \in S
    BY <1>3 DEF Members
  <2> HIDE DEF S
  <2>2. pieces' \in Seq(S)
    BY <1>3, <1>4, <2>1
  <2> QED
    BY <2>2, ListOf
<1>6. ShapeInv'
  BY <1>0, <1>1, <1>5 DEF ShapeInv, input, N
<1>7. RequestInv'
  BY <1>0, <1>1, <1>2, StillGenuine DEF RequestInv
<1>8. PieceInv'
  <2>1. ASSUME NEW j \in DOMAIN pieces'
        PROVE  \E p \in PartsOf(eval.candidates[start]) : IsCutOf(pieces'[j], p)
    <3>1. j \in DOMAIN pieces /\ pieces'[j] = IF j = 1 THEN h(pieces[1]) ELSE pieces[j]
      BY <1>3, <1>4
    <3>2. PICK p \in PartsOf(eval.candidates[start]) : IsCandidate(p) /\ IsCutOf(pieces[j], p)
      BY <1>0, <3>1, SplitFacts
    <3>3. CASE j = 1
      <4>1. pieces[j].preview.bytes > 0
        BY <1>0, <1>3, <3>3
      <4>2. IsCutOf(h(pieces[j]), p)
        BY <3>2, <4>1, CutFacts DEF h
      <4> QED
        BY <3>1, <3>3, <4>2
    <3>4. CASE j # 1
      BY <3>1, <3>2, <3>4
    <3> QED
      BY <3>3, <3>4
  <2>2. PartsOf(eval.candidates[start])' = PartsOf(eval.candidates[start])
    BY <1>0, <1>1 DEF PartsOf, PiecesOf, input
  <2> QED
    BY <2>1, <2>2 DEF PieceInv
<1>9. LimitInv' /\ RefusedForCause'
  BY <1>0 DEF LimitInv, RefusedForCause
<1> QED
  BY <1>6, <1>7, <1>8, <1>9

LEMMA GiveUpKeeps == ASSUME PlanInv, GiveUp PROVE PlanInv'
<1> USE DEF PlanInv
<1> DEFINE c == eval.candidates[start]
<1>0. /\ pc = "split" /\ pieces # <<>> /\ Refuses(Part) /\ Head(pieces).preview.bytes = 0
      /\ pc' = "failed" /\ UNCHANGED <<input, context, Packing>>
  BY DEF GiveUp
<1>1. ShapeInv'
  BY <1>0 DEF ShapeInv, input, Packing, N
<1>2. RequestInv'
  BY <1>0, SplitFacts, StillGenuine DEF RequestInv, Packing
<1>3. PieceInv' /\ LimitInv'
  BY <1>0 DEF PieceInv, LimitInv
<1>4. RefusedForCause'
  <2> SUFFICES ASSUME ~flaky PROVE RefusedForCause'
    BY <1>0 DEF RefusedForCause, input
  <2>0. eval' = eval /\ keep' = keep /\ context' = context /\ start' = start
    BY <1>0 DEF input, Packing
  <2>1. Head(pieces) = pieces[1] /\ 1 \in DOMAIN pieces
    BY <1>0, SplitFacts, Rest, ListShape
  <2>2. PICK p \in PartsOf(c) : IsCandidate(p) /\ IsCutOf(pieces[1], p)
    BY <1>0, <2>1, SplitFacts
  <2>3. Head(pieces) = Bare(p)
    BY <1>0, <2>1, <2>2, CutFacts
  <2>4. ~Fits(Body(context, <<Bare(p)>>))
    BY <1>0, <2>3 DEF Refuses, Part
  <2>5. PartsOf(eval.candidates[start])' = PartsOf(c)
    BY <2>0 DEF PartsOf, PiecesOf
  <2>6. Body(context, <<Bare(p)>>)' = Body(context, <<Bare(p)>>)
    BY <2>0 DEF Body, Asks, Wire, Pair, Losses
  <2>7. (\E q \in PartsOf(eval.candidates[start]) : ~Fits(Body(context, <<Bare(q)>>)))'
    BY <2>2, <2>4, <2>5, <2>6 DEF Fits, Bare
  <2> QED
    BY <2>7 DEF RefusedForCause, PartsOf
<1> QED
  BY <1>1, <1>2, <1>3, <1>4

LEMMA PartsDoneKeeps == ASSUME PlanInv, PartsDone PROVE PlanInv'
<1>0. /\ pc = "split" /\ pieces = <<>> /\ Add(split, start + 1)
      /\ split' = <<>> /\ pieces' = <<>>
  BY DEF PartsDone
<1>1. start + 1 \in 1..(N + 1) /\ IsList(split)
  BY <1>0, SplitFacts
<1>2. \A i \in DOMAIN split : Genuine(split[i])
  BY DEF PlanInv, RequestInv
<1> QED
  BY <1>0, <1>1, <1>2, AddKeeps

LEMMA PlanStays == ASSUME PlanInv, UNCHANGED vars PROVE PlanInv'
<1> USE DEF PlanInv, vars
<1>1. ShapeInv' /\ LimitInv'
  BY DEF ShapeInv, LimitInv, N
<1>2. RequestInv'
  <2>1. UNCHANGED <<input, context, batches, split>>
    BY DEF input
  <2>2. PICK cs : cs = Chosen(start, end - 1)
    OBVIOUS
  <2>3. Body(context, cs)' = Body(context, cs) /\ Chosen(start, end - 1)' = cs
    BY <2>2 DEF Body, Asks, Wire, Pair, Losses, Chosen
  <2>4. (end > start => /\ \E x \in {Chosen(start, end - 1)} : accepted = Body(context, x)
                       /\ Fits(accepted))'
    BY <2>2, <2>3 DEF RequestInv, Fits
  <2> QED
    BY <2>1, <2>4, StillGenuine DEF RequestInv
<1>3. PieceInv'
  <2>1. PartsOf(eval.candidates[start])' = PartsOf(eval.candidates[start])
    BY DEF PartsOf, PiecesOf
  <2> QED
    BY <2>1 DEF PieceInv
<1>4. RefusedForCause'
  <2>1. PiecesOf(eval.candidates[start])' = PiecesOf(eval.candidates[start])
    BY DEF PiecesOf
  <2>2. \A cs : Body(context, cs)' = Body(context, cs)
    BY DEF Body, Asks, Wire, Pair, Losses
  <2> QED
    BY <2>1, <2>2 DEF RefusedForCause, Fits, Bare
<1> QED
  BY <1>1, <1>2, <1>3, <1>4

\* The invariant of planning is inductive.
LEMMA PlanSteps == PlanInv /\ [Next]_vars => PlanInv'
<1> SUFFICES ASSUME PlanInv, [Next]_vars PROVE PlanInv'
  OBVIOUS
<1>1. CASE ShortenContext \/ ContextDone \/ ContextUncounted
  BY <1>1, ContextKeeps
<1>2. CASE Batches
  BY <1>2, ExtendKeeps, CloseBatchKeeps, SplitCandidateKeeps, FinishKeeps DEF Batches
<1>3. CASE Split
  BY <1>3, PlacePartKeeps, HalvePreviewKeeps, GiveUpKeeps, PartsDoneKeeps DEF Split
<1>4. CASE UNCHANGED vars
  BY <1>4, PlanStays
<1> QED
  BY <1>1, <1>2, <1>3, <1>4 DEF Next

\* The steps of the whole call plan, or leave the plan alone.
LEMMA CallPlans == [NextScoring]_allVars => [Next]_vars
BY DEF NextScoring, Planning, CanceledBefore, ReturnError, PlanFailed, PlanStep, StartWorkers,
       PassStep, CallerCancels, allVars

LEMMA PlanHolds == (Spec => []PlanInv) /\ (FairScoring => []PlanInv)
<1>1. InitScoring => Init
  BY DEF InitScoring
<1> QED
  BY <1>1, PlanStarts, PlanSteps, CallPlans, PTL DEF Spec, FairScoring

-----------------------------------------------------------------------------
\* A key belongs to one question.
LEMMA KeysDiffer ==
    ASSUME NEW cs, NEW q \in Looks(cs), NEW l \in Looks(cs), q.key = l.key
    PROVE  q = l
<1> DEFINE Ask(i) == IF ~keep /\ cs[i].variants # <<>> THEN Losses(cs[i], i)
                     ELSE IF keep THEN Pair(cs[i], i, "call", "result")
                     ELSE Pair(cs[i], i, "relevance", "detail")
<1>1. PICK i \in DOMAIN cs : q \in Ask(i)
  BY DEF Looks
<1>2. PICK k \in DOMAIN cs : l \in Ask(k)
  BY DEF Looks
<1>3. ASSUME NEW x, NEW n, x \in Ask(n)
      PROVE  x.key[2] = n
  BY <1>3 DEF Pair, Losses, LossKey
<1>4. i = k
  BY <1>1, <1>2, <1>3
<1>5. CASE ~keep /\ cs[i].variants # <<>>
  <2>1. PICK j \in DOMAIN cs[i].variants :
          q = [key |-> <<"l", i, j>>, about |-> <<cs[i].id, cs[i].variants[j]>>]
    BY <1>1, <1>5 DEF Losses, LossKey
  <2>2. PICK m \in DOMAIN cs[i].variants :
          l = [key |-> <<"l", i, m>>, about |-> <<cs[i].id, cs[i].variants[m]>>]
    BY <1>2, <1>4, <1>5 DEF Losses, LossKey
  <2>3. j = m
    BY <2>1, <2>2
  <2> QED
    BY <2>1, <2>2, <2>3
<1>6. CASE keep \/ cs[i].variants = <<>>
  <2>1. PICK r, d : q \in Pair(cs[i], i, r, d) /\ l \in Pair(cs[i], i, r, d)
    BY <1>1, <1>2, <1>4, <1>6
  <2> QED
    BY <2>1 DEF Pair
<1> QED
  BY <1>5, <1>6

LEMMA AsksAreLooks == ASSUME NEW cs PROVE Asks(cs) = Looks(cs)
BY DEF Asks, Looks

(***************************************************************************)
(* For every evaluation, every encoding and all limits, the answers of a   *)
(* request are looked up under the keys under which the questions about    *)
(* its candidates were asked (client.go:228-250, 275-290, 319-352).        *)
(***************************************************************************)
THEOREM AnswersAreRouted == (Spec => []Routed) /\ (FairScoring => []Routed)
<1>1. PlanInv => Routed
  <2> SUFFICES ASSUME PlanInv, NEW i \in DOMAIN batches
               PROVE  /\ batches[i].body = Body(context, batches[i].candidates)
                      /\ \A l \in Looks(batches[i].candidates) :
                            {q \in batches[i].body.asks : q.key = l.key} = {l}
    BY DEF Routed
  <2> DEFINE cs == batches[i].candidates
  <2>1. batches[i].body = Body(context, cs)
    BY DEF PlanInv, RequestInv, Genuine
  <2>2. batches[i].body.asks = Looks(cs)
    BY <2>1, AsksAreLooks DEF Body
  <2> HIDE DEF cs
  <2>3. \A l \in Looks(cs) : {q \in Looks(cs) : q.key = l.key} = {l}
    BY KeysDiffer
  <2> QED
    BY <2>1, <2>2, <2>3 DEF cs
<1> QED
  BY <1>1, PlanHolds, PTL

(***************************************************************************)
(* No request that is sent exceeds a limit, and no more are sent than      *)
(* configured (client.go:246-254, 418-423).                                *)
(***************************************************************************)
THEOREM LimitsAreKept == (Spec => []WithinLimits) /\ (FairScoring => []WithinLimits)
<1>1. PlanInv => WithinLimits
  <2> SUFFICES ASSUME PlanInv PROVE WithinLimits
    OBVIOUS
  <2>1. Len(batches) \in Nat /\ MaxBatches \in Nat
    BY ListShape, EvaluationsAssumption DEF PlanInv, ShapeInv
  <2> QED
    BY <2>1 DEF PlanInv, RequestInv, Genuine, LimitInv, WithinLimits
<1> QED
  BY <1>1, PlanHolds, PTL

(***************************************************************************)
(* What the scorer is shown of a text is the text or declared to be a part *)
(* of it that ends with a whole rune (client.go:366-367,                   *)
(* docs/scoring-v0.3.md).                                                  *)
(***************************************************************************)
THEOREM EvidenceIsHonest == (Spec => []EvidenceHonest) /\ (FairScoring => []EvidenceHonest)
<1>1. PlanInv => EvidenceHonest
  BY DEF PlanInv, RequestInv, Genuine, Members, Shows, EvidenceHonest
<1> QED
  BY <1>1, PlanHolds, PTL

(***************************************************************************)
(* Planning fails only for a token counter that failed, for too many       *)
(* requests, for a replacement or a candidate scored for retention that    *)
(* exceeds the limits even without a preview, or for a candidate without   *)
(* replacements that exceeds them as it is: it is never shortened          *)
(* (client.go:143-165, 375-380, 388-390, 404-409).                         *)
(***************************************************************************)
THEOREM RefusalsHaveCause == (Spec => []RefusedForCause) /\ (FairScoring => []RefusedForCause)
<1>1. PlanInv => RefusedForCause
  BY DEF PlanInv
<1> QED
  BY <1>1, PlanHolds, PTL

-----------------------------------------------------------------------------
\* What is asked for: every score once, in order.

Paid(bs) == Flat([i \in DOMAIN bs |-> NeedsOf(bs[i].candidates)])

Sound(b) == IsList(b.candidates) /\ \A c \in Members(b.candidates) : IsCandidate(c)

\* What the candidates so far need is what the requests so far ask for.
Balance ==
    /\ \A i \in DOMAIN batches : Sound(batches[i])
    /\ \A i \in DOMAIN split : Sound(split[i])
    /\ pc # "failed" => \E cs \in {Chosen(1, start - 1)}, bs \in {batches} : NeedsOf(cs) = Paid(bs)
    /\ pc = "split" => \E c \in {eval.candidates[start]}, bs \in {split}, ps \in {pieces} :
                          Paid(bs) \o NeedsOf(ps) = Needs(c)

LEMMA PairListed == ASSUME NEW x, NEW y PROVE IsList(<<x, y>>)
<1>1. <<x, y>> \in Seq({x, y})
  OBVIOUS
<1> QED
  BY <1>1, ListOf

LEMMA NeedsListed == ASSUME NEW c, IsCandidate(c) PROVE IsList(Needs(c))
<1>1. IsList(Wanted(c))
  <2> DEFINE V == Seq(Actions)
             S == {<<c.id, a>> : a \in Actions}
  <2>1. c.variants \in V
    BY DEF IsCandidate
  <2>2. /\ DOMAIN c.variants = 1..Len(c.variants) /\ Len(c.variants) \in Nat
        /\ \A j \in DOMAIN c.variants : c.variants[j] \in Actions
    BY <2>1
  <2>3. \A j \in 1..Len(c.variants) : <<c.id, c.variants[j]>> \in S
    BY <2>2
  <2> HIDE DEF S
  <2>4. Wanted(c) \in Seq(S)
    BY <2>2, <2>3 DEF Wanted
  <2> QED
    BY <2>4, ListOf
<1> QED
  BY <1>1, PairListed DEF Needs

\* The needs of a list of candidates, one by one.
Each(cs) == [i \in DOMAIN cs |-> Needs(cs[i])]
Charges(bs) == [i \in DOMAIN bs |-> NeedsOf(bs[i].candidates)]

LEMMA EachListed ==
    ASSUME NEW cs, IsList(cs), \A c \in Members(cs) : IsCandidate(c)
    PROVE  Listed(Each(cs)) /\ Len(Each(cs)) = Len(cs) /\ IsList(NeedsOf(cs))
<1>1. Len(cs) \in Nat /\ DOMAIN cs = 1..Len(cs)
  BY ListShape
<1> DEFINE S == {Needs(cs[i]) : i \in DOMAIN cs}
<1>2. \A i \in 1..Len(cs) : Needs(cs[i]) \in S
  BY <1>1
<1>3. \A i \in 1..Len(cs) : IsList(Needs(cs[i]))
  BY <1>1, NeedsListed DEF Members
<1> HIDE DEF S
<1>4. Each(cs) \in Seq(S) /\ Len(Each(cs)) = Len(cs)
  BY <1>1, <1>2 DEF Each
<1>5. IsList(Each(cs))
  BY <1>4, ListOf
<1>6. Listed(Each(cs))
  BY <1>1, <1>3, <1>5 DEF Listed, Each
<1> QED
  BY <1>4, <1>6, FlatFacts DEF NeedsOf, Each

LEMMA ChargesListed ==
    ASSUME NEW bs, IsList(bs), \A i \in DOMAIN bs : Sound(bs[i])
    PROVE  Listed(Charges(bs)) /\ Len(Charges(bs)) = Len(bs) /\ IsList(Paid(bs))
<1>1. Len(bs) \in Nat /\ DOMAIN bs = 1..Len(bs)
  BY ListShape
<1> DEFINE S == {NeedsOf(bs[i].candidates) : i \in DOMAIN bs}
<1>2. \A i \in 1..Len(bs) : NeedsOf(bs[i].candidates) \in S
  BY <1>1
<1>3. \A i \in 1..Len(bs) : IsList(NeedsOf(bs[i].candidates))
  BY <1>1, EachListed DEF Sound
<1> HIDE DEF S
<1>4. Charges(bs) \in Seq(S) /\ Len(Charges(bs)) = Len(bs)
  BY <1>1, <1>2 DEF Charges
<1>5. IsList(Charges(bs))
  BY <1>4, ListOf
<1>6. Listed(Charges(bs))
  BY <1>1, <1>3, <1>5 DEF Listed, Charges
<1> QED
  BY <1>4, <1>6, FlatFacts DEF Paid, Charges

\* Two lists are equal if their members are.
LEMMA SameList ==
    ASSUME NEW s, NEW t, IsList(s), IsList(t), Len(s) = Len(t),
           \A i \in 1..Len(s) : s[i] = t[i]
    PROVE  s = t
BY ListShape

LEMMA NeedsJoined ==
    ASSUME NEW cs, IsList(cs), \A c \in Members(cs) : IsCandidate(c),
           NEW ds, IsList(ds), \A c \in Members(ds) : IsCandidate(c)
    PROVE  NeedsOf(cs \o ds) = NeedsOf(cs) \o NeedsOf(ds)
<1>1. Listed(Each(cs)) /\ Listed(Each(ds)) /\ Len(Each(cs)) = Len(cs) /\ Len(Each(ds)) = Len(ds)
  BY EachListed
<1>2. IsList(cs \o ds) /\ \A c \in Members(cs \o ds) : IsCandidate(c)
  BY Joined, MembersJoined
<1>3. IsList(Each(cs \o ds)) /\ Len(Each(cs \o ds)) = Len(cs) + Len(ds)
  BY <1>2, EachListed, Joined DEF Listed
<1>4. IsList(Each(cs) \o Each(ds)) /\ Len(Each(cs) \o Each(ds)) = Len(cs) + Len(ds)
  BY <1>1, Joined DEF Listed
<1>5. ASSUME NEW i \in 1..(Len(cs) + Len(ds))
      PROVE  Each(cs \o ds)[i] = (Each(cs) \o Each(ds))[i]
  <2>0. /\ Len(cs) \in Nat /\ DOMAIN cs = 1..Len(cs) /\ Len(ds) \in Nat /\ DOMAIN ds = 1..Len(ds)
        /\ DOMAIN (cs \o ds) = 1..(Len(cs) + Len(ds))
    BY <1>2, ListShape, Joined
  <2>1. Each(cs \o ds)[i] = Needs((cs \o ds)[i])
    BY <2>0 DEF Each
  <2>2. CASE i <= Len(cs)
    <3>1. i \in 1..Len(cs)
      BY <2>0, <2>2
    <3>2. (cs \o ds)[i] = cs[i] /\ (Each(cs) \o Each(ds))[i] = Each(cs)[i]
      BY <1>1, <3>1, Joined DEF Listed
    <3> QED
      BY <2>0, <2>1, <3>1, <3>2 DEF Each
  <2>3. CASE i > Len(cs)
    <3>1. i - Len(cs) \in 1..Len(ds)
      BY <2>0, <2>3
    <3>2. (cs \o ds)[i] = ds[i - Len(cs)]
      BY <2>3, Joined
    <3>3. (Each(cs) \o Each(ds))[i] = Each(ds)[i - Len(cs)]
      BY <1>1, <2>3, Joined DEF Listed
    <3> QED
      BY <2>0, <2>1, <3>1, <3>2, <3>3 DEF Each
  <2>4. i <= Len(cs) \/ i > Len(cs)
    BY <2>0
  <2> QED
    BY <2>2, <2>3, <2>4
<1>6. Each(cs \o ds) = Each(cs) \o Each(ds)
  BY <1>3, <1>4, <1>5, SameList
<1> QED
  BY <1>1, <1>6, FlatJoined DEF NeedsOf, Each

LEMMA PaidJoined ==
    ASSUME NEW bs, IsList(bs), \A i \in DOMAIN bs : Sound(bs[i]),
           NEW ds, IsList(ds), \A i \in DOMAIN ds : Sound(ds[i])
    PROVE  Paid(bs \o ds) = Paid(bs) \o Paid(ds)
<1>1. /\ Listed(Charges(bs)) /\ Listed(Charges(ds))
      /\ Len(Charges(bs)) = Len(bs) /\ Len(Charges(ds)) = Len(ds)
  BY ChargesListed
<1>2. IsList(bs \o ds) /\ \A i \in DOMAIN (bs \o ds) : Sound((bs \o ds)[i])
  BY Joined, JoinedMembers
<1>3. IsList(Charges(bs \o ds)) /\ Len(Charges(bs \o ds)) = Len(bs) + Len(ds)
  BY <1>2, ChargesListed, Joined DEF Listed
<1>4. IsList(Charges(bs) \o Charges(ds)) /\ Len(Charges(bs) \o Charges(ds)) = Len(bs) + Len(ds)
  BY <1>1, Joined DEF Listed
<1>5. ASSUME NEW i \in 1..(Len(bs) + Len(ds))
      PROVE  Charges(bs \o ds)[i] = (Charges(bs) \o Charges(ds))[i]
  <2>0. /\ Len(bs) \in Nat /\ DOMAIN bs = 1..Len(bs) /\ Len(ds) \in Nat /\ DOMAIN ds = 1..Len(ds)
        /\ DOMAIN (bs \o ds) = 1..(Len(bs) + Len(ds))
    BY <1>2, ListShape, Joined
  <2>1. Charges(bs \o ds)[i] = NeedsOf((bs \o ds)[i].candidates)
    BY <2>0 DEF Charges
  <2>2. CASE i <= Len(bs)
    <3>1. i \in 1..Len(bs)
      BY <2>0, <2>2
    <3>2. (bs \o ds)[i] = bs[i] /\ (Charges(bs) \o Charges(ds))[i] = Charges(bs)[i]
      BY <1>1, <3>1, Joined DEF Listed
    <3> QED
      BY <2>0, <2>1, <3>1, <3>2 DEF Charges
  <2>3. CASE i > Len(bs)
    <3>1. i - Len(bs) \in 1..Len(ds)
      BY <2>0, <2>3
    <3>2. (bs \o ds)[i] = ds[i - Len(bs)]
      BY <2>3, Joined
    <3>3. (Charges(bs) \o Charges(ds))[i] = Charges(ds)[i - Len(bs)]
      BY <1>1, <2>3, Joined DEF Listed
    <3> QED
      BY <2>0, <2>1, <3>1, <3>2, <3>3 DEF Charges
  <2>4. i <= Len(bs) \/ i > Len(bs)
    BY <2>0
  <2> QED
    BY <2>2, <2>3, <2>4
<1>6. Charges(bs \o ds) = Charges(bs) \o Charges(ds)
  BY <1>3, <1>4, <1>5, SameList
<1> QED
  BY <1>1, <1>6, FlatJoined DEF Paid, Charges

LEMMA NeedsSingle == ASSUME NEW c, IsCandidate(c) PROVE NeedsOf(<<c>>) = Needs(c)
<1>1. Each(<<c>>) = <<Needs(c)>>
  <2>1. DOMAIN <<c>> = 1..1 /\ <<c>>[1] = c
    BY Single
  <2> QED
    BY <2>1 DEF Each
<1>2. Flat(<<Needs(c)>>) = Needs(c)
  BY NeedsListed, FlatSingle
<1> QED
  BY <1>1, <1>2 DEF NeedsOf, Each

LEMMA PaidSingle == ASSUME NEW b, Sound(b) PROVE Paid(<<b>>) = NeedsOf(b.candidates)
<1>1. Charges(<<b>>) = <<NeedsOf(b.candidates)>>
  <2>1. DOMAIN <<b>> = 1..1 /\ <<b>>[1] = b
    BY Single
  <2> QED
    BY <2>1 DEF Charges
<1>2. Flat(<<NeedsOf(b.candidates)>>) = NeedsOf(b.candidates)
  BY EachListed, FlatSingle DEF Sound
<1> QED
  BY <1>1, <1>2 DEF Paid, Charges

LEMMA NothingNeeded == NeedsOf(<<>>) = <<>> /\ Paid(<<>>) = <<>>
<1>1. Each(<<>>) = <<>> /\ Charges(<<>>) = <<>>
  BY DEF Each, Charges
<1> QED
  BY <1>1, FlatEmpty DEF NeedsOf, Paid, Each, Charges

\* The parts of a candidate need what the candidate needs.
LEMMA PartsNeed ==
    ASSUME NEW c, IsCandidate(c), PiecesOf(c) # <<>>
    PROVE  NeedsOf(PiecesOf(c)) = Needs(c)
<1>1. CASE keep
  BY <1>1, NeedsSingle DEF PiecesOf
<1>2. CASE ~keep
  <2> DEFINE V == Seq(Actions)
             part(j) == [c EXCEPT !.variants = <<@[j]>>]
  <2>1. c.variants \in V /\ c = [c EXCEPT !.variants = c.variants]
    BY DEF IsCandidate
  <2>2. DOMAIN c.variants = 1..Len(c.variants) /\ Len(c.variants) \in Nat
    BY <2>1
  <2>3. PiecesOf(c) = [j \in DOMAIN c.variants |-> part(j)]
    BY <1>2 DEF PiecesOf
  <2>4. c.variants # <<>>
    <3> SUFFICES ASSUME c.variants = <<>> PROVE FALSE
      OBVIOUS
    <3>1. Len(c.variants) = 0
      OBVIOUS
    <3>2. PiecesOf(c) = [j \in 1..0 |-> part(j)]
      BY <2>2, <2>3, <3>1
    <3> HIDE DEF part
    <3>3. Len(PiecesOf(c)) = 0 /\ IsList(PiecesOf(c))
      BY <2>2, <2>3, <3>1, PartFacts, ListShape
    <3> QED
      BY <3>3, Rest
  <2>5. ASSUME NEW j \in 1..Len(c.variants)
        PROVE  Needs(part(j)) = <<Wanted(c)[j]>>
    <3>1. part(j).id = c.id /\ part(j).variants = <<c.variants[j]>>
      BY DEF IsCandidate
    <3> HIDE DEF part
    <3>2. part(j).variants # <<>>
      BY <3>1
    <3>3. DOMAIN part(j).variants = 1..1 /\ part(j).variants[1] = c.variants[j]
      BY <3>1, Single
    <3>4. Wanted(part(j)) = [i \in 1..1 |-> <<c.id, c.variants[j]>>]
      BY <3>1, <3>3 DEF Wanted
    <3>5. Wanted(c)[j] = <<c.id, c.variants[j]>>
      BY <2>2 DEF Wanted
    <3> QED
      BY <1>2, <3>2, <3>4, <3>5 DEF Needs
  <2>6. Needs(c) = Wanted(c) /\ IsList(Wanted(c)) /\ Len(Wanted(c)) = Len(c.variants)
    <3>1. Needs(c) = Wanted(c)
      BY <1>2, <2>4 DEF Needs
    <3>2. DOMAIN Wanted(c) = 1..Len(c.variants)
      BY <2>2 DEF Wanted
    <3> QED
      BY <2>2, <3>1, <3>2, NeedsListed, ListShape
  <2>7. IsList(PiecesOf(c)) /\ Len(PiecesOf(c)) = Len(c.variants)
    <3> HIDE DEF part
    <3>1. DOMAIN PiecesOf(c) = 1..Len(c.variants)
      BY <2>2, <2>3
    <3> QED
      BY <2>2, <3>1, PartFacts, ListShape
  <2>8. \A p \in Members(PiecesOf(c)) : IsCandidate(p)
    BY PartFacts DEF Members, PartsOf
  <2>9. Listed(Each(PiecesOf(c))) /\ Len(Each(PiecesOf(c))) = Len(c.variants)
    BY <2>7, <2>8, EachListed
  <2>10. \A j \in 1..Len(c.variants) : Each(PiecesOf(c))[j] = <<Wanted(c)[j]>>
    <3> HIDE DEF part
    <3> QED
      BY <2>2, <2>3, <2>5 DEF Each
  <2>11. Flat(Each(PiecesOf(c))) = Wanted(c)
    BY <2>6, <2>9, <2>10, FlatSingles DEF Listed
  <2> QED
    BY <2>6, <2>11 DEF NeedsOf, Each
<1> QED
  BY <1>1, <1>2

LEMMA ChosenJoined ==
    ASSUME eval \in Evaluations, NEW k \in 1..(N + 1), NEW n \in k..(N + 1)
    PROVE  /\ Chosen(1, n - 1) = Chosen(1, k - 1) \o Chosen(k, n - 1)
           /\ IsList(Chosen(1, k - 1)) /\ IsList(Chosen(k, n - 1))
           /\ \A c \in Members(Chosen(1, k - 1)) : IsCandidate(c)
           /\ \A c \in Members(Chosen(k, n - 1)) : IsCandidate(c)
<1>0. N \in Nat /\ IsList(eval.candidates) /\ \A i \in 1..N : IsCandidate(eval.candidates[i])
  BY CandidateFacts
<1> DEFINE S == Members(eval.candidates)
<1>1. eval.candidates \in Seq(S) /\ Len(eval.candidates) = N
  BY <1>0 DEF IsList, Members, N
<1> HIDE DEF S
<1>2. /\ k - 1 \in 0..N /\ n - 1 \in (k - 1)..N /\ (k - 1) + 1 = k /\ 1 - 1 = 0
      /\ k \in Nat \ {0} /\ k - 1 \in Nat /\ n - 1 \in Nat /\ k - 1 <= N /\ n - 1 <= N
      /\ 1 \in 1..(N + 1) /\ k - 1 \in (1 - 1)..N
  BY <1>0
<1>3. SubSeq(eval.candidates, 1, k - 1) \o SubSeq(eval.candidates, (k - 1) + 1, n - 1)
        = SubSeq(eval.candidates, 1, n - 1)
  BY <1>1, <1>2, ConcatAdjacentSubSeq
<1>4. Chosen(1, n - 1) = Chosen(1, k - 1) \o Chosen(k, n - 1)
  BY <1>2, <1>3 DEF Chosen
<1>5. /\ IsList(Chosen(1, k - 1)) /\ IsList(Chosen(k, n - 1))
      /\ \A c \in Members(Chosen(1, k - 1)) : \E i \in 1..N : c = eval.candidates[i]
      /\ \A c \in Members(Chosen(k, n - 1)) : \E i \in 1..N : c = eval.candidates[i]
  <2>1. 1 \in Nat \ {0}
    OBVIOUS
  <2> QED
    BY <1>2, <2>1, ChosenFacts
<1> QED
  BY <1>0, <1>4, <1>5

LEMMA BalanceAfter ==
    ASSUME eval' = eval, keep' = keep,
           \A i \in DOMAIN batches' : Sound(batches'[i]),
           \A i \in DOMAIN split' : Sound(split'[i]),
           pc' # "failed" => NeedsOf(Chosen(1, start' - 1)) = Paid(batches'),
           pc' = "split" => Paid(split') \o NeedsOf(pieces') = Needs(eval.candidates[start'])
    PROVE  Balance'
<1>1. \A cs : NeedsOf(cs)' = NeedsOf(cs)
  BY DEF NeedsOf, Needs, Wanted
<1>2. \A bs : Paid(bs)' = Paid(bs)
  <2> TAKE bs
  <2>1. \A i \in DOMAIN bs : NeedsOf(bs[i].candidates)' = NeedsOf(bs[i].candidates)
    BY <1>1
  <2>2. [i \in DOMAIN bs |-> NeedsOf(bs[i].candidates)]' = [i \in DOMAIN bs |-> NeedsOf(bs[i].candidates)]
    BY <2>1
  <2> QED
    BY <2>2 DEF Paid
<1>3. \A c : Needs(c)' = Needs(c)
  BY DEF Needs, Wanted
<1>4. Chosen(1, start - 1)' = Chosen(1, start' - 1)
  BY DEF Chosen
<1> QED
  BY <1>1, <1>2, <1>3, <1>4 DEF Balance

LEMMA BalanceStarts == Init => Balance
<1> SUFFICES ASSUME Init PROVE Balance
  OBVIOUS
<1>1. Chosen(1, 0) = <<>>
  BY SubSeqEmpty DEF Chosen
<1> QED
  BY <1>1, NothingNeeded DEF Init, Balance

LEMMA CloseBatchBalances == ASSUME PlanInv, Balance, CloseBatch PROVE Balance'
<1> DEFINE cs == Chosen(start, end - 1)
           b == [body |-> accepted, candidates |-> cs]
<1>0. /\ pc = "batches" /\ Add(<<b>>, end) /\ UNCHANGED <<pieces, split>>
      /\ eval \in Evaluations /\ start \in 1..(N + 1) /\ end \in start..(N + 1)
      /\ IsList(batches)
  BY DEF CloseBatch, PlanInv, ShapeInv
<1>1. /\ batches' = batches \o <<b>> /\ start' = end /\ pc' # "split"
      /\ eval' = eval /\ keep' = keep
  BY <1>0 DEF Add, input
<1>2. /\ Chosen(1, end - 1) = Chosen(1, start - 1) \o cs
      /\ IsList(Chosen(1, start - 1)) /\ IsList(cs)
      /\ \A c \in Members(Chosen(1, start - 1)) : IsCandidate(c)
      /\ \A c \in Members(cs) : IsCandidate(c)
  BY <1>0, ChosenJoined
<1>3. NeedsOf(Chosen(1, end - 1)) = NeedsOf(Chosen(1, start - 1)) \o NeedsOf(cs)
  BY <1>2, NeedsJoined
<1>4. Sound(b) /\ b.candidates = cs
  BY <1>2 DEF Sound
<1> HIDE DEF b, cs
<1>5. IsList(<<b>>) /\ \A i \in DOMAIN <<b>> : Sound(<<b>>[i])
  BY <1>4, Single
<1>6. /\ \A i \in DOMAIN batches : Sound(batches[i])
      /\ \A i \in DOMAIN split : Sound(split[i])
      /\ NeedsOf(Chosen(1, start - 1)) = Paid(batches)
  BY <1>0 DEF Balance
<1>7. Paid(batches \o <<b>>) = Paid(batches) \o NeedsOf(cs)
  <2>1. Paid(batches \o <<b>>) = Paid(batches) \o Paid(<<b>>)
    BY <1>0, <1>5, <1>6, PaidJoined, SMTT(30)
  <2>2. Paid(<<b>>) = NeedsOf(cs)
    BY <1>4, PaidSingle DEF b
  <2> QED
    BY <2>1, <2>2
<1>8. \A i \in DOMAIN (batches \o <<b>>) : Sound((batches \o <<b>>)[i])
  BY <1>0, <1>5, <1>6, JoinedMembers
<1> QED
  BY <1>0, <1>1, <1>3, <1>6, <1>7, <1>8, BalanceAfter

LEMMA SplitCandidateBalances == ASSUME PlanInv, Balance, SplitCandidate PROVE Balance'
<1> DEFINE c == eval.candidates[start]
<1>0. /\ pc = "batches" /\ start <= N /\ pieces' = PiecesOf(c)
      /\ pc' = IF pieces' = <<>> THEN "failed" ELSE "split"
      /\ UNCHANGED <<start, split, batches>> /\ eval' = eval /\ keep' = keep
      /\ split = <<>> /\ eval \in Evaluations /\ start \in 1..(N + 1)
  BY DEF SplitCandidate, input, PlanInv, ShapeInv
<1>1. IsCandidate(c)
  BY <1>0, CandidateFacts
<1>2. pc' = "split" => NeedsOf(pieces') = Needs(c)
  BY <1>0, <1>1, PartsNeed
<1>3. Paid(split') = <<>> /\ <<>> \o Needs(c) = Needs(c)
  BY <1>0, <1>1, NothingNeeded, NeedsListed, ConcatEmptySeq DEF IsList
<1>4. pc' = "split" => Paid(split') \o NeedsOf(pieces') = Needs(eval.candidates[start'])
  BY <1>0, <1>2, <1>3
<1> HIDE DEF c
<1> QED
  BY <1>0, <1>4, BalanceAfter DEF Balance

\* The parts still to be placed are candidates.
LEMMA PieceFacts ==
    ASSUME PlanInv, pc = "split"
    PROVE  IsList(pieces) /\ \A p \in Members(pieces) : IsCandidate(p)
BY SplitFacts, CutFacts DEF Members

LEMMA PlacePartBalances == ASSUME PlanInv, Balance, PlacePart PROVE Balance'
<1> DEFINE h == Head(pieces)
           t == Tail(pieces)
           b == [body |-> Part, candidates |-> <<h>>]
<1>0. /\ pc = "split" /\ pieces # <<>> /\ pc' = pc
      /\ split' = Append(split, b) /\ pieces' = t
      /\ UNCHANGED <<start, batches>> /\ eval' = eval /\ keep' = keep
  BY DEF PlacePart, input
<1>1. IsList(pieces) /\ IsList(split) /\ \A p \in Members(pieces) : IsCandidate(p)
  BY <1>0, PieceFacts, SplitFacts
<1>2. /\ IsList(t) /\ h = pieces[1] /\ Len(pieces) \in Nat /\ Len(pieces) > 0
      /\ Len(t) = Len(pieces) - 1 /\ DOMAIN pieces = 1..Len(pieces)
      /\ \A j \in 1..(Len(pieces) - 1) : t[j] = pieces[j + 1]
  BY <1>0, <1>1, Rest, ListShape
<1> HIDE DEF h, t
<1>3. IsCandidate(h) /\ \A p \in Members(t) : IsCandidate(p)
  <2>1. 1 \in DOMAIN pieces
    BY <1>2
  <2>2. \A j \in DOMAIN t : t[j] = pieces[j + 1] /\ j + 1 \in DOMAIN pieces
    BY <1>2, ListShape
  <2> QED
    BY <1>1, <1>2, <2>1, <2>2 DEF Members
<1>4. IsList(<<h>>) /\ Members(<<h>>) = {h}
  BY Single DEF Members
<1>5. pieces = <<h>> \o t
  <2>1. IsList(<<h>> \o t) /\ Len(<<h>> \o t) = 1 + Len(t) /\ Len(<<h>>) = 1
    BY <1>2, <1>4, Joined, Single
  <2>2. ASSUME NEW i \in 1..Len(pieces) PROVE pieces[i] = (<<h>> \o t)[i]
    <3>1. CASE i = 1
      BY <1>2, <1>4, <2>1, <3>1, Joined, Single
    <3>2. CASE i # 1
      <4>1. i - 1 \in 1..Len(t) /\ (i - 1) + 1 = i /\ 1 + (i - 1) = i
        BY <1>2, <3>2
      <4>2. (<<h>> \o t)[1 + (i - 1)] = t[i - 1]
        BY <1>2, <1>4, <2>1, <4>1, Joined
      <4> QED
        BY <1>2, <4>1, <4>2
    <3> QED
      BY <3>1, <3>2
  <2>3. Len(pieces) = 1 + Len(t)
    BY <1>2
  <2> QED
    BY <1>1, <2>1, <2>2, <2>3, SameList
<1>6. NeedsOf(pieces) = Needs(h) \o NeedsOf(t)
  BY <1>2, <1>3, <1>4, <1>5, NeedsJoined, NeedsSingle
<1>7. Sound(b) /\ b.candidates = <<h>>
  BY <1>3, <1>4 DEF Sound
<1> HIDE DEF b
<1>8. IsList(<<b>>) /\ \A i \in DOMAIN <<b>> : Sound(<<b>>[i])
  BY <1>7, Single
<1>9. /\ \A i \in DOMAIN split : Sound(split[i])
      /\ \A i \in DOMAIN batches : Sound(batches[i])
      /\ NeedsOf(Chosen(1, start - 1)) = Paid(batches)
      /\ Paid(split) \o NeedsOf(pieces) = Needs(eval.candidates[start])
  BY <1>0 DEF Balance
<1>10. split' = split \o <<b>>
  BY <1>0, <1>1, Appended
<1>11. Paid(split') = Paid(split) \o Needs(h)
  <2>1. Paid(split \o <<b>>) = Paid(split) \o Paid(<<b>>)
    BY <1>1, <1>8, <1>9, PaidJoined
  <2>2. Paid(<<b>>) = Needs(h)
    BY <1>3, <1>7, PaidSingle, NeedsSingle
  <2> QED
    BY <1>10, <2>1, <2>2
<1>12. IsList(Paid(split)) /\ IsList(Needs(h)) /\ IsList(NeedsOf(t))
  BY <1>1, <1>2, <1>3, <1>9, ChargesListed, NeedsListed, EachListed
<1>13. Paid(split') \o NeedsOf(t) = Needs(eval.candidates[start])
  <2> DEFINE x == Paid(split)
             y == Needs(h)
             z == NeedsOf(t)
  <2>1. IsList(x) /\ IsList(y) /\ IsList(z)
    BY <1>12
  <2>2. x \o (y \o z) = Needs(eval.candidates[start])
    BY <1>6, <1>9
  <2> HIDE DEF x, y, z
  <2>3. (x \o y) \o z = x \o (y \o z)
    BY <2>1, Associative, Z3
  <2> QED
    BY <1>11, <2>2, <2>3 DEF x, y, z
<1>14. \A i \in DOMAIN split' : Sound(split'[i])
  BY <1>1, <1>8, <1>9, <1>10, JoinedMembers
<1> QED
  BY <1>0, <1>9, <1>13, <1>14, BalanceAfter

LEMMA HalvePreviewBalances == ASSUME PlanInv, Balance, HalvePreview PROVE Balance'
<1>0. /\ pc = "split" /\ pieces # <<>> /\ pc' = pc
      /\ pieces' = [pieces EXCEPT ![1].preview = Prefix(@, Half(@)), ![1].complete = FALSE]
      /\ UNCHANGED <<start, batches, split>> /\ eval' = eval /\ keep' = keep
  BY DEF HalvePreview, input
<1>1. IsList(pieces) /\ \A p \in Members(pieces) : IsCandidate(p)
  BY <1>0, PieceFacts
<1>2. DOMAIN pieces' = DOMAIN pieces
  BY <1>0
<1>3. ASSUME NEW j \in DOMAIN pieces PROVE Needs(pieces'[j]) = Needs(pieces[j])
  <2>1. IsCandidate(pieces[j])
    BY <1>1 DEF Members
  <2>2. pieces'[j].id = pieces[j].id /\ pieces'[j].variants = pieces[j].variants
    BY <1>0, <2>1 DEF IsCandidate
  <2> QED
    BY <2>2 DEF Needs, Wanted
<1>4. Each(pieces') = Each(pieces)
  BY <1>2, <1>3 DEF Each
<1>5. NeedsOf(pieces') = NeedsOf(pieces)
  BY <1>4 DEF NeedsOf, Each
<1> QED
  BY <1>0, <1>5, BalanceAfter DEF Balance

LEMMA PartsDoneBalances == ASSUME PlanInv, Balance, PartsDone PROVE Balance'
<1>0. /\ pc = "split" /\ pieces = <<>> /\ Add(split, start + 1) /\ split' = <<>>
  BY DEF PartsDone
<1>1. /\ batches' = batches \o split /\ start' = start + 1 /\ pc' # "split"
      /\ eval' = eval /\ keep' = keep
  BY <1>0 DEF Add, input
<1>2. /\ eval \in Evaluations /\ start \in 1..N /\ N \in Nat
      /\ IsCandidate(eval.candidates[start]) /\ IsList(split) /\ IsList(batches)
  BY <1>0, SplitFacts
<1>3. /\ \A i \in DOMAIN split : Sound(split[i])
      /\ \A i \in DOMAIN batches : Sound(batches[i])
      /\ NeedsOf(Chosen(1, start - 1)) = Paid(batches)
      /\ Paid(split) \o NeedsOf(pieces) = Needs(eval.candidates[start])
  BY <1>0 DEF Balance
<1>4. Paid(split) = Needs(eval.candidates[start])
  <2>1. NeedsOf(pieces) = <<>>
    BY <1>0, NothingNeeded
  <2>2. Paid(split) \o <<>> = Paid(split)
    BY <1>2, <1>3, ChargesListed, ConcatEmptySeq DEF IsList
  <2> QED
    BY <1>3, <2>1, <2>2
<1>5. /\ Chosen(1, start) = Chosen(1, start - 1) \o <<eval.candidates[start]>>
      /\ IsList(Chosen(1, start - 1)) /\ \A c \in Members(Chosen(1, start - 1)) : IsCandidate(c)
  <2>1. start \in 1..(N + 1) /\ start + 1 \in start..(N + 1) /\ (start + 1) - 1 = start
        /\ start \in Nat \ {0} /\ start \in Nat /\ start <= N
    BY <1>2
  <2>2. Chosen(start, start) = <<eval.candidates[start]>>
    BY <1>2, <2>1, ChosenFacts
  <2>3. /\ Chosen(1, (start + 1) - 1) = Chosen(1, start - 1) \o Chosen(start, (start + 1) - 1)
        /\ IsList(Chosen(1, start - 1)) /\ \A c \in Members(Chosen(1, start - 1)) : IsCandidate(c)
    BY <1>2, <2>1, ChosenJoined
  <2> QED
    BY <2>1, <2>2, <2>3
<1>6. NeedsOf(Chosen(1, start)) = NeedsOf(Chosen(1, start - 1)) \o Needs(eval.candidates[start])
  <2> DEFINE c == eval.candidates[start]
  <2>1. IsList(<<c>>) /\ Members(<<c>>) = {c}
    BY Single DEF Members
  <2> QED
    BY <1>2, <1>5, <2>1, NeedsJoined, NeedsSingle
<1>7. Paid(batches \o split) = Paid(batches) \o Paid(split)
  BY <1>2, <1>3, PaidJoined
<1>8. \A i \in DOMAIN batches' : Sound(batches'[i])
  BY <1>1, <1>2, <1>3, JoinedMembers
<1>9. start' - 1 = start
  BY <1>1, <1>2
<1>10. NeedsOf(Chosen(1, start' - 1)) = Paid(batches')
  BY <1>1, <1>3, <1>4, <1>6, <1>7, <1>9
<1>11. \A i \in DOMAIN split' : Sound(split'[i])
  BY <1>0
<1> QED
  BY <1>1, <1>8, <1>10, <1>11, BalanceAfter

LEMMA BalanceSteps == ASSUME PlanInv, Balance, [Next]_vars PROVE Balance'
<1>1. CASE \/ ShortenContext \/ ContextDone \/ ContextUncounted \/ Extend \/ Finish \/ GiveUp
           \/ UNCHANGED vars
  <2>1. /\ eval' = eval /\ keep' = keep /\ UNCHANGED <<start, pieces, split, batches>>
        /\ pc' # "failed" => pc # "failed"
        /\ pc' = "split" => pc = "split"
    BY <1>1 DEF ShortenContext, ContextDone, ContextUncounted, Extend, Finish, GiveUp, vars, input,
                Packing
  <2> QED
    BY <2>1, BalanceAfter DEF Balance
<1>2. CASE CloseBatch \/ SplitCandidate \/ PlacePart \/ HalvePreview \/ PartsDone
  BY <1>2, CloseBatchBalances, SplitCandidateBalances, PlacePartBalances, HalvePreviewBalances,
     PartsDoneBalances
<1> QED
  BY <1>1, <1>2 DEF Next, Batches, Split

-----------------------------------------------------------------------------
\* The call: the pass runs on a finished plan, and what it proves of any plan holds of this one.

PP == INSTANCE ScoringPass_proofs WITH plan <- Plan, Plans <- {}

AllGone == \A w \in 1..MaxConcurrent : worker[w] = Pass!Gone

CallInv ==
    /\ phase = "planning" =>
          /\ next = 1 /\ worker = [w \in 1..MaxConcurrent |-> Pass!Gone]
          /\ caller \in BOOLEAN /\ done = caller
          /\ once = "free" /\ firstErr = Nil /\ parts = {}
          /\ outcome = Nil /\ scores = Nil
    /\ phase # "planning" =>
          \/ PP!PassInv /\ pc = "done"
          \/ phase = "returned" /\ outcome \in {"interrupted", "unplanned"} /\ AllGone

LEMMA PassAssumption == PP!PlansAssumption
BY ScoringAssumption DEF PP!PlansAssumption

\* The pass that Scoring runs is the one the proofs are about.
LEMMA SameNotions ==
    /\ Pass!Next <=> PP!Next
    /\ Pass!vars = PP!vars
    /\ Pass!Gone = PP!Gone /\ Pass!Idle = PP!Idle
BY DEF Pass!Next, PP!Next, Pass!vars, PP!vars, Pass!Gone, PP!Gone, Pass!Idle, PP!Idle,
       Pass!WorkerStep, PP!WorkerStep, Pass!Dispatcher, PP!Dispatcher,
       Pass!CallerCancels, PP!CallerCancels, Pass!Workers, PP!Workers, Pass!Hand, PP!Hand,
       Pass!Skip, PP!Skip, Pass!Send, PP!Send, Pass!Answered, PP!Answered,
       Pass!BadAnswer, PP!BadAnswer, Pass!Interrupted, PP!Interrupted, Pass!Record, PP!Record,
       Pass!CancelPass, PP!CancelPass, Pass!FailLate, PP!FailLate, Pass!Exit, PP!Exit,
       Pass!AllSent, PP!AllSent, Pass!BreakOff, PP!BreakOff, Pass!Return, PP!Return,
       Pass!Close, PP!Close, Pass!Finish, PP!Finish, Pass!Merged, PP!Merged,
       Pass!Moves, PP!Moves, Pass!Holding, PP!Holding, Pass!shared, PP!shared,
       Pass!Questioned, PP!Questioned, Pass!PartsOf, PP!PartsOf, Pass!Jobs, PP!Jobs

LEMMA PlanLength ==
    ASSUME PlanInv
    PROVE  /\ Len(Plan) \in Nat /\ Len(Plan) = Len(batches) /\ DOMAIN batches = 1..Len(batches)
           /\ \A i \in DOMAIN batches : Plan[i] = Asked(batches[i])
<1>1. IsList(batches)
  BY DEF PlanInv, ShapeInv
<1>2. Len(batches) \in Nat /\ DOMAIN batches = 1..Len(batches)
  BY <1>1, ListShape
<1>3. Len([i \in 1..Len(batches) |-> Asked(batches[i])]) = Len(batches)
  BY <1>2
<1> QED
  BY <1>2, <1>3 DEF Plan

LEMMA StartKeeps == ASSUME PlanInv, CallInv, StartWorkers PROVE CallInv'
<1>0. /\ phase = "planning" /\ pc = "done" /\ pc' = pc /\ phase' = "dispatch"
      /\ worker' = [w \in 1..MaxConcurrent |->
                       IF w \in Pass!Started(Plan) THEN Pass!Idle ELSE Pass!Gone]
      /\ next' = 1 /\ caller' = caller /\ caller \in BOOLEAN /\ done' = caller
      /\ once' = "free" /\ firstErr' = Nil /\ parts' = {} /\ outcome' = Nil /\ scores' = Nil
  BY DEF StartWorkers, CallInv, vars
<1>1. Plan' = Plan
  BY DEF StartWorkers, vars, Plan, Asked, ScoresOf, Needs, Wanted
<1>2. Len(Plan) \in Nat
  BY PlanLength
<1> USE ScoringAssumption
<1>3. \A w \in 1..MaxConcurrent : worker'[w] \in {PP!Idle, PP!Gone}
  BY <1>0, SameNotions
<1>4. \A w \in 1..MaxConcurrent : worker'[w].at \in {"idle", "gone"}
  BY <1>3 DEF PP!Idle, PP!Gone
<1>5. PP!ShapeInv'
  <2> DEFINE Position == [at : PP!Positions, job : PP!Jobs' \cup {0}, why : PP!Failures \cup {Nil}]
  <2>1. PP!Idle \in Position /\ PP!Gone \in Position
    BY DEF PP!Idle, PP!Gone, PP!Positions
  <2>2. worker' \in [1..MaxConcurrent -> Position]
    <3> HIDE DEF Position
    <3> QED
      BY <1>0, <2>1, SameNotions
  <2>3. 1 \in 1..(Len(Plan) + 1) /\ Len(Plan') \in Nat
    BY <1>1, <1>2
  <2> QED
    BY <1>0, <1>1, <1>4, <2>2, <2>3 DEF PP!ShapeInv, PP!Workers, PP!Failures
<1>6. PP!Conservation'
  BY <1>0, <1>1, <1>2 DEF PP!Conservation, PP!Jobs
<1>7. PP!ClosedInv' /\ PP!Causes' /\ PP!ReturnInv'
  BY <1>0, <1>4 DEF PP!ClosedInv, PP!Causes, PP!ReturnInv, PP!Workers
<1> QED
  BY <1>0, <1>5, <1>6, <1>7 DEF CallInv, PP!PassInv

\* A pass that has returned takes no step.
LEMMA ReturnedIsOver ==
    ASSUME phase = "returned", AllGone PROVE ~Pass!Next
BY DEF AllGone, Pass!Next, Pass!WorkerStep, Pass!Hand, Pass!Skip, Pass!Send, Pass!Answered,
       Pass!BadAnswer, Pass!Interrupted, Pass!Record, Pass!CancelPass, Pass!FailLate, Pass!Exit,
       Pass!Moves, Pass!Gone, Pass!Workers, Pass!Dispatcher, Pass!AllSent, Pass!BreakOff,
       Pass!Return, Pass!CallerCancels

LEMMA PassKeeps == ASSUME CallInv, PassStep PROVE CallInv'
<1>0. phase # "planning" /\ UNCHANGED vars /\ Pass!Next
  BY DEF PassStep
<1>1. PP!PassInv /\ pc = "done"
  BY <1>0, ReturnedIsOver DEF CallInv
<1>2. PP!PassInv'
  BY <1>0, <1>1, SameNotions, PassAssumption, PP!PassInductive
<1>3. phase' # "planning"
  BY <1>2 DEF PP!PassInv, PP!ShapeInv
<1> QED
  BY <1>0, <1>1, <1>2, <1>3 DEF CallInv, vars

LEMMA CallSteps == ASSUME PlanInv, CallInv, [NextScoring]_allVars PROVE CallInv'
<1>1. CASE CanceledBefore \/ PlanFailed
  <2>1. /\ phase = "planning" /\ phase' = "returned" /\ outcome' \in {"interrupted", "unplanned"}
        /\ worker' = worker
    BY <1>1 DEF CanceledBefore, PlanFailed, ReturnError
  <2>2. \A w \in 1..MaxConcurrent : worker[w] = Pass!Gone
    BY <2>1 DEF CallInv
  <2>3. AllGone'
    BY <2>1, <2>2 DEF AllGone, Pass!Gone
  <2> QED
    BY <2>1, <2>3 DEF CallInv
<1>2. CASE PlanStep
  BY <1>2 DEF PlanStep, CallInv, passVars, Pass!Gone
<1>3. CASE StartWorkers
  BY <1>3, StartKeeps
<1>4. CASE PassStep
  BY <1>4, PassKeeps
<1>5. CASE CallerCancels
  BY <1>5 DEF CallerCancels, Pass!CallerCancels, CallInv, Pass!Gone
<1>6. CASE UNCHANGED allVars
  <2>1. CASE PP!PassInv
    <3>1. Plan' = Plan
      BY <1>6 DEF allVars, vars, Plan, Asked, ScoresOf, Needs, Wanted
    <3>2. UNCHANGED PP!vars
      BY <1>6, <3>1 DEF allVars, passVars, PP!vars
    <3>3. PP!PassInv'
      BY <2>1, <3>2, PassAssumption, PP!PassInductive
    <3> QED
      BY <1>6, <3>3 DEF allVars, passVars, vars, CallInv, AllGone, Pass!Gone
  <2>2. CASE ~PP!PassInv
    BY <1>6, <2>2 DEF allVars, passVars, vars, CallInv, AllGone, Pass!Gone
  <2> QED
    BY <2>1, <2>2
<1> QED
  BY <1>1, <1>2, <1>3, <1>4, <1>5, <1>6 DEF NextScoring, Planning

LEMMA CallStarts == InitScoring => CallInv
BY DEF InitScoring, CallInv

LEMMA CallHolds == FairScoring => [](PlanInv /\ Balance /\ CallInv)
<1>1. InitScoring => PlanInv /\ Balance /\ CallInv
  BY PlanStarts, BalanceStarts, CallStarts DEF InitScoring
<1>2. PlanInv /\ Balance /\ CallInv /\ [NextScoring]_allVars => (PlanInv /\ Balance /\ CallInv)'
  BY CallPlans, PlanSteps, BalanceSteps, CallSteps
<1> QED
  BY <1>1, <1>2, PTL DEF FairScoring

-----------------------------------------------------------------------------
\* From the balance to the answers.

\* Each need names its candidate, and there is one.
LEMMA NeedShape ==
    ASSUME NEW c, IsCandidate(c)
    PROVE  /\ Members(Needs(c)) = {<<c.id, x>> : x \in ScoresOf(c)}
           /\ ScoresOf(c) # {}
<1> DEFINE V == Seq(Actions)
<1>1. c.variants \in V
  BY DEF IsCandidate
<1>2. DOMAIN c.variants = 1..Len(c.variants) /\ Len(c.variants) \in Nat
      /\ (c.variants # <<>> => Len(c.variants) > 0)
  BY <1>1, EmptySeq
<1>3. /\ \A j \in DOMAIN Needs(c) : Needs(c)[j] = <<c.id, Needs(c)[j][2]>>
      /\ \E j \in DOMAIN Needs(c) : TRUE
  <2>1. ASSUME NEW x, NEW y
        PROVE  /\ \A j \in DOMAIN <<<<c.id, x>>, <<c.id, y>>>> :
                     <<<<c.id, x>>, <<c.id, y>>>>[j] = <<c.id, <<<<c.id, x>>, <<c.id, y>>>>[j][2]>>
               /\ \E j \in DOMAIN <<<<c.id, x>>, <<c.id, y>>>> : TRUE
    <3>1. DOMAIN <<<<c.id, x>>, <<c.id, y>>>> = 1..2 /\ 1 \in 1..2
      OBVIOUS
    <3>2. \A j \in 1..2 : j = 1 \/ j = 2
      OBVIOUS
    <3> QED
      BY <3>1, <3>2
  <2>2. \A j \in DOMAIN Wanted(c) : Wanted(c)[j] = <<c.id, Wanted(c)[j][2]>>
    BY DEF Wanted
  <2>3. c.variants # <<>> => 1 \in DOMAIN Wanted(c)
    BY <1>2 DEF Wanted
  <2> QED
    BY <2>1, <2>2, <2>3 DEF Needs
<1> QED
  BY <1>3 DEF Members, ScoresOf

\* The members of what a list of candidates needs.
LEMMA NeedsMembers ==
    ASSUME NEW cs, IsList(cs), \A c \in Members(cs) : IsCandidate(c), NEW id, NEW x
    PROVE  <<id, x>> \in Members(NeedsOf(cs)) <=>
             \E c \in Members(cs) : c.id = id /\ x \in ScoresOf(c)
<1>1. Members(NeedsOf(cs)) = UNION {Members(Each(cs)[i]) : i \in DOMAIN Each(cs)}
  BY EachListed, FlatFacts DEF NeedsOf, Each
<1>2. DOMAIN Each(cs) = DOMAIN cs /\ \A i \in DOMAIN cs : Each(cs)[i] = Needs(cs[i])
  BY DEF Each
<1>3. \A i \in DOMAIN cs : Members(Needs(cs[i])) = {<<cs[i].id, y>> : y \in ScoresOf(cs[i])}
  BY NeedShape DEF Members
<1>4. \A c, y : <<id, x>> = <<c, y>> <=> id = c /\ x = y
  OBVIOUS
<1>5. \A i \in DOMAIN cs : <<id, x>> \in Members(Needs(cs[i])) <=>
                              cs[i].id = id /\ x \in ScoresOf(cs[i])
  BY <1>3, <1>4
<1>6. <<id, x>> \in Members(NeedsOf(cs)) <=> \E i \in DOMAIN cs : <<id, x>> \in Members(Needs(cs[i]))
  BY <1>1, <1>2
<1> QED
  BY <1>5, <1>6 DEF Members

\* What is asked about in all requests is what all candidates need.
LEMMA AskedIsNeeded ==
    ASSUME PlanInv, Balance, pc = "done", NEW id, NEW x
    PROVE  (\E i \in DOMAIN batches : id \in DOMAIN Asked(batches[i]) /\ x \in Asked(batches[i])[id])
             <=> \E k \in 1..N : eval.candidates[k].id = id /\ x \in ScoresOf(eval.candidates[k])
<1>0. /\ IsList(batches) /\ \A i \in DOMAIN batches : Sound(batches[i])
      /\ eval \in Evaluations /\ start = N + 1
  BY DEF PlanInv, ShapeInv, Balance
<1>1. /\ N \in Nat /\ IsList(eval.candidates) /\ DOMAIN eval.candidates = 1..N
      /\ \A k \in 1..N : IsCandidate(eval.candidates[k])
  BY <1>0, CandidateFacts
<1>2. NeedsOf(eval.candidates) = Paid(batches)
  <2>1. Chosen(1, N) = eval.candidates
    BY <1>1, SubSeqFull DEF Chosen, N, IsList
  <2>2. start - 1 = N
    BY <1>0, <1>1
  <2> QED
    BY <2>1, <2>2 DEF Balance
<1>3. <<id, x>> \in Members(Paid(batches)) <=>
        \E i \in DOMAIN batches : <<id, x>> \in Members(NeedsOf(batches[i].candidates))
  <2>1. Members(Paid(batches)) = UNION {Members(Charges(batches)[i]) : i \in DOMAIN Charges(batches)}
    BY <1>0, ChargesListed, FlatFacts DEF Paid, Charges
  <2>2. /\ DOMAIN Charges(batches) = DOMAIN batches
        /\ \A i \in DOMAIN batches : Charges(batches)[i] = NeedsOf(batches[i].candidates)
    BY DEF Charges
  <2> QED
    BY <2>1, <2>2
<1>4. ASSUME NEW i \in DOMAIN batches
      PROVE  <<id, x>> \in Members(NeedsOf(batches[i].candidates)) <=>
               id \in DOMAIN Asked(batches[i]) /\ x \in Asked(batches[i])[id]
  <2> DEFINE cs == Members(batches[i].candidates)
  <2>1. <<id, x>> \in Members(NeedsOf(batches[i].candidates)) <=>
          \E c \in cs : c.id = id /\ x \in ScoresOf(c)
    BY <1>0, NeedsMembers DEF Sound
  <2>2. Asked(batches[i]) = [y \in {c.id : c \in cs} |-> UNION {ScoresOf(c) : c \in {d \in cs : d.id = y}}]
    BY DEF Asked, Members
  <2> HIDE DEF cs
  <2> QED
    BY <2>1, <2>2
<1>5. <<id, x>> \in Members(NeedsOf(eval.candidates)) <=>
        \E c \in Members(eval.candidates) : c.id = id /\ x \in ScoresOf(c)
  <2>1. \A c \in Members(eval.candidates) : IsCandidate(c)
    BY <1>1 DEF Members
  <2> QED
    BY <1>1, <2>1, NeedsMembers
<1>6. (\E c \in Members(eval.candidates) : c.id = id /\ x \in ScoresOf(c))
        <=> \E k \in 1..N : eval.candidates[k].id = id /\ x \in ScoresOf(eval.candidates[k])
  BY <1>1 DEF Members
<1>7. <<id, x>> \in Members(NeedsOf(eval.candidates)) <=> <<id, x>> \in Members(Paid(batches))
  BY <1>2
<1>8. <<id, x>> \in Members(Paid(batches)) <=>
        \E i \in DOMAIN batches : id \in DOMAIN Asked(batches[i]) /\ x \in Asked(batches[i])[id]
  BY <1>3, <1>4, Zenon
<1> QED
  BY <1>5, <1>6, <1>7, <1>8, Zenon

(***************************************************************************)
(* For every evaluation, every encoding, all limits and any number of      *)
(* workers: a success is complete.  What was packed, shortened, split,     *)
(* answered in any order and merged asks once for every score the          *)
(* candidates need, in their order, and holds just these                   *)
(* (client.go:131-258, 368-415).                                           *)
(***************************************************************************)
THEOREM EverythingIsAnswered == FairScoring => []Answers
<1>1. ASSUME PlanInv, Balance, CallInv, outcome = "scores"
      PROVE  /\ NeedsOf(eval.candidates)
                   = Flat([i \in DOMAIN batches |-> NeedsOf(batches[i].candidates)])
             /\ DOMAIN scores = {eval.candidates[k].id : k \in 1..N}
             /\ \A k \in 1..N : scores[eval.candidates[k].id] = ScoresOf(eval.candidates[k])
  <2>1. PP!PassInv /\ pc = "done"
    BY <1>1, ScoringAssumption DEF CallInv
  <2>2. parts = 1..Len(Plan) /\ scores = PP!Merged
    BY <1>1, <2>1 DEF PP!PassInv, PP!ReturnInv, PP!Jobs
  <2>3. /\ DOMAIN batches = 1..Len(Plan)
        /\ \A i \in DOMAIN batches : Plan[i] = Asked(batches[i])
    BY <1>1, PlanLength
  <2> DEFINE ids == UNION {DOMAIN Asked(batches[i]) : i \in DOMAIN batches}
             about(id) == {i \in DOMAIN batches : id \in DOMAIN Asked(batches[i])}
  <2>4. scores = [id \in ids |-> UNION {Asked(batches[i])[id] : i \in about(id)}]
    <3>1. PP!Questioned = ids
      BY <2>3 DEF PP!Questioned, PP!Jobs
    <3>2. \A id : PP!PartsOf(id) = about(id)
      BY <2>2, <2>3 DEF PP!PartsOf
    <3>3. \A id : UNION {Plan[i][id] : i \in PP!PartsOf(id)} = UNION {Asked(batches[i])[id] : i \in about(id)}
      BY <2>3, <3>2
    <3> HIDE DEF ids, about
    <3> QED
      BY <2>2, <3>1, <3>3 DEF PP!Merged
  <2>5. /\ eval \in Evaluations /\ N \in Nat /\ IsList(eval.candidates) /\ DOMAIN eval.candidates = 1..N
        /\ \A k \in 1..N : IsCandidate(eval.candidates[k])
        /\ \A j, k \in 1..N : eval.candidates[j].id = eval.candidates[k].id => j = k
    <3>1. eval \in Evaluations
      BY <1>1 DEF PlanInv, ShapeInv
    <3> QED
      BY <3>1, CandidateFacts, EvaluationsAssumption
  <2>6. \A id, x : (\E i \in about(id) : x \in Asked(batches[i])[id]) <=>
                    \E k \in 1..N : eval.candidates[k].id = id /\ x \in ScoresOf(eval.candidates[k])
    BY <1>1, <2>1, AskedIsNeeded
  <2>7. ASSUME NEW i \in DOMAIN batches, NEW id \in DOMAIN Asked(batches[i])
        PROVE  \E x : x \in Asked(batches[i])[id]
    <3> DEFINE cs == {batches[i].candidates[k] : k \in DOMAIN batches[i].candidates}
    <3>1. Asked(batches[i]) = [y \in {c.id : c \in cs} |-> UNION {ScoresOf(c) : c \in {d \in cs : d.id = y}}]
      BY DEF Asked
    <3>2. \A c \in cs : ScoresOf(c) # {}
      BY <1>1, NeedShape DEF Balance, Sound, Members
    <3> HIDE DEF cs
    <3>3. PICK c \in cs : c.id = id
      BY <2>7, <3>1
    <3>4. PICK x : x \in ScoresOf(c)
      BY <3>2, <3>3
    <3>5. c \in {d \in cs : d.id = id}
      BY <3>3
    <3>6. id \in {d.id : d \in cs}
      BY <3>3
    <3>7. Asked(batches[i])[id] = UNION {ScoresOf(d) : d \in {e \in cs : e.id = id}}
      BY <3>1, <3>6
    <3> QED
      BY <3>4, <3>5, <3>7
  <2>8. DOMAIN scores = {eval.candidates[k].id : k \in 1..N}
    <3>1. ASSUME NEW id \in ids PROVE \E k \in 1..N : eval.candidates[k].id = id
      <4>1. PICK i \in DOMAIN batches : id \in DOMAIN Asked(batches[i])
        OBVIOUS
      <4>2. PICK x : x \in Asked(batches[i])[id]
        BY <2>7, <4>1
      <4> QED
        BY <2>6, <4>1, <4>2
    <3>2. ASSUME NEW k \in 1..N PROVE eval.candidates[k].id \in ids
      <4>1. PICK x : x \in ScoresOf(eval.candidates[k])
        BY <2>5, NeedShape
      <4>2. PICK i \in about(eval.candidates[k].id) : x \in Asked(batches[i])[eval.candidates[k].id]
        BY <2>6, <4>1
      <4> QED
        BY <4>2
    <3> HIDE DEF ids, about
    <3> QED
      BY <2>4, <3>1, <3>2
  <2>9. ASSUME NEW k \in 1..N PROVE scores[eval.candidates[k].id] = ScoresOf(eval.candidates[k])
    <3> DEFINE id == eval.candidates[k].id
    <3>1. id \in ids
      BY <2>4, <2>8
    <3>2. scores[id] = UNION {Asked(batches[i])[id] : i \in about(id)}
      <4> HIDE DEF ids, about, id
      <4> QED
        BY <2>4, <3>1
    <3>3. \A x : x \in scores[id] <=> \E i \in about(id) : x \in Asked(batches[i])[id]
      <4> HIDE DEF about, id
      <4> QED
        BY <3>2
    <3>4. \A x : x \in scores[id] <=> x \in ScoresOf(eval.candidates[k])
      <4> HIDE DEF about
      <4> QED
        BY <2>5, <2>6, <3>3
    <3> QED
      BY <3>4
  <2>10. NeedsOf(eval.candidates) = Flat([i \in DOMAIN batches |-> NeedsOf(batches[i].candidates)])
    <3>1. start - 1 = N /\ NeedsOf(Chosen(1, start - 1)) = Paid(batches)
      BY <1>1, <2>1, <2>5 DEF PlanInv, ShapeInv, Balance
    <3>2. Chosen(1, N) = eval.candidates
      BY <2>5, SubSeqFull DEF Chosen, N, IsList
    <3> QED
      BY <3>1, <3>2 DEF Paid
  <2> QED
    BY <2>8, <2>9, <2>10
<1>2. PlanInv /\ Balance /\ CallInv => Answers
  BY <1>1 DEF Answers
<1> QED
  BY <1>2, CallHolds, PTL

-----------------------------------------------------------------------------
\* A caller that gives up while the requests are planned.

\* The pass knows it from its start: its workers drop whatever they take.
Withheld ==
    /\ done /\ parts = {} /\ firstErr = Nil
    /\ outcome \in {Nil, "interrupted", "unplanned"}
    /\ DOMAIN worker = 1..MaxConcurrent
    /\ \A w \in 1..MaxConcurrent : worker[w].at \in {"idle", "took", "gone"}

LEMMA WithheldStarts == CallInv /\ phase = "planning" /\ caller => Withheld
BY DEF CallInv, Withheld, Pass!Gone

LEMMA WithheldInPass == ASSUME Withheld, Pass!Next PROVE Withheld'
<1>1. ASSUME NEW w \in 1..MaxConcurrent, Pass!WorkerStep(w) PROVE Withheld'
  <2>1. CASE Pass!Hand(w)
    BY <2>1 DEF Pass!Hand, Pass!Idle, Pass!shared, Withheld
  <2>2. CASE Pass!Skip(w)
    BY <2>2 DEF Pass!Skip, Pass!Moves, Pass!Idle, Pass!shared, Withheld
  <2>3. CASE Pass!Exit(w)
    BY <2>3 DEF Pass!Exit, Pass!Moves, Pass!Gone, Pass!shared, Withheld
  <2>4. ~Pass!Send(w)
    BY DEF Pass!Send, Withheld
  <2>5. /\ ~Pass!Answered(w) /\ ~Pass!BadAnswer(w) /\ ~Pass!Interrupted(w)
        /\ ~Pass!Record(w) /\ ~Pass!CancelPass(w) /\ ~Pass!FailLate(w)
    BY DEF Pass!Answered, Pass!BadAnswer, Pass!Interrupted, Pass!Record, Pass!CancelPass,
           Pass!FailLate, Pass!Moves, Withheld
  <2> QED
    BY <1>1, <2>1, <2>2, <2>3, <2>4, <2>5 DEF Pass!WorkerStep
<1>2. CASE Pass!Dispatcher
  <2>1. CASE Pass!AllSent \/ Pass!BreakOff
    BY <2>1 DEF Pass!AllSent, Pass!BreakOff, Pass!Close, Pass!shared, Withheld
  <2>2. CASE Pass!Return
    BY <2>2 DEF Pass!Return, Pass!Finish, Pass!shared, Withheld
  <2> QED
    BY <1>2, <2>1, <2>2 DEF Pass!Dispatcher
<1>3. CASE Pass!CallerCancels
  BY <1>3 DEF Pass!CallerCancels, Withheld
<1> QED
  BY <1>1, <1>2, <1>3 DEF Pass!Next, Pass!Workers

LEMMA WithheldStays == Withheld /\ [NextScoring]_allVars => Withheld'
<1> SUFFICES ASSUME Withheld, [NextScoring]_allVars PROVE Withheld'
  OBVIOUS
<1>1. CASE CanceledBefore \/ PlanFailed
  BY <1>1 DEF CanceledBefore, PlanFailed, ReturnError, Withheld
<1>2. CASE PlanStep \/ UNCHANGED allVars
  BY <1>2 DEF PlanStep, allVars, passVars, Withheld
<1>3. CASE StartWorkers
  BY <1>3 DEF StartWorkers, Withheld, Pass!Idle, Pass!Gone
<1>4. CASE PassStep
  BY <1>4, WithheldInPass DEF PassStep
<1>5. CASE CallerCancels
  BY <1>5 DEF CallerCancels, Pass!CallerCancels, Withheld
<1> QED
  BY <1>1, <1>2, <1>3, <1>4, <1>5 DEF NextScoring, Planning

(***************************************************************************)
(* Whoever gives up before anything was sent has nothing sent, for any     *)
(* plan and number of workers, and is never told of a success nor of       *)
(* another failure than the planner's (client.go:138-222).                 *)
(***************************************************************************)
THEOREM NothingSentInVain == FairScoring => EarlyCancel
<1>1. Withheld => Unsent
  BY DEF Withheld, Unsent
<1>2. FairScoring => [][NextScoring]_allVars
  BY PTL DEF FairScoring
<1> QED
  BY CallHolds, WithheldStarts, WithheldStays, <1>1, <1>2, PTL DEF EarlyCancel

-----------------------------------------------------------------------------
\* What Engine's AskScorer takes a scorer to be: one step from no reply to a score for
\* everything asked, or to an error and no score.
Scored ==
    /\ DOMAIN scores = {eval.candidates[i].id : i \in 1..N}
    /\ \A i \in 1..N : scores[eval.candidates[i].id] = ScoresOf(eval.candidates[i])
Replied ==
    /\ outcome = Nil /\ scores = Nil
    /\ \/ outcome' = "scores" /\ Scored'
       \/ /\ outcome' \in {"answer", "interrupted", "unplanned"}
          /\ scores' = Nil
          /\ outcome' = "interrupted" => caller

(***************************************************************************)
(* Seen from the engine, the whole of ScoreWithStats is the one step by    *)
(* which Engine models a scorer: it replies once, with everything that was *)
(* asked or with an error and nothing, and speaks of cancellation only     *)
(* when the caller has given up (engine.go:91-110, client.go:136-222).     *)
(***************************************************************************)
THEOREM ScoresInOneStep == FairScoring => [][Replied]_<<outcome, scores>>
<1>1. ASSUME CallInv, Answers', [NextScoring]_allVars
      PROVE  [Replied]_<<outcome, scores>>
  <2> SUFFICES ASSUME ~UNCHANGED <<outcome, scores>> PROVE Replied
    OBVIOUS
  <2>1. Answers' => (outcome' = "scores" => Scored')
    BY DEF Answers, Scored
  <2>2. CASE CanceledBefore
    BY <1>1, <2>2 DEF CanceledBefore, ReturnError, CallInv, Replied
  <2>3. CASE PlanFailed
    BY <1>1, <2>3 DEF PlanFailed, ReturnError, CallInv, Replied
  <2>4. CASE PassStep
    <3>1. phase # "planning" /\ Pass!Next
      BY <2>4 DEF PassStep
    <3>2. PP!PassInv /\ PP!Next
      BY <1>1, <3>1, ReturnedIsOver, SameNotions DEF CallInv
    <3>3. /\ outcome = Nil /\ scores = Nil
          /\ outcome' \in {"scores", "answer", "interrupted"}
          /\ outcome' # "scores" => scores' = Nil
          /\ outcome' = "interrupted" => caller
      BY <3>2, PassAssumption, PP!RepliesOnce
    <3> QED
      BY <1>1, <2>1, <3>3 DEF Replied
  <2>5. CASE PlanStep \/ StartWorkers \/ CallerCancels \/ UNCHANGED allVars
    BY <2>5 DEF PlanStep, StartWorkers, CallerCancels, Pass!CallerCancels, allVars, passVars
  <2> QED
    BY <1>1, <2>2, <2>3, <2>4, <2>5 DEF NextScoring, Planning
<1>2. CallInv /\ Answers' /\ [NextScoring]_allVars => [Replied]_<<outcome, scores>>
  BY <1>1
<1> QED
  BY <1>2, CallHolds, EverythingIsAnswered, PTL DEF FairScoring

-----------------------------------------------------------------------------
\* The replay scorer.

\* References that copies of the supplied scores may have been given.
Tagged(tags) == {<<tag, id, p>> : tag \in tags, id \in DOMAIN supplied, p \in Parts}

(***************************************************************************)
(* The scorer's copy is its own: no caller holds a reference into it, so   *)
(* it still says what was supplied; and memory is used once, so that no    *)
(* reply's references are another's.                                       *)
(***************************************************************************)
OwnInv ==
    /\ supplied \in Supplies
    /\ replies \in 0..MaxReplies
    /\ Refs(supplied) \subseteq DOMAIN heap
    /\ open \subseteq Refs(supplied) \cup Tagged(1..replies)
    /\ own = None => replies = 0 /\ DOMAIN heap = Refs(supplied) /\ reply = None
    /\ own # None =>
          /\ own = Copied(supplied, 0)
          /\ Refs(own) \subseteq DOMAIN heap
          /\ DOMAIN heap \subseteq Refs(supplied) \cup Tagged(0..replies)
          /\ Deref(heap, own) = given
    /\ Reproducible

LEMMA InRefs ==
    ASSUME NEW table, NEW r
    PROVE  r \in Refs(table) <=>
             r # None /\ \E id \in DOMAIN table, p \in Parts : r = table[id][p]
BY DEF Refs

\* Copying says the same, leaves the rest alone, and takes tagged references.
CopySays(table, tag) ==
    LET copies == Copied(table, tag)
        h == Extended(table, copies) IN
    /\ DOMAIN h = DOMAIN heap \cup Refs(copies)
    /\ \A r \in DOMAIN heap : h[r] = heap[r]
    /\ Deref(h, copies) = Deref(heap, table)
    /\ \A r \in Refs(copies) : \E id \in DOMAIN table, p \in Parts : r = <<tag, id, p>>

LEMMA CopyToUnused ==
    ASSUME NEW table, NEW tag, Refs(table) \subseteq DOMAIN heap,
           \A id \in DOMAIN table, p \in Parts : <<tag, id, p>> \notin DOMAIN heap \cup {None}
    PROVE  CopySays(table, tag)
<1> DEFINE copies == Copied(table, tag)
           h == Extended(table, copies)
           Place(r) == CHOOSE x \in (DOMAIN table) \X Parts : copies[x[1]][x[2]] = r
<1>1. /\ DOMAIN copies = DOMAIN table
      /\ \A id \in DOMAIN table, p \in Parts :
            copies[id][p] = IF table[id][p] = None THEN None ELSE <<tag, id, p>>
  BY DEF Copied
<1> HIDE DEF copies
<1>2. h = [r \in DOMAIN heap \cup Refs(copies) |->
             IF r \in DOMAIN heap THEN heap[r]
             ELSE heap[table[Place(r)[1]][Place(r)[2]]]]
  BY DEF Extended
<1> HIDE DEF h
<1>3. ASSUME NEW r, NEW id \in DOMAIN table, NEW p \in Parts, copies[id][p] = r
      PROVE  /\ Place(r) \in (DOMAIN table) \X Parts
             /\ copies[Place(r)[1]][Place(r)[2]] = r
  <2>1. /\ <<id, p>> \in (DOMAIN table) \X Parts
        /\ copies[<<id, p>>[1]][<<id, p>>[2]] = r
    BY <1>3
  <2> DEFINE Room(x) == copies[x[1]][x[2]] = r
  <2> HIDE DEF Room
  <2>2. Room(<<id, p>>)
    BY <2>1 DEF Room
  <2>3. LET c == CHOOSE x \in (DOMAIN table) \X Parts : Room(x) IN
        c \in (DOMAIN table) \X Parts /\ Room(c)
    BY <2>1, <2>2, Zenon
  <2> QED
    BY <2>3 DEF Room
<1> HIDE DEF Place
<1>4. \A r \in Refs(copies) : \E id \in DOMAIN table, p \in Parts : r = <<tag, id, p>>
  <2> SUFFICES ASSUME NEW r \in Refs(copies)
               PROVE  \E id \in DOMAIN table, p \in Parts : r = <<tag, id, p>>
    OBVIOUS
  <2>1. PICK id \in DOMAIN table, p \in Parts : r = copies[id][p] /\ r # None
    BY <1>1, InRefs
  <2>2. r = <<tag, id, p>>
    BY <1>1, <2>1
  <2> QED
    BY <2>2
<1>5. ASSUME NEW id \in DOMAIN table, NEW p \in Parts, table[id][p] # None
      PROVE  h[copies[id][p]] = heap[table[id][p]]
  <2>0. PICK r : r = <<tag, id, p>>
    OBVIOUS
  <2>1. copies[id][p] = r /\ r \notin DOMAIN heap /\ r # None
    BY <1>1, <1>5, <2>0
  <2>2. r \in Refs(copies)
    BY <1>1, <2>1, InRefs
  <2>3. Place(r) \in (DOMAIN table) \X Parts /\ copies[Place(r)[1]][Place(r)[2]] = r
    BY <1>3, <2>1
  <2>4. Place(r)[1] \in DOMAIN table /\ Place(r)[2] \in Parts
    BY <2>3
  <2>5. <<tag, Place(r)[1], Place(r)[2]>> = <<tag, id, p>>
    BY <1>1, <2>0, <2>1, <2>3, <2>4
  <2>6. Place(r)[1] = id /\ Place(r)[2] = p
    BY <2>5
  <2>7. h[r] = heap[table[Place(r)[1]][Place(r)[2]]]
    BY <1>2, <2>1, <2>2
  <2> QED
    BY <2>1, <2>6, <2>7
<1>6. Deref(h, copies) = Deref(heap, table)
  <2>1. \A id \in DOMAIN table, p \in Parts : copies[id][p] = None <=> table[id][p] = None
    BY <1>1
  <2>2. \A id \in DOMAIN table, p \in Parts :
          (IF copies[id][p] = None THEN None ELSE h[copies[id][p]])
            = (IF table[id][p] = None THEN None ELSE heap[table[id][p]])
    BY <1>5, <2>1
  <2> QED
    BY <1>1, <2>2 DEF Deref
<1>7. DOMAIN h = DOMAIN heap \cup Refs(copies) /\ \A r \in DOMAIN heap : h[r] = heap[r]
  BY <1>2
<1> QED
  BY <1>4, <1>6, <1>7 DEF copies, h, CopySays

LEMMA DerefSame ==
    ASSUME NEW table, NEW g, NEW h, \A r \in Refs(table) : h[r] = g[r]
    PROVE  Deref(h, table) = Deref(g, table)
<1>1. \A id \in DOMAIN table, p \in Parts :
        (IF table[id][p] = None THEN None ELSE h[table[id][p]])
          = (IF table[id][p] = None THEN None ELSE g[table[id][p]])
  BY InRefs
<1> QED
  BY <1>1 DEF Deref

LEMMA OwnStarts == ReplayInit => OwnInv
<1> SUFFICES ASSUME ReplayInit PROVE OwnInv
  OBVIOUS
<1>1. DOMAIN heap = Refs(supplied) /\ open = Refs(supplied) /\ supplied \in Supplies
  BY DEF ReplayInit
<1>2. own = None /\ reply = None /\ replies = 0
  BY DEF ReplayInit
<1> QED
  BY <1>1, <1>2, ReplayAssumption DEF OwnInv, Reproducible

\* What the scorer made stays apart from all that callers can reach.
LEMMA OwnApart == ASSUME OwnInv, own # None PROVE Refs(own) \cap open = {}
<1> SUFFICES ASSUME NEW r \in Refs(own), r \in open PROVE FALSE
  OBVIOUS
<1>1. DOMAIN own = DOMAIN supplied
  BY DEF OwnInv, Copied
<1>2. PICK id \in DOMAIN own, p \in Parts : r = own[id][p] /\ r # None
  BY InRefs
<1>3. r = <<0, id, p>>
  BY <1>1, <1>2 DEF OwnInv, Copied
<1>4. r \notin Refs(supplied)
  BY <1>1, <1>3, ReplayAssumption DEF OwnInv
<1>5. PICK tag \in 1..replies, d \in DOMAIN supplied, q \in Parts : r = <<tag, d, q>>
  BY <1>4 DEF OwnInv, Tagged
<1> QED
  BY <1>3, <1>5 DEF OwnInv

LEMMA NewReplayKeeps == ASSUME OwnInv, NewReplay PROVE OwnInv'
<1>1. /\ own' = Copied(supplied, 0) /\ heap' = Extended(supplied, own')
      /\ given' = Deref(heap, supplied) /\ own = None
      /\ UNCHANGED <<supplied, open, replies, reply>>
  BY DEF NewReplay
<1>2. /\ replies = 0 /\ DOMAIN heap = Refs(supplied) /\ reply = None
      /\ supplied \in Supplies /\ open \subseteq Refs(supplied) \cup Tagged(1..replies)
  BY <1>1 DEF OwnInv
<1>3. \A id \in DOMAIN supplied, p \in Parts : <<0, id, p>> \notin DOMAIN heap \cup {None}
  BY <1>2, ReplayAssumption
<1>4. /\ DOMAIN heap' = DOMAIN heap \cup Refs(own')
      /\ Deref(heap', own') = Deref(heap, supplied)
      /\ \A r \in Refs(own') : \E id \in DOMAIN supplied, p \in Parts : r = <<0, id, p>>
  <2> DEFINE out == Copied(supplied, 0)
             h == Extended(supplied, out)
  <2>1. /\ DOMAIN h = DOMAIN heap \cup Refs(out)
        /\ Deref(h, out) = Deref(heap, supplied)
        /\ \A r \in Refs(out) : \E id \in DOMAIN supplied, p \in Parts : r = <<0, id, p>>
    <3>1. CopySays(supplied, 0)
      BY <1>2, <1>3, CopyToUnused
    <3> QED
      BY <3>1 DEF CopySays
  <2>2. own' = out /\ heap' = h
    BY <1>1
  <2> HIDE DEF out, h
  <2> QED
    BY <2>1, <2>2
<1>5. own' # None
  BY <1>1, <1>2, ReplayAssumption
<1>6. Tagged(0..replies)' = Tagged(0..replies) /\ Tagged(1..replies)' = Tagged(1..replies)
  BY <1>1 DEF Tagged
<1>7. Refs(own') \subseteq Tagged(0..replies)
  BY <1>2, <1>4 DEF Tagged
<1>8. own' = Copied(supplied', 0)
  BY <1>1
<1>9. Refs(supplied') = Refs(supplied)
  BY <1>1
<1>10. /\ Refs(own') \subseteq DOMAIN heap'
       /\ DOMAIN heap' \subseteq Refs(supplied) \cup Tagged(0..replies)
       /\ Refs(supplied) \subseteq DOMAIN heap'
  BY <1>2, <1>4, <1>7
<1>11. Reproducible'
  BY <1>1, <1>2 DEF Reproducible
<1> QED
  BY <1>1, <1>2, <1>4, <1>5, <1>6, <1>8, <1>9, <1>10, <1>11, ReplayAssumption DEF OwnInv

LEMMA WriteKeeps == ASSUME OwnInv, NEW r \in open, NEW v, Write(r, v) PROVE OwnInv'
<1>1. /\ heap' = [heap EXCEPT ![r] = v]
      /\ UNCHANGED <<supplied, given, own, open, replies, reply>>
  BY DEF Write
<1>2. DOMAIN heap' = DOMAIN heap
  BY <1>1
<1>3. own # None => Deref(heap', own) = Deref(heap, own)
  <2> SUFFICES ASSUME own # None PROVE Deref(heap', own) = Deref(heap, own)
    OBVIOUS
  <2>1. \A q \in Refs(own) : q \in DOMAIN heap /\ q # r
    BY OwnApart DEF OwnInv
  <2>2. \A q \in Refs(own) : heap'[q] = heap[q]
    BY <1>1, <2>1
  <2> QED
    BY <2>2, DerefSame
<1>4. Tagged(0..replies)' = Tagged(0..replies) /\ Tagged(1..replies)' = Tagged(1..replies)
  BY <1>1 DEF Tagged
<1>5. /\ Refs(supplied') = Refs(supplied) /\ Refs(own') = Refs(own)
      /\ Deref(heap', own') = Deref(heap', own) /\ Copied(supplied', 0) = Copied(supplied, 0)
  BY <1>1
<1>6. Reproducible'
  BY <1>1 DEF OwnInv, Reproducible
<1> QED
  BY <1>1, <1>2, <1>3, <1>4, <1>5, <1>6 DEF OwnInv

LEMMA ScoreKeeps == ASSUME OwnInv, NEW S, Score(S) PROVE OwnInv'
<1> DEFINE table == Held(S)
           out == Copied(table, replies + 1)
<1>1. /\ own # None /\ replies < MaxReplies
      /\ heap' = Extended(table, out) /\ open' = open \cup Refs(out)
      /\ reply' = Deref(heap', out) /\ replies' = replies + 1
      /\ UNCHANGED <<supplied, given, own>>
  BY DEF Score
<1>2. /\ supplied \in Supplies /\ replies \in 0..MaxReplies
      /\ own = Copied(supplied, 0) /\ Refs(own) \subseteq DOMAIN heap
      /\ Refs(supplied) \subseteq DOMAIN heap
      /\ DOMAIN heap \subseteq Refs(supplied) \cup Tagged(0..replies)
      /\ open \subseteq Refs(supplied) \cup Tagged(1..replies)
      /\ Deref(heap, own) = given
  BY <1>1 DEF OwnInv
<1>3. DOMAIN own = DOMAIN supplied
  BY <1>2 DEF Copied
<1>4. DOMAIN table = S \cap DOMAIN own /\ \A id \in DOMAIN table : table[id] = own[id]
  BY DEF Held
<1>5. replies + 1 \in 1..MaxReplies /\ replies + 1 \in 0..MaxReplies
  BY <1>1, <1>2, ReplayAssumption
<1> HIDE DEF table
<1>6. Refs(table) \subseteq DOMAIN heap
  BY <1>2, <1>4, InRefs
<1>7. ASSUME NEW id \in DOMAIN table, NEW p \in Parts
      PROVE  <<replies + 1, id, p>> \notin DOMAIN heap \cup {None}
  <2>1. id \in DOMAIN supplied
    BY <1>3, <1>4
  <2>2. <<replies + 1, id, p>> \notin Refs(supplied) \cup {None}
    BY <1>2, <1>5, <2>1, ReplayAssumption
  <2>3. <<replies + 1, id, p>> \notin Tagged(0..replies)
    BY <1>2 DEF Tagged
  <2> QED
    BY <1>2, <2>2, <2>3
<1>8. /\ DOMAIN heap' = DOMAIN heap \cup Refs(out)
      /\ \A r \in DOMAIN heap : heap'[r] = heap[r]
      /\ Deref(heap', out) = Deref(heap, table)
      /\ \A r \in Refs(out) : \E id \in DOMAIN table, p \in Parts : r = <<replies + 1, id, p>>
  <2> DEFINE h == Extended(table, out)
  <2>1. /\ DOMAIN h = DOMAIN heap \cup Refs(out)
        /\ \A r \in DOMAIN heap : h[r] = heap[r]
        /\ Deref(h, out) = Deref(heap, table)
        /\ \A r \in Refs(out) : \E id \in DOMAIN table, p \in Parts : r = <<replies + 1, id, p>>
    <3>1. CopySays(table, replies + 1)
      BY <1>6, <1>7, CopyToUnused
    <3> QED
      BY <3>1 DEF CopySays
  <2>2. heap' = h
    BY <1>1
  <2> HIDE DEF out, h
  <2> QED
    BY <2>1, <2>2
<1>9. /\ Tagged(0..replies)' = Tagged(0..(replies + 1))
      /\ Tagged(1..replies)' = Tagged(1..(replies + 1))
  BY <1>1 DEF Tagged
<1>10. /\ Tagged(0..replies) \subseteq Tagged(0..(replies + 1))
       /\ Tagged(1..replies) \subseteq Tagged(1..(replies + 1))
       /\ Tagged(1..(replies + 1)) \subseteq Tagged(0..(replies + 1))
  BY <1>2 DEF Tagged
<1>11. Refs(out) \subseteq Tagged(1..(replies + 1))
  <2>1. replies + 1 \in 1..(replies + 1) /\ DOMAIN table \subseteq DOMAIN supplied
    BY <1>2, <1>3, <1>4
  <2> QED
    BY <1>8, <2>1 DEF Tagged
<1>12. Deref(heap', own) = given
  <2>1. \A r \in Refs(own) : heap'[r] = heap[r]
    BY <1>2, <1>8
  <2> QED
    BY <1>2, <2>1, DerefSame
<1>13. \A id \in DOMAIN reply' : reply'[id] = given[id]
  <2>1. reply' = Deref(heap, table) /\ DOMAIN reply' = DOMAIN table
    BY <1>1, <1>8 DEF Deref
  <2>2. \A id \in DOMAIN table : Deref(heap, table)[id] = Deref(heap, own)[id]
    BY <1>4 DEF Deref
  <2> QED
    BY <1>2, <2>1, <2>2
<1>14. Reproducible'
  BY <1>1, <1>13 DEF Reproducible
<1>15. /\ Refs(supplied') = Refs(supplied) /\ Refs(own') = Refs(own)
       /\ Deref(heap', own') = Deref(heap', own) /\ Copied(supplied', 0) = Copied(supplied, 0)
  BY <1>1
<1>16. /\ open' \subseteq Refs(supplied) \cup Tagged(1..(replies + 1))
       /\ DOMAIN heap' \subseteq Refs(supplied) \cup Tagged(0..(replies + 1))
       /\ Refs(own) \subseteq DOMAIN heap' /\ Refs(supplied) \subseteq DOMAIN heap'
  BY <1>1, <1>2, <1>8, <1>10, <1>11
<1> HIDE DEF out
<1> QED
  BY <1>1, <1>2, <1>5, <1>9, <1>12, <1>14, <1>15, <1>16 DEF OwnInv

(***************************************************************************)
(* Whoever writes to what NewReplay was given or Score returned, and       *)
(* whenever, every later reply gives what was supplied: the copies in      *)
(* NewReplay and in Score share nothing with their callers                 *)
(* (replay.go:13-24 and 30-46).                                            *)
(***************************************************************************)
THEOREM RepliesAreReproducible == ReplaySpec => []Reproducible
<1>1. OwnInv /\ [ReplayNext]_replayVars => OwnInv'
  <2> SUFFICES ASSUME OwnInv, [ReplayNext]_replayVars PROVE OwnInv'
    OBVIOUS
  <2>1. CASE UNCHANGED replayVars
    BY <2>1 DEF replayVars, OwnInv, Reproducible, Tagged
  <2> QED
    BY <2>1, NewReplayKeeps, ScoreKeeps, WriteKeeps DEF ReplayNext
<1>2. OwnInv => Reproducible
  BY DEF OwnInv
<1> QED
  BY OwnStarts, <1>1, <1>2, PTL DEF ReplaySpec

=============================================================================
