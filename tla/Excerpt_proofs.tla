--------------------------- MODULE Excerpt_proofs ---------------------------
(***************************************************************************)
(* Proofs about Excerpt, for all texts and limits.  A line may cost more   *)
(* than was left, by at most seven bytes: clipped to remaining - 24, it    *)
(* takes its number of up to ten digits, four bytes around it and the mark *)
(* of 17.  Clipping keeps the latest cut in reach, and what was picked     *)
(* ranks before whatever was not.  The same invariant holds of every       *)
(* excerpt that Context calls for, in the terms of any caller's text and   *)
(* limit (ShapeInv).  Length is a running sum, so that it is a number      *)
(* takes an induction.                                                     *)
(***************************************************************************)
EXTENDS Context, FiniteSetTheorems, WellFoundedInduction, TLAPS

\* The budget is used up exactly, and overdrawn by less than a line's trimmings.
Ledger ==
    /\ used + remaining = Larger(0, limit - Reserve)
    /\ remaining >= -7
    /\ used > 0 => limit >= Reserve + Enough
    /\ pc = "whole" <=> Length(lines) <= limit

\* clip() has not passed the latest cut.
ClipInv ==
    pc = "clip" =>
        /\ remaining >= Enough
        /\ end <= Room /\ end <= Size(line)
        /\ Size(line) <= Room => end = Size(line)
        /\ \A k \in lines[line].text.starts : k <= Room => k <= end

\* What was picked ranks before what was not.
RankInv ==
    /\ \A i \in DOMAIN selected, j \in Unranked : Better(i, j)
    /\ pc = "clip" => \A j \in Unranked : Better(line, j)

\* Lines and limits may be those of any caller.
ShapeInv ==
    /\ IsLines(lines) /\ limit \in Nat
    /\ pc \in {"whole", "scan", "clip", "done"}
    /\ pc = "clip" => line \in Unranked
    /\ end \in Nat /\ used \in Nat /\ remaining \in Int
    /\ DOMAIN selected \subseteq DOMAIN lines
    /\ \A i \in DOMAIN selected : selected[i] \in 0..Size(i)

IInv == ShapeInv /\ Ledger /\ ClipInv /\ RankInv

\* Nothing is spent without a line, and the loop stops for want of budget or of lines.
SpentInv ==
    /\ DOMAIN selected = {} => used = 0
    /\ pc = "done" => remaining < Enough \/ Unranked = {}

ExcerptInv == IInv /\ SpentInv

\* A line number has at most ten digits.
LEMMA DigitsBound == ASSUME NEW n PROVE Digits(n) \in 1..10
<1> DEFINE S == {k \in 1..9 : n >= Powers[k]}
<1>1. S \subseteq 1..9
  OBVIOUS
<1>2. IsFiniteSet(1..9) /\ Cardinality(1..9) = 9
  <2>1. 1 \in Int /\ 9 \in Int
    OBVIOUS
  <2>2. IsFiniteSet(1..9) /\ Cardinality(1..9) = IF 1 > 9 THEN 0 ELSE 9 - 1 + 1
    BY <2>1, FS_Interval, Zenon
  <2> QED
    BY <2>2
<1>3. IsFiniteSet(S) /\ Cardinality(S) <= 9
  BY <1>1, <1>2, FS_Subset
<1>4. Cardinality(S) \in Nat
  BY <1>3, FS_CardinalityType
<1> QED
  BY <1>3, <1>4 DEF Digits

\* A set of numbers that has zero and with each number the next has all of them.
LEMMA Induction ==
    ASSUME NEW T \in SUBSET Nat, 0 \in T, \A n \in T : n + 1 \in T
    PROVE  T = Nat
<1> SUFFICES ASSUME Nat \ T # {} PROVE FALSE
  OBVIOUS
<1>1. IsWellFoundedOn(OpToRel(<, Nat), Nat)
  BY NatLessThanWellFounded
<1>2. PICK m \in Nat \ T : \A k \in Nat \ T : ~(<<k, m>> \in OpToRel(<, Nat))
  BY <1>1, WFMin, Nat \ T \subseteq Nat
<1>3. \A k \in Nat \ T : ~(k < m)
  BY <1>2 DEF OpToRel
<1>4. m # 0
  OBVIOUS
<1>5. m - 1 \in T
  BY <1>3, <1>4
<1>6. (m - 1) + 1 \in T
  BY <1>5
<1> QED
  BY <1>6, (m - 1) + 1 = m

\* Running sums exist.
LEMMA RunningSum ==
    ASSUME NEW n \in Nat, NEW s \in [1..n -> Int]
    PROVE  \E f \in [0..n -> Int] :
              f = [i \in 0..n |-> IF i = 0 THEN 0 ELSE f[i - 1] + s[i]]
<1> DEFINE Sums(f, k) == f = [i \in 0..k |-> IF i = 0 THEN 0 ELSE f[i - 1] + s[i]]
           T == {k \in Nat : k <= n => \E f \in [0..k -> Int] : Sums(f, k)}
<1>1. 0 \in T
  <2> DEFINE f == [i \in 0..0 |-> 0]
  <2>1. f \in [0..0 -> Int] /\ Sums(f, 0)
    OBVIOUS
  <2> QED
    BY <2>1
<1>2. ASSUME NEW k \in Nat, k + 1 <= n, \E f \in [0..k -> Int] : Sums(f, k)
      PROVE  \E f \in [0..(k + 1) -> Int] : Sums(f, k + 1)
  <2>1. PICK f \in [0..k -> Int] : Sums(f, k)
    BY <1>2
  <2> DEFINE g == [i \in 0..(k + 1) |-> IF i = k + 1 THEN f[k] + s[k + 1] ELSE f[i]]
  <2>2. f[k] + s[k + 1] \in Int
    BY <1>2
  <2>3. g \in [0..(k + 1) -> Int]
    BY <2>2
  <2>4. ASSUME NEW i \in 0..(k + 1)
        PROVE  g[i] = IF i = 0 THEN 0 ELSE g[i - 1] + s[i]
    <3>1. CASE i = k + 1
      BY <3>1
    <3>2. CASE i # k + 1
      <4>1. i \in 0..k /\ g[i] = f[i]
        BY <3>2
      <4>2. f[i] = IF i = 0 THEN 0 ELSE f[i - 1] + s[i]
        BY <2>1, <4>1
      <4>3. i # 0 => g[i - 1] = f[i - 1]
        BY <4>1
      <4> QED
        BY <4>1, <4>2, <4>3
    <3> QED
      BY <3>1, <3>2
  <2>5. Sums(g, k + 1)
    BY <2>4
  <2> QED
    BY <2>3, <2>5
<1>3. ASSUME NEW k \in T PROVE k + 1 \in T
  <2>1. k \in Nat /\ (k + 1 <= n => k <= n)
    OBVIOUS
  <2>2. k <= n => \E f \in [0..k -> Int] : Sums(f, k)
    OBVIOUS
  <2> HIDE DEF Sums
  <2>3. k + 1 <= n => \E f \in [0..(k + 1) -> Int] : Sums(f, k + 1)
    BY <1>2, <2>1, <2>2
  <2> QED
    BY <2>1, <2>3
<1>4. T \subseteq Nat
  OBVIOUS
<1> HIDE DEF Sums
<1>5. n \in T
  <2> HIDE DEF T
  <2> QED
    BY <1>1, <1>3, <1>4, Induction
<1>6. \E f \in [0..n -> Int] : Sums(f, n)
  BY <1>5
<1> QED
  BY <1>6 DEF Sums

\* A text has a length.
LEMMA LengthIsInt ==
    ASSUME NEW t, Len(t) \in Nat, \A i \in 1..Len(t) : t[i].text.bytes \in Int
    PROVE  Length(t) \in Int
<1> DEFINE s == [i \in 1..Len(t) |-> t[i].text.bytes + 1]
           Sums(f) == f = [i \in 0..Len(t) |-> IF i = 0 THEN 0 ELSE f[i - 1] + t[i].text.bytes + 1]
           upTo == CHOOSE f : Sums(f)
<1>1. PICK f \in [0..Len(t) -> Int] :
          f = [i \in 0..Len(t) |-> IF i = 0 THEN 0 ELSE f[i - 1] + s[i]]
  <2>1. s \in [1..Len(t) -> Int]
    OBVIOUS
  <2> HIDE DEF s
  <2> QED
    BY <2>1, RunningSum
<1>2. Sums(f)
  <2>1. ASSUME NEW i \in 0..Len(t), i # 0
        PROVE  f[i - 1] + s[i] = f[i - 1] + t[i].text.bytes + 1
    <3>1. i \in 1..Len(t) /\ i - 1 \in 0..Len(t)
      BY <2>1
    <3>2. s[i] = t[i].text.bytes + 1 /\ t[i].text.bytes \in Int
      BY <3>1
    <3>3. f[i - 1] \in Int
      BY <1>1, <3>1
    <3> QED
      BY <3>2, <3>3
  <2> HIDE DEF s
  <2> QED
    BY <1>1, <2>1
<1>3. Sums(upTo)
  BY <1>2
<1>4. Length(t) = upTo[Len(t)] - 1
  BY DEF Length
<1> HIDE DEF upTo
<1> DEFINE T == {k \in Nat : k <= Len(t) => upTo[k] \in Int}
<1>5. 0 \in T
  BY <1>3
<1>6. ASSUME NEW k \in T PROVE k + 1 \in T
  BY <1>3
<1> HIDE DEF T
<1>7. T = Nat
  BY <1>5, <1>6, Induction DEF T
<1>8. upTo[Len(t)] \in Int
  BY <1>7 DEF T
<1> QED
  BY <1>4, <1>8
\* The lines of a text, and their sizes and scores, are numbers.
LEMMA Numbers ==
    ASSUME IsLines(lines), NEW i \in DOMAIN lines
    PROVE  /\ i \in Nat /\ Size(i) \in Nat /\ Score(i) \in Int
           /\ lines[i].text.starts \subseteq 0..(Size(i) - 1)
<1>1. i \in Nat /\ IsText(lines[i].text) /\ lines[i].hits \in Nat /\ lines[i].terms \in Nat
  BY DEF IsLines
<1>2. Size(i) \in Nat /\ lines[i].text.starts \subseteq 0..(Size(i) - 1)
  BY <1>1 DEF IsText, Size
<1>3. Score(i) \in Int
  BY <1>1 DEF Score
<1> QED
  BY <1>1, <1>2, <1>3

LEMMA InitInv == Init => IInv
<1> SUFFICES ASSUME Init PROVE IInv
  OBVIOUS
<1>1. limit \in Nat
  BY TextsAssumption DEF Init
<1>2. DOMAIN selected = {}
  BY DEF Init
<1>3. ShapeInv
  BY <1>1, <1>2, TextsAssumption DEF Init, ShapeInv, Larger, Reserve
<1>4. Ledger
  BY <1>1 DEF Init, Ledger, Larger, Reserve
<1>5. ClipInv /\ RankInv
  BY <1>2 DEF Init, ClipInv, RankInv
<1> QED
  BY <1>3, <1>4, <1>5 DEF IInv

LEMMA PickStep == ASSUME IInv, NEW i \in Unranked, Pick(i) PROVE IInv'
<1>0. /\ IsLines(lines) /\ limit \in Nat /\ i \in DOMAIN lines
      /\ remaining \in Int /\ remaining >= 32
  BY DEF IInv, ShapeInv, Pick, Unranked, Enough
<1>1. Size(i) \in Nat /\ lines[i].text.starts \subseteq 0..(Size(i) - 1)
  BY <1>0, Numbers
<1>2. Room \in Int /\ Room >= 8 /\ Room' = Room
  BY <1>0 DEF Room, Margin, Larger, Smaller, Pick
<1>3. end' = Smaller(Room, Size(i)) /\ line' = i /\ pc' = "clip"
  BY <1>2 DEF Pick, Larger
<1>4. UNCHANGED <<lines, limit, remaining, selected, used>> /\ pc = "scan"
  BY DEF Pick
<1>5. Unranked' = Unranked /\ Size(line)' = Size(i)
  BY <1>3, <1>4 DEF Unranked, Size
<1>6. ShapeInv'
  <2>1. \A k \in DOMAIN selected' : selected'[k] \in 0..Size(k)'
    BY <1>4 DEF IInv, ShapeInv, Size
  <2>2. end' \in Nat
    BY <1>1, <1>2, <1>3 DEF Smaller
  <2> QED
    BY <2>1, <2>2, <1>3, <1>4, <1>5 DEF IInv, ShapeInv
<1>7. Ledger'
  BY <1>3, <1>4 DEF IInv, Ledger
<1>8. ClipInv'
  <2>1. lines'[line'].text.starts = lines[i].text.starts
    BY <1>3, <1>4
  <2>2. end' <= Room /\ end' <= Size(i) /\ (Size(i) <= Room => end' = Size(i))
    BY <1>1, <1>2, <1>3 DEF Smaller
  <2>3. \A k \in lines[i].text.starts : k <= Room => k <= end'
    BY <1>1, <1>2, <1>3 DEF Smaller
  <2> QED
    BY <2>1, <2>2, <2>3, <1>0, <1>2, <1>4, <1>5 DEF ClipInv, Enough
<1>9. RankInv'
  <2>1. \A k, j : Better(k, j)' <=> Better(k, j)
    BY <1>4 DEF Better, Score
  <2>2. \A j \in Unranked : Better(i, j)
    BY DEF Pick
  <2> QED
    BY <2>1, <2>2, <1>3, <1>4, <1>5 DEF IInv, RankInv
<1> QED
  BY <1>6, <1>7, <1>8, <1>9 DEF IInv

LEMMA StepBackStep == ASSUME IInv, StepBack PROVE IInv'
<1>0. /\ IsLines(lines) /\ limit \in Nat /\ line \in DOMAIN lines
      /\ remaining \in Int /\ remaining >= 32 /\ end \in Nat
  BY DEF IInv, ShapeInv, ClipInv, StepBack, Unranked, Enough
<1>1. Size(line) \in Nat /\ lines[line].text.starts \subseteq 0..(Size(line) - 1)
  BY <1>0, Numbers
<1>2. Room \in Int /\ Room' = Room
  BY <1>0 DEF Room, Margin, Larger, Smaller, StepBack
<1>3. /\ pc = "clip" /\ end' = end - 1 /\ end \notin lines[line].text.starts
      /\ end # 0 /\ end # Size(line)
      /\ UNCHANGED <<lines, limit, pc, line, remaining, selected, used>>
  BY DEF StepBack, AtCut
<1>4. Unranked' = Unranked /\ Size(line)' = Size(line)
  BY <1>3 DEF Unranked, Size
<1>5. ShapeInv'
  <2>1. \A k \in DOMAIN selected' : selected'[k] \in 0..Size(k)'
    BY <1>3 DEF IInv, ShapeInv, Size
  <2> QED
    BY <2>1, <1>0, <1>3, <1>4 DEF IInv, ShapeInv
<1>6. Ledger'
  BY <1>3 DEF IInv, Ledger
<1>7. ClipInv'
  <2>1. /\ end <= Room /\ end <= Size(line) /\ ~(Size(line) <= Room)
        /\ \A k \in lines[line].text.starts : k <= Room => k <= end
    BY <1>3 DEF IInv, ClipInv
  <2>2. end - 1 <= Room /\ end - 1 <= Size(line)
    BY <2>1, <1>0, <1>1, <1>2
  <2>3. \A k \in lines[line].text.starts : k <= Room => k <= end - 1
    BY <2>1, <1>0, <1>1, <1>3
  <2> QED
    BY <2>1, <2>2, <2>3, <1>0, <1>2, <1>3, <1>4 DEF ClipInv, Enough
<1>8. RankInv'
  <2>1. \A k, j : Better(k, j)' <=> Better(k, j)
    BY <1>3 DEF Better, Score
  <2> QED
    BY <2>1, <1>3, <1>4 DEF IInv, RankInv
<1> QED
  BY <1>5, <1>6, <1>7, <1>8 DEF IInv

LEMMA ShowStep == ASSUME IInv, Show PROVE IInv'
<1>0. /\ IsLines(lines) /\ limit \in Nat /\ line \in DOMAIN lines /\ line \in Unranked
      /\ remaining \in Int /\ remaining >= 32 /\ end \in Nat /\ used \in Nat
  BY DEF IInv, ShapeInv, ClipInv, Show, Unranked, Enough
<1>1. Size(line) \in Nat /\ Digits(line) \in 1..10
  BY <1>0, Numbers, DigitsBound
<1>2. Room \in Int /\ Room <= remaining - 24
  BY <1>0 DEF Room, Margin, Larger, Smaller
<1>3. end <= remaining - 24 /\ end <= Size(line)
  BY <1>0, <1>1, <1>2 DEF IInv, ClipInv, Show
<1> DEFINE cost == Rendered(line, end) + 1
<1>4. cost \in Nat /\ cost > 0 /\ cost <= end + 31
  BY <1>0, <1>1 DEF Rendered, Marker
<1>5. /\ used' = used + cost /\ remaining' = remaining - cost /\ pc = "clip" /\ pc' = "scan"
      /\ UNCHANGED <<lines, limit, line, end>>
  <2>1. Rendered(line, end) \in Int
    BY <1>0, <1>1 DEF Rendered, Marker
  <2> QED
    BY <2>1, <1>0 DEF Show
<1>6. /\ DOMAIN selected' = DOMAIN selected \cup {line} /\ selected'[line] = end
      /\ \A k \in DOMAIN selected : k # line => selected'[k] = selected[k]
  BY DEF Show
<1>7. Unranked' = Unranked \ {line} /\ \A k : Size(k)' = Size(k)
  BY <1>5, <1>6 DEF Unranked, Size
<1> HIDE DEF cost
<1>8. ShapeInv'
  <2>1. \A k \in DOMAIN selected' : selected'[k] \in 0..Size(k)'
    BY <1>0, <1>1, <1>3, <1>6, <1>7 DEF IInv, ShapeInv
  <2>2. used' \in Nat /\ remaining' \in Int /\ end' \in Nat
    BY <1>0, <1>4, <1>5
  <2>3. DOMAIN selected' \subseteq DOMAIN lines'
    BY <1>0, <1>5, <1>6 DEF IInv, ShapeInv
  <2> QED
    BY <2>1, <2>2, <2>3, <1>5 DEF IInv, ShapeInv
<1>9. Ledger'
  <2>1. used' + remaining' = used + remaining
    BY <1>0, <1>4, <1>5
  <2>2. remaining' >= -7
    BY <1>0, <1>3, <1>4, <1>5
  <2>3. limit >= 96
    BY <1>0 DEF IInv, Ledger, Larger, Reserve
  <2> QED
    BY <2>1, <2>2, <2>3, <1>5 DEF IInv, Ledger, Reserve, Enough
<1>10. ClipInv'
  BY <1>5 DEF ClipInv
<1>11. RankInv'
  <2>1. \A k, j : Better(k, j)' <=> Better(k, j)
    BY <1>5 DEF Better, Score
  <2>2. \A j \in Unranked : Better(line, j)
    BY <1>5 DEF IInv, RankInv
  <2> QED
    BY <2>1, <2>2, <1>5, <1>6, <1>7 DEF IInv, RankInv
<1> QED
  BY <1>8, <1>9, <1>10, <1>11 DEF IInv

LEMMA StopStep == ASSUME IInv, Stop \/ UNCHANGED vars PROVE IInv'
<1>1. UNCHANGED <<lines, limit, line, end, remaining, selected, used>>
      /\ (pc' = pc \/ (pc = "scan" /\ pc' = "done"))
  BY DEF Stop, vars
<1>2. Unranked' = Unranked /\ (\A k : Size(k)' = Size(k)) /\ Room' = Room
  BY <1>1 DEF Unranked, Size, Room
<1>3. \A k, j : Better(k, j)' <=> Better(k, j)
  BY <1>1 DEF Better, Score
<1>4. ShapeInv'
  BY <1>1, <1>2 DEF IInv, ShapeInv
<1>5. Ledger'
  BY <1>1 DEF IInv, Ledger
<1>6. ClipInv' /\ RankInv'
  BY <1>1, <1>2, <1>3 DEF IInv, ClipInv, RankInv
<1> QED
  BY <1>4, <1>5, <1>6 DEF IInv

LEMMA SpendingStep == ASSUME SpentInv, [Next]_vars PROVE SpentInv'
<1>1. ASSUME NEW i \in Unranked, Pick(i) PROVE SpentInv'
  BY <1>1 DEF Pick, SpentInv
<1>2. CASE StepBack \/ Stop \/ UNCHANGED vars
  BY <1>2 DEF StepBack, Stop, vars, SpentInv, Unranked
<1>3. CASE Show
  <2>1. line \in DOMAIN selected' /\ pc' = "scan"
    BY <1>3 DEF Show
  <2> QED
    BY <2>1 DEF SpentInv
<1> QED
  BY <1>1, <1>2, <1>3 DEF Next

LEMMA ExcerptStep == ASSUME ExcerptInv, [Next]_vars PROVE ExcerptInv'
<1>1. IInv'
  BY PickStep, StepBackStep, ShowStep, StopStep DEF Next, ExcerptInv
<1> QED
  BY <1>1, SpendingStep DEF ExcerptInv

LEMMA ExcerptStart == Init => ExcerptInv
<1>1. Init => SpentInv
  BY DEF Init, SpentInv
<1> QED
  BY <1>1, InitInv DEF ExcerptInv

LEMMA Invariance == Spec => []ExcerptInv
  BY ExcerptStart, ExcerptStep, PTL DEF Spec

-----------------------------------------------------------------------------
(***************************************************************************)
(* The context: what the builder holds is what the try has written, every  *)
(* earlier try was too long, and the excerpt under way is one of Excerpt's *)
(* for the next piece.                                                     *)
(***************************************************************************)
Under == pc # "idle" => ExcerptInv

BuildInv ==
    /\ try \in 1..3 /\ length \in Int /\ DOMAIN totals = 1..3 /\ end \in Nat
    /\ totals[try] = length
    /\ \A k \in 1..3 : (k < try => totals[k] > Most) /\ (k > try => totals[k] = 0)
    /\ result = -1 =>
          /\ pieces \in Conversations /\ written \in 0..Len(pieces)
          /\ pc # "idle" => written < Len(pieces)

ContextInv == Under /\ BuildInv /\ NoShorterThanNeeded

LEMMA ContextStart == InitContext => ContextInv
<1> SUFFICES ASSUME InitContext PROVE ContextInv
  OBVIOUS
<1>1. Under
  BY ExcerptStart DEF InitContext, Under
<1>2. try = 1 /\ length = 0 /\ totals = <<0, 0, 0>> /\ written = 0 /\ end = 0
  BY DEF InitContext, Init
<1>3. BuildInv
  <2>1. result = -1 => pieces \in Conversations /\ pc = "idle"
    BY DEF InitContext
  <2>2. pieces \in Conversations => Len(pieces) \in Nat
    BY ConversationsAssumption
  <2> QED
    BY <1>2, <2>1, <2>2 DEF BuildInv
<1>4. NoShorterThanNeeded
  BY DEF InitContext, NoShorterThanNeeded
<1> QED
  BY <1>1, <1>3, <1>4 DEF ContextInv

LEMMA CallStep == ASSUME ContextInv, Call PROVE ContextInv'
<1>0. /\ result = -1 /\ written < Len(pieces) /\ pc = "idle"
      /\ lines' = pieces[written + 1].text /\ limit' = Tries[try]
      /\ pc' = IF Length(lines') <= limit' THEN "whole" ELSE "scan"
      /\ remaining' = Larger(0, limit' - Reserve) /\ selected' = <<>> /\ used' = 0
      /\ UNCHANGED <<line, end, pieces, try, written, length, totals, result>>
  BY DEF Call, building
<1>1. /\ pieces \in Conversations /\ written \in 0..Len(pieces) /\ try \in 1..3
      /\ end \in Nat
  BY <1>0 DEF ContextInv, BuildInv
<1>2. IsLines(lines')
  <2>1. Len(pieces) \in Nat /\ DOMAIN pieces = 1..Len(pieces)
    BY <1>1, ConversationsAssumption
  <2>2. written + 1 \in DOMAIN pieces
    BY <2>1, <1>0, <1>1
  <2> QED
    BY <2>2, <1>0, <1>1, ConversationsAssumption
<1>3. limit' \in Nat
  BY <1>0, <1>1 DEF Tries
<1>4. DOMAIN selected' = {}
  BY <1>0
<1>5. ShapeInv'
  <2>1. remaining' \in Int
    BY <1>0, <1>3 DEF Larger, Reserve
  <2> QED
    BY <2>1, <1>0, <1>1, <1>2, <1>3, <1>4 DEF ShapeInv
<1>6. Ledger'
  BY <1>0, <1>3 DEF Ledger, Larger, Reserve
<1>7. ClipInv' /\ RankInv' /\ SpentInv'
  BY <1>0, <1>4 DEF ClipInv, RankInv, SpentInv
<1>8. BuildInv'
  BY <1>0 DEF ContextInv, BuildInv
<1>9. NoShorterThanNeeded'
  BY <1>0 DEF NoShorterThanNeeded
<1> QED
  BY <1>5, <1>6, <1>7, <1>8, <1>9 DEF ContextInv, Under, ExcerptInv, IInv

LEMMA WriteStep == ASSUME ContextInv, Write PROVE ContextInv'
<1> DEFINE bytes == pieces[written + 1].frame + Shown
<1>0. /\ result = -1 /\ pc \in {"whole", "done"} /\ pc' = "idle" /\ written' = written + 1
      /\ length' = length + bytes /\ totals' = [totals EXCEPT ![try] = @ + bytes]
      /\ UNCHANGED <<end, pieces, try, result>>
  BY DEF Write
<1>1. /\ pieces \in Conversations /\ written \in 0..Len(pieces) /\ written < Len(pieces)
      /\ try \in 1..3 /\ length \in Int /\ totals[try] = length /\ DOMAIN totals = 1..3
  BY <1>0 DEF ContextInv, BuildInv
<1>2. Len(pieces) \in Nat /\ DOMAIN pieces = 1..Len(pieces)
  BY <1>1, ConversationsAssumption
<1>3. pieces[written + 1].frame \in Nat
  <2>1. written + 1 \in DOMAIN pieces
    BY <1>1, <1>2
  <2> QED
    BY <2>1, <1>1, ConversationsAssumption
<1>4. Shown \in Int
  <2>1. IsLines(lines) /\ used \in Nat
    BY <1>0 DEF ContextInv, Under, ExcerptInv, IInv, ShapeInv
  <2>2. Length(lines) \in Int
    <3>1. Len(lines) \in Nat /\ DOMAIN lines = 1..Len(lines)
      BY <2>1 DEF IsLines
    <3>2. \A i \in 1..Len(lines) : lines[i].text.bytes \in Int
      BY <2>1, <3>1 DEF IsLines, IsText
    <3> QED
      BY <3>1, <3>2, LengthIsInt
  <2> QED
    BY <2>1, <2>2 DEF Shown, Header
<1>5. bytes \in Int
  BY <1>3, <1>4
<1> HIDE DEF bytes
<1>6. /\ totals'[try'] = length' /\ length' \in Int /\ DOMAIN totals' = 1..3
      /\ \A k \in 1..3 : k # try => totals'[k] = totals[k]
  BY <1>0, <1>1, <1>5
<1>7. BuildInv'
  <2>1. written' \in 0..Len(pieces')
    BY <1>0, <1>1, <1>2
  <2>2. \A k \in 1..3 : (k < try => totals'[k] > Most) /\ (k > try => totals'[k] = 0)
    BY <1>1, <1>6 DEF ContextInv, BuildInv
  <2>3. end \in Nat
    BY DEF ContextInv, BuildInv
  <2> QED
    BY <2>1, <2>2, <2>3, <1>0, <1>1, <1>6 DEF BuildInv
<1> QED
  BY <1>0, <1>7 DEF ContextInv, Under, NoShorterThanNeeded

\* The three ways on from a context that is written.
LEMMA VerdictStep ==
    ASSUME ContextInv, Return \/ TryShorter \/ ExcerptWhole
    PROVE  ContextInv'
<1>0. /\ result = -1 /\ pc = "idle" /\ UNCHANGED <<pc, end, pieces, totals>>
  BY DEF Return, TryShorter, ExcerptWhole, AllWritten, vars
<1>1. /\ try \in 1..3 /\ length \in Int /\ totals[try] = length /\ DOMAIN totals = 1..3
      /\ pieces \in Conversations /\ end \in Nat /\ written \in 0..Len(pieces)
      /\ \A k \in 1..3 : (k < try => totals[k] > Most) /\ (k > try => totals[k] = 0)
  BY <1>0 DEF ContextInv, BuildInv
<1>2. Under'
  BY <1>0 DEF Under
<1>3. CASE Return \/ ExcerptWhole
  <2>1. UNCHANGED <<try, written, length>>
    BY <1>3 DEF Return, ExcerptWhole
  <2>2. BuildInv'
    BY <1>0, <1>1, <2>1 DEF BuildInv
  <2>3. result' <= Most /\ (length <= Most => result' = length)
    <3>1. CASE Return
      BY <3>1 DEF Return
    <3>2. CASE ExcerptWhole
      <4>1. length > Most /\ result' \in Sizes(length, Most)
        BY <3>2 DEF ExcerptWhole
      <4>2. result' \in 39..Most
        BY <1>1, <4>1 DEF Sizes, Most
      <4> QED
        BY <1>1, <4>1, <4>2 DEF Most
    <3> QED
      BY <1>3, <3>1, <3>2
  <2>4. length > Most => try = 3
    BY <1>1, <1>3 DEF Return, ExcerptWhole, Most, Tries
  <2>5. NoShorterThanNeeded'
    BY <1>0, <1>1, <2>1, <2>3, <2>4 DEF NoShorterThanNeeded, Tries
  <2> QED
    BY <1>2, <2>2, <2>5 DEF ContextInv
<1>4. CASE TryShorter
  <2>1. /\ try < 3 /\ try' = try + 1 /\ written' = 0 /\ length' = 0 /\ result' = result
        /\ length > Most
    BY <1>4 DEF TryShorter, Tries
  <2>2. Len(pieces) \in Nat
    BY <1>1, ConversationsAssumption
  <2>3. BuildInv'
    BY <1>0, <1>1, <2>1, <2>2 DEF BuildInv
  <2> QED
    BY <1>0, <1>2, <2>1, <2>3 DEF ContextInv, NoShorterThanNeeded
<1> QED
  BY <1>3, <1>4

LEMMA ContextStep == ASSUME ContextInv, [NextContext]_allVars PROVE ContextInv'
<1>1. CASE Excerpting \/ UNCHANGED allVars
  <2>1. UNCHANGED building /\ [Next]_vars
    BY <1>1 DEF Excerpting, allVars
  <2>2. ASSUME pc = "idle" PROVE UNCHANGED vars
    BY <2>1, <2>2 DEF Next, Pick, StepBack, Show, Stop
  <2>3. Under'
    <3>1. CASE pc = "idle"
      BY <3>1, <2>2 DEF Under, vars
    <3>2. CASE pc # "idle"
      BY <3>2, <2>1, ExcerptStep DEF ContextInv, Under
    <3> QED
      BY <3>1, <3>2
  <2>4. end' \in Nat
    <3>1. CASE pc = "idle"
      BY <3>1, <2>2 DEF vars, ContextInv, BuildInv
    <3>2. CASE pc # "idle"
      BY <3>2, <2>1, ExcerptStep DEF ContextInv, Under, ExcerptInv, IInv, ShapeInv
    <3> QED
      BY <3>1, <3>2
  <2>5. pc' # "idle" => pc # "idle"
    BY <2>2 DEF vars
  <2> QED
    BY <2>1, <2>3, <2>4, <2>5 DEF ContextInv, BuildInv, NoShorterThanNeeded, building
<1> QED
  BY <1>1, CallStep, WriteStep, VerdictStep DEF NextContext

LEMMA ContextInvariance == SpecContext => []ContextInv
  BY ContextStart, ContextStep, PTL DEF SpecContext

-----------------------------------------------------------------------------
(***************************************************************************)
(* Type correctness, and that no line is shown beyond its size.            *)
(***************************************************************************)
THEOREM ExcerptTypes == Spec => []TypeOK
<1> DEFINE Given == lines \in Texts /\ limit \in Limits
<1>1. Init => Given
  BY DEF Init
<1>2. Given /\ [Next]_vars => Given'
  BY DEF Next, Pick, StepBack, Show, Stop, vars
<1>3. ExcerptInv /\ Given => TypeOK
  BY DEF ExcerptInv, IInv, ShapeInv, TypeOK
<1> QED
  BY <1>1, <1>2, <1>3, Invariance, PTL DEF Spec

(***************************************************************************)
(* No excerpt exceeds its limit, for every text and every limit that holds *)
(* the header.                                                             *)
(***************************************************************************)
THEOREM BudgetKept == (Spec => []WithinBudget) /\ (SpecContext => []WithinBudget)
<1>1. IInv => WithinBudget
  <2> SUFFICES ASSUME IInv, pc \in {"whole", "done"}, limit >= Header
               PROVE  (IF pc = "whole" THEN Length(lines) ELSE Header + used)
                          \in Sizes(Length(lines), limit)
    BY DEF WithinBudget
  <2>0. limit \in Nat /\ used \in Nat /\ remaining \in Int
    BY DEF IInv, ShapeInv
  <2>1. CASE pc = "whole"
    BY <2>1 DEF IInv, Ledger, Sizes
  <2>2. CASE pc = "done" /\ limit < 96
    <3>1. used = 0
      BY <2>0, <2>2 DEF IInv, Ledger, Reserve, Enough
    <3> QED
      BY <3>1, <2>2 DEF IInv, Ledger, Sizes, Header
  <2>3. CASE pc = "done" /\ ~(limit < 96)
    <3>1. 39 + used <= limit
      BY <2>0, <2>3 DEF IInv, Ledger, Larger, Reserve
    <3> QED
      BY <3>1, <2>0, <2>3 DEF IInv, Ledger, Sizes, Header
  <2> QED
    BY <2>1, <2>2, <2>3
<1>2. ExcerptInv => WithinBudget
  BY <1>1 DEF ExcerptInv
<1>3. ContextInv => WithinBudget
  BY <1>2 DEF ContextInv, Under, WithinBudget
<1> QED
  BY Invariance, ContextInvariance, <1>2, <1>3, PTL

\* Ranks compare scores first.
LEMMA RankedIsPrioritised == IInv => Prioritised
<1> SUFFICES ASSUME IInv, NEW i \in DOMAIN selected, NEW j \in Unranked
             PROVE  Score(i) >= Score(j)
  BY DEF Prioritised
<1>1. Score(i) \in Int /\ Score(j) \in Int
  BY Numbers DEF IInv, ShapeInv, Unranked
<1>2. Better(i, j)
  BY DEF IInv, RankInv
<1> QED
  BY <1>1, <1>2 DEF Better

(***************************************************************************)
(* No line is shown before a better one.                                   *)
(***************************************************************************)
THEOREM BestFirst == Spec => []Prioritised
  BY Invariance, RankedIsPrioritised, PTL DEF ExcerptInv

(***************************************************************************)
(* An excerpt's lines are the best, a limit that leaves room for a line    *)
(* shows one, and a text is left out in part only when the budget is spent *)
(* to within the reserve, for every text and limit.                        *)
(***************************************************************************)
THEOREM EvidenceIsGiven == (Spec => []GivesEvidence) /\ (SpecContext => []GivesEvidence)
<1>1. ExcerptInv => GivesEvidence
  <2> SUFFICES ASSUME IInv, SpentInv, pc = "done"
               PROVE  /\ limit >= Reserve + Enough => selected # <<>>
                      /\ Unranked # {} /\ limit >= Reserve => Header + used > limit - 64
    BY RankedIsPrioritised DEF GivesEvidence, ExcerptInv
  <2>0. limit \in Nat /\ used \in Nat /\ remaining \in Int /\ IsLines(lines)
    BY DEF IInv, ShapeInv
  <2>1. used + remaining = Larger(0, limit - Reserve)
    BY DEF IInv, Ledger
  <2>2. ASSUME limit >= Reserve + Enough PROVE selected # <<>>
    <3>1. 1 \in DOMAIN lines
      <4>1. Len(lines) \in Nat \ {0} /\ DOMAIN lines = 1..Len(lines)
        BY <2>0 DEF IsLines
      <4> QED
        BY <4>1
    <3>2. ASSUME DOMAIN selected = {} PROVE FALSE
      <4>1. remaining = limit - Reserve
        BY <2>0, <2>1, <2>2, <3>2 DEF SpentInv, Larger, Reserve, Enough
      <4>2. ~(remaining < Enough)
        BY <2>0, <2>2, <4>1 DEF Reserve, Enough
      <4> QED
        BY <3>1, <3>2, <4>2 DEF SpentInv, Unranked
    <3> QED
      BY <3>2
  <2>3. ASSUME Unranked # {}, limit >= Reserve PROVE Header + used > limit - 64
    BY <2>0, <2>1, <2>3 DEF SpentInv, Larger, Reserve, Enough, Header
  <2> QED
    BY <2>2, <2>3
<1>2. ContextInv => GivesEvidence
  BY <1>1 DEF ContextInv, Under, GivesEvidence
<1> QED
  BY <1>1, <1>2, Invariance, ContextInvariance, PTL

(***************************************************************************)
(* Every cut is the latest rune boundary that the budget allows.           *)
(***************************************************************************)
THEOREM CutsAreWhole == (Spec => WholeRunes) /\ (SpecContext => WholeRunes)
<1> DEFINE Cut == \A i \in DOMAIN selected' \ DOMAIN selected :
                     \/ selected'[i] = Size(i) /\ Size(i) <= Room
                     \/ Size(i) > Room /\ IsCut(lines[i].text, Room, selected'[i])
<1>1. IInv /\ [Next]_vars => [Cut]_vars
  <2> SUFFICES ASSUME IInv, Next, NEW i \in DOMAIN selected' \ DOMAIN selected
               PROVE  \/ selected'[i] = Size(i) /\ Size(i) <= Room
                      \/ Size(i) > Room /\ IsCut(lines[i].text, Room, selected'[i])
    OBVIOUS
  <2>1. Show
    BY DEF Next, Pick, StepBack, Stop
  <2>2. i = line /\ selected'[i] = end /\ pc = "clip" /\ AtCut
    BY <2>1 DEF Show
  <2>3. /\ IsLines(lines) /\ limit \in Nat /\ line \in DOMAIN lines
        /\ remaining \in Int /\ remaining >= 32 /\ end \in Nat
    BY <2>2 DEF IInv, ShapeInv, ClipInv, Unranked, Enough
  <2>4. Size(line) \in Nat /\ Room \in Int
    BY <2>3, Numbers DEF Room, Margin, Larger, Smaller
  <2>5. /\ end <= Room /\ (Size(line) <= Room => end = Size(line))
        /\ \A k \in lines[line].text.starts : k <= Room => k <= end
    BY <2>2 DEF IInv, ClipInv
  <2>6. CASE Size(line) <= Room
    BY <2>2, <2>5, <2>6
  <2>7. CASE Size(line) > Room
    <3>1. end # Size(line)
      BY <2>3, <2>4, <2>5, <2>7
    <3>2. end \in lines[line].text.starts \cup {0}
      BY <3>1, <2>2 DEF AtCut
    <3> QED
      BY <3>2, <2>2, <2>5, <2>7 DEF IsCut
  <2> QED
    BY <2>4, <2>6, <2>7
<1>2. ExcerptInv /\ [Next]_vars => [Cut]_vars
  BY <1>1 DEF ExcerptInv
<1>3. ContextInv /\ [NextContext]_allVars => [Cut]_vars
  <2> SUFFICES ASSUME ContextInv, [NextContext]_allVars PROVE [Cut]_vars
    OBVIOUS
  <2>1. CASE Excerpting
    <3>1. pc # "idle" /\ Next
      BY <2>1 DEF Excerpting, Next, Pick, StepBack, Show, Stop
    <3> QED
      BY <3>1, <1>2 DEF ContextInv, Under
  <2>2. CASE Call
    <3>1. DOMAIN selected' = {}
      BY <2>2 DEF Call
    <3> QED
      BY <3>1
  <2>3. CASE Write \/ Return \/ TryShorter \/ ExcerptWhole \/ UNCHANGED allVars
    <3>1. selected' = selected
      BY <2>3 DEF Write, Return, TryShorter, ExcerptWhole, allVars, vars
    <3> QED
      BY <3>1
  <2> QED
    BY <2>1, <2>2, <2>3 DEF NextContext
<1> QED
  BY Invariance, ContextInvariance, <1>2, <1>3, PTL DEF Spec, SpecContext, WholeRunes

(***************************************************************************)
(* Contexts are bounded, exact for the longest excerpts with which they    *)
(* fit, and leave messages out only when even the shortest are too long,   *)
(* for every conversation.                                                 *)
(***************************************************************************)
THEOREM ShortenedNoMoreThanNeeded == SpecContext => []NoShorterThanNeeded
  BY ContextInvariance, PTL DEF ContextInv

=============================================================================
