--------------------------- MODULE Engine_proofs ---------------------------
(***************************************************************************)
(* The promises of Engine.Compact for every request, scorer and store.     *)
(*                                                                         *)
(* ControlInv and RetainedInv give those about order and failure: the      *)
(* archive comes first, and failure is closed.  OutcomeInv gives those     *)
(* about the result: the budget is told truly, the books agree, an unmet   *)
(* budget is real, guarded content stays verbatim, and the transcript      *)
(* stays valid.  It rests on three groups of lemmas: the groups split the  *)
(* messages and no link leaves one; the size of a rewritten transcript is  *)
(* the sum over the groups; and the loop within the engine solves a        *)
(* problem that Selection_proofs speaks of, whose lemmas are instantiated  *)
(* here as SP.                                                             *)
(***************************************************************************)
EXTENDS Handled, FiniteSetTheorems, TLAPS

Archived == {"named", "fit", "score", "check", "select", "finish"}

(***************************************************************************)
(* The control invariant behind both: between its first and last step the  *)
(* call works on the copy of the request, which is archived once "named";  *)
(* a result is only there at the end, and an error never comes with one.   *)
(***************************************************************************)
ControlInv ==
    /\ pc \in Pcs
    /\ pc \notin {"begin", "done"} => req = Clone(request)
    /\ pc \in Archived => Clone(request) \in archive
    /\ pc \notin Archived \cup {"done"} => ~asked
    /\ pc # "done" => result = Nil
    /\ asked \/ result # Nil => Clone(request) \in archive
    /\ result # Nil => req = Clone(request)

\* An unapplied result is the copy, unchanged.
RetainedInv ==
    result # Nil /\ ~result.applied =>
        /\ result.messages = req.messages
        /\ result.decisions = <<>>
        /\ result.output = Before
        /\ result.status \in Retaining

EngineInv == ControlInv /\ RetainedInv

LEMMA InvInit == Init => EngineInv
BY DEF Init, EngineInv, ControlInv, RetainedInv, Pcs, Archived

\* A failing step returns no result and touches neither copy nor request.
LEMMA FailKeeps ==
    ASSUME EngineInv, NEW class, Fail(class), archive' \in {archive, archive \cup {req}},
           pc # "done"
    PROVE  EngineInv'
<1>1. result' = Nil /\ pc' = "done" /\ request' = request /\ asked' = asked
  BY DEF Fail, EngineInv, ControlInv
<1>2. Clone(request') = Clone(request)
  BY <1>1
<1>3. archive \subseteq archive'
  OBVIOUS
<1> QED
  BY <1>1, <1>2, <1>3 DEF EngineInv, ControlInv, RetainedInv, Pcs, Archived

\* Keeping the history returns the archived copy.
LEMMA RetainKeeps ==
    ASSUME EngineInv, NEW status \in Retaining, NEW stats,
           Retain(status, stats), pc \in Archived
    PROVE  EngineInv'
<1>1. /\ pc' = "done" /\ UNCHANGED <<request, req, archive, asked>>
      /\ result' = [status |-> status, applied |-> FALSE,
                    budgetMet |-> status = "unchanged",
                    messages |-> req.messages, decisions |-> <<>>,
                    snapshot |-> req, output |-> Before, stats |-> stats]
  BY DEF Retain
<1>2. req = Clone(request) /\ Clone(request) \in archive
  BY DEF EngineInv, ControlInv, Archived
<1>3. Clone(request)' = Clone(request) /\ Before' = Before
  BY <1>1 DEF Before
<1>4. ControlInv'
  BY <1>1, <1>2, <1>3 DEF ControlInv, Pcs, Archived
<1>5. RetainedInv'
  BY <1>1, <1>3 DEF RetainedInv
<1> QED
  BY <1>4, <1>5 DEF EngineInv

\* Moving on inside the archived part of the call.
LEMMA MoveKeeps ==
    ASSUME EngineInv, pc \in Archived, pc' \in Archived,
           UNCHANGED <<request, req, archive, result>>
    PROVE  EngineInv'
<1>1. Clone(request)' = Clone(request) /\ Before' = Before
  BY DEF Before
<1>2. result' = Nil
  BY DEF EngineInv, ControlInv, Archived
<1> QED
  BY <1>1, <1>2 DEF EngineInv, ControlInv, RetainedInv, Archived, Pcs

LEMMA InvStep == EngineInv /\ [Next]_vars => EngineInv'
<1> SUFFICES ASSUME EngineInv, [Next]_vars
             PROVE  EngineInv'
  OBVIOUS
<1> USE DEF Archived, Retaining
<1>1. CASE Begin
  <2>1. CASE \E class : Fail(class) /\ UNCHANGED archive
    BY <1>1, <2>1, FailKeeps DEF Begin
  <2>2. CASE pc' = "count" /\ req' = Clone(request)
             /\ UNCHANGED <<request, archive, asked, result>>
    BY <1>1, <2>2 DEF Begin, EngineInv, ControlInv, RetainedInv, Pcs
  <2> QED
    BY <1>1, <2>1, <2>2 DEF Begin
<1>2. CASE CountInput
  BY <1>2 DEF CountInput, Goto, EngineInv, ControlInv, RetainedInv, Pcs
<1>3. CASE CountFails
  BY <1>3, FailKeeps DEF CountFails
<1>4. CASE Named
  <2>1. /\ req = Clone(request) /\ pc' = "named" /\ archive' = archive \cup {req}
        /\ UNCHANGED <<request, req, asked, result>>
    BY <1>4 DEF Named, EngineInv, ControlInv
  <2> QED
    BY <1>4, <2>1 DEF Named, EngineInv, ControlInv, RetainedInv, Pcs
<1>17. CASE Save
  BY <1>17, MoveKeeps DEF Save, Goto
<1>18. CASE SaveFails
  BY <1>18, FailKeeps DEF SaveFails
<1>5. CASE FitsAlready
  BY <1>5, RetainKeeps DEF FitsAlready
<1>6. CASE ProtectedTooBig
  BY <1>6, RetainKeeps DEF ProtectedTooBig, Overfull
<1>7. CASE NothingReducible
  BY <1>7, RetainKeeps DEF NothingReducible, Proposing, Overfull
<1>8. CASE Propose
  BY <1>8, MoveKeeps DEF Propose, Proposing, Overfull, Goto
<1>9. CASE AskScorer
  BY <1>9, MoveKeeps DEF AskScorer
<1>10. CASE Check
  <2>1. CASE Fail("canceled") /\ UNCHANGED archive
    BY <1>10, <2>1, FailKeeps DEF Check
  <2>2. CASE Retain("scoring_failed", [NoStats EXCEPT !.protected =
                Cardinality(DOMAIN groups \ Candidates)])
    BY <1>10, <2>2, RetainKeeps DEF Check
  <2>3. CASE pc' = "select" /\ UNCHANGED <<request, req, archive, result>>
    BY <1>10, <2>3, MoveKeeps DEF Check
  <2> QED
    BY <1>10, <2>1, <2>2, <2>3 DEF Check
<1>11. CASE SelectStep
  BY <1>11, MoveKeeps DEF SelectStep
<1>12. CASE SelectDone
  BY <1>12, MoveKeeps DEF SelectDone, Goto
<1>13. CASE SelectCanceled
  BY <1>13, FailKeeps DEF SelectCanceled
<1>14. CASE Finish
  <2>1. CASE Fail("canceled") /\ UNCHANGED archive
    BY <1>14, <2>1, FailKeeps DEF Finish
  <2>2. CASE Retain("budget_unmet", Stats(Choice))
    BY <1>14, <2>2, RetainKeeps DEF Finish
  <2>3. CASE /\ pc' = "done" /\ result'.applied
             /\ UNCHANGED <<request, req, archive, asked>>
    BY <1>14, <2>3 DEF Finish, EngineInv, ControlInv, RetainedInv, Pcs
  <2> QED
    BY <1>14, <2>1, <2>2, <2>3 DEF Finish
<1>15. CASE Cancel
  BY <1>15 DEF Cancel, EngineInv, ControlInv, RetainedInv, Before
<1>16. CASE UNCHANGED vars
  BY <1>16 DEF vars, EngineInv, ControlInv, RetainedInv, Before
<1> QED
  BY <1>1, <1>2, <1>3, <1>4, <1>5, <1>6, <1>7, <1>8, <1>9, <1>10, <1>11, <1>12,
     <1>13, <1>14, <1>15, <1>16, <1>17, <1>18 DEF Next, Compact

(***************************************************************************)
(* No scorer call and no result before the request is archived, whatever   *)
(* fails and whenever the caller cancels (Compact, types.go:108).          *)
(***************************************************************************)
THEOREM ArchiveComesFirst == Spec => []ArchivedFirst
<1>1. EngineInv => ArchivedFirst
  BY DEF EngineInv, ControlInv, Archived, ArchivedFirst
<1> QED
  BY <1>1, InvInit, InvStep, PTL DEF Spec

(***************************************************************************)
(* A result that is not applied is the copied history, undecided and as    *)
(* long as before, for every reply of the scorer (Compact, types.go:145).  *)
(***************************************************************************)
THEOREM FailureIsClosed == Spec => []FailClosed
<1>1. EngineInv => FailClosed
  BY DEF EngineInv, ControlInv, RetainedInv, FailClosed
<1> QED
  BY <1>1, InvInit, InvStep, PTL DEF Spec

-----------------------------------------------------------------------------
\* Groups: components, their order, and what the copy keeps.

\* The components of a graph are a partition: a set that no link leaves has a
\* complement that no link leaves.
LEMMA ComponentFacts ==
    ASSUME NEW I, NEW L \in SUBSET (I \X I)
    PROVE  /\ \A i \in I : i \in Component(L, I, i) /\ Component(L, I, i) \subseteq I
           /\ \A i, j \in I : j \in Component(L, I, i) =>
                  Component(L, I, j) = Component(L, I, i)
           /\ \A l \in L : l[1] \in I /\ l[2] \in Component(L, I, l[1])
<1>1. \A l \in L : l[1] \in I /\ l[2] \in I
  OBVIOUS
<1>2. ASSUME NEW i \in I, NEW j \in Component(L, I, i), NEW S \in SUBSET I, Closed(L, S)
      PROVE  i \in S <=> j \in S
  <2>1. Closed(L, I \ S) /\ I \ S \in SUBSET I
    BY <1>1, <1>2 DEF Closed
  <2>2. j \in I
    BY DEF Component
  <2> QED
    BY <1>2, <2>1, <2>2 DEF Component
<1>3. ASSUME NEW i \in I, NEW j \in I, j \in Component(L, I, i)
      PROVE  Component(L, I, j) = Component(L, I, i)
  BY <1>2, <1>3 DEF Component
<1>4. ASSUME NEW l \in L PROVE l[2] \in Component(L, I, l[1])
  BY <1>1 DEF Component, Closed
<1> QED
  BY <1>1, <1>3, <1>4 DEF Component

LEMMA LeastExists ==
    ASSUME NEW S \in SUBSET Nat, S # {}
    PROVE  \E m \in S : \A k \in S : m <= k
<1>1. IsWellFoundedOn(OpToRel(<, Nat), Nat)
  BY NatLessThanWellFounded
<1>2. PICK m \in S : \A k \in S : ~(<<k, m>> \in OpToRel(<, Nat))
  BY <1>1, WFMin
<1>3. \A k \in S : ~(k < m)
  BY <1>2 DEF OpToRel
<1> QED
  BY <1>3

\* InOrder lists each member once, the smaller ones first.
Lists(o, S) ==
    /\ Cardinality(S) \in Nat
    /\ o \in [1..Cardinality(S) -> S]
    /\ \A i \in S : \E k \in 1..Cardinality(S) : o[k] = i
    /\ \A j, k \in 1..Cardinality(S) : j < k => o[j] < o[k]

LEMMA InOrderFacts ==
    ASSUME NEW S \in SUBSET Nat, IsFiniteSet(S) PROVE Lists(InOrder(S), S)
<1> DEFINE N == Cardinality(S)
           below(i) == {j \in S : j < i}
           rank == [i \in S |-> Cardinality(below(i)) + 1]
<1>1. N \in Nat
  BY FS_CardinalityType
<1>2. ASSUME NEW i \in S
      PROVE  IsFiniteSet(below(i)) /\ Cardinality(below(i)) \in Nat
             /\ Cardinality(below(i)) < N
  <2>1. below(i) \in SUBSET S /\ below(i) # S
    OBVIOUS
  <2> HIDE DEF below
  <2>2. IsFiniteSet(below(i)) /\ Cardinality(below(i)) <= N /\ Cardinality(below(i)) # N
    BY <2>1, FS_Subset
  <2> QED
    BY <1>1, <2>2, FS_CardinalityType
<1>3. rank \in [S -> 1..N]
  <2> HIDE DEF below, N
  <2> QED
    BY <1>1, <1>2
<1>4. ASSUME NEW i \in S, NEW j \in S, i < j PROVE rank[i] < rank[j]
  <2>1. below(i) \cup {i} \in SUBSET below(j) /\ i \notin below(i)
    <3>1. i \in Int /\ j \in Int /\ \A k \in S : k \in Int
      OBVIOUS
    <3>2. \A k \in S : k < i => k < j
      BY <1>4, <3>1
    <3>3. ~(i < i)
      BY <3>1
    <3> QED
      BY <1>4, <3>2, <3>3
  <2> HIDE DEF below
  <2>2. Cardinality(below(i) \cup {i}) = Cardinality(below(i)) + 1
    BY <1>2, <2>1, FS_AddElement
  <2>3. Cardinality(below(i) \cup {i}) <= Cardinality(below(j))
    BY <1>2, <2>1, FS_Subset
  <2> QED
    BY <1>2, <2>2, <2>3
<1>5. \A i, j \in S : rank[i] = rank[j] => i = j
  <2> HIDE DEF rank
  <2>1. \A i \in S : rank[i] \in Nat
    BY <1>1, <1>3
  <2> QED
    BY <1>4, <2>1
<1>6. IsFiniteSet(1..N) /\ Cardinality(1..N) = N
  BY <1>1, FS_Interval
<1>7. rank \in Injection(S, 1..N)
  <2> HIDE DEF rank
  <2> QED
    BY <1>3, <1>5 DEF Injection, IsInjective
<1>8. \A k \in 1..N : \E i \in S : rank[i] = k
  <2> HIDE DEF rank
  <2>1. rank \in Surjection(S, 1..N)
    BY <1>6, <1>7, FS_Injection
  <2> QED
    BY <2>1 DEF Surjection
<1> DEFINE o == InOrder(S)
<1>9. ASSUME NEW k \in 1..N PROVE o[k] \in S /\ rank[o[k]] = k
  <2>1. o[k] = CHOOSE i \in S : Cardinality({j \in S : j < i}) = k - 1
    BY DEF InOrder
  <2>2. PICK i \in S : rank[i] = k
    BY <1>8
  <2>3. Cardinality({j \in S : j < i}) = k - 1
    BY <1>2, <2>2
  <2>4. o[k] \in S /\ Cardinality({j \in S : j < o[k]}) = k - 1
    BY <2>1, <2>3
  <2> QED
    BY <1>1, <2>4
<1>10. o \in [1..N -> S]
  BY <1>9 DEF InOrder
<1> HIDE DEF o, rank, N
<1>11. \A i \in S : \E k \in 1..N : o[k] = i
  BY <1>3, <1>5, <1>9
<1>12. \A j, k \in 1..N : j < k => o[j] < o[k]
  <2> SUFFICES ASSUME NEW j \in 1..N, NEW k \in 1..N, j < k, ~(o[j] < o[k])
               PROVE  FALSE
    OBVIOUS
  <2>1. o[j] \in S /\ o[k] \in S /\ o[j] \in Nat /\ o[k] \in Nat
    BY <1>9
  <2>2. rank[o[j]] = j /\ rank[o[k]] = k /\ j \in Nat /\ k \in Nat
    BY <1>1, <1>9
  <2>3. CASE o[k] < o[j]
    BY <1>4, <2>1, <2>2, <2>3
  <2>4. CASE o[k] = o[j]
    BY <2>2, <2>4
  <2> QED
    BY <2>1, <2>3, <2>4
<1> QED
  BY <1>1, <1>10, <1>11, <1>12 DEF Lists, o, N

\* The groups split the messages I of a transcript.
Split(I, gs) ==
    /\ DOMAIN gs \subseteq I
    /\ \A g \in DOMAIN gs : gs[g].members \subseteq I /\ g \in gs[g].members
    /\ \A i \in I : \E g \in DOMAIN gs : i \in gs[g].members
    /\ \A g, h \in DOMAIN gs : \A i \in gs[g].members \cap gs[h].members : g = h

\* What the engine relies on of the groups of a request.
IsGrouping(r, gs) ==
    /\ Split(Indices(r), gs)
    /\ \A g \in DOMAIN gs : gs[g].protected = Protected(r, gs[g].members)
    /\ \A l \in Links(r) : \A g \in DOMAIN gs :
          l[1] \in gs[g].members <=> l[2] \in gs[g].members

LEMMA CollectFacts ==
    ASSUME NEW r, IsRequest(r) PROVE IsGrouping(r, Collect(r))
<1> DEFINE I == Indices(r)
           gs == Collect(r)
<1>1. I = 1..Len(r.messages) /\ Len(r.messages) \in Nat
  BY DEF IsRequest
<1>2. Links(r) \in SUBSET (I \X I)
  BY DEF Links, DependencyLinks, LabelLinks, AnswerLinks, Pairs
<1>3. /\ \A i \in I : i \in Block(r, i) /\ Block(r, i) \subseteq I
      /\ \A i, j \in I : j \in Block(r, i) => Block(r, j) = Block(r, i)
      /\ \A l \in Links(r) : l[1] \in I /\ l[2] \in Block(r, l[1])
  BY <1>2, ComponentFacts DEF Block
<1>4. gs = [g \in {i \in I : \A j \in Block(r, i) : i <= j} |->
              [members |-> Block(r, g), protected |-> Protected(r, Block(r, g))]]
  BY DEF Collect
<1>5. /\ \A g \in DOMAIN gs : /\ g \in I /\ gs[g].members = Block(r, g)
                              /\ gs[g].protected = Protected(r, Block(r, g))
      /\ \A g \in I : g \in DOMAIN gs <=> \A j \in Block(r, g) : g <= j
  BY <1>4
<1> HIDE DEF gs
<1>6. ASSUME NEW i \in I PROVE \E g \in DOMAIN gs : i \in gs[g].members
  <2>1. Block(r, i) \in SUBSET Nat /\ Block(r, i) # {}
    BY <1>1, <1>3
  <2>2. PICK m \in Block(r, i) : \A k \in Block(r, i) : m <= k
    BY <2>1, LeastExists
  <2>3. m \in I /\ Block(r, m) = Block(r, i)
    BY <1>3
  <2> QED
    BY <1>3, <1>5, <2>2, <2>3
<1>7. ASSUME NEW g \in DOMAIN gs, NEW h \in DOMAIN gs,
             NEW i \in gs[g].members \cap gs[h].members
      PROVE  g = h
  <2>1. g \in I /\ h \in I /\ i \in I /\ Block(r, g) = Block(r, h)
    BY <1>3, <1>5
  <2>2. g <= h /\ h <= g
    BY <1>3, <1>5, <2>1
  <2> QED
    BY <1>1, <2>1, <2>2
<1>8. ASSUME NEW l \in Links(r), NEW g \in DOMAIN gs
      PROVE  l[1] \in gs[g].members <=> l[2] \in gs[g].members
  <2>1. l[1] \in I /\ l[2] \in I /\ Block(r, l[1]) = Block(r, l[2]) /\ g \in I
    BY <1>3, <1>5
  <2> QED
    BY <1>3, <1>5, <2>1
<1> QED
  BY <1>3, <1>5, <1>6, <1>7, <1>8 DEF IsGrouping, Split, gs

HomeOf(gs, i) == CHOOSE g \in DOMAIN gs : i \in gs[g].members

LEMMA HomeFacts ==
    ASSUME NEW I, NEW gs, Split(I, gs)
    PROVE  \A i \in I :
               /\ HomeOf(gs, i) \in DOMAIN gs /\ i \in gs[HomeOf(gs, i)].members
               /\ \A g \in DOMAIN gs : i \in gs[g].members <=> g = HomeOf(gs, i)
BY DEF HomeOf, Split

\* The copy differs from the request in the form of the arguments only.
Alike(m, c) ==
    /\ c.id = m.id /\ c.role = m.role /\ c.wellFormed = m.wellFormed /\ c.calls = m.calls
    /\ c.result = m.result /\ c.pinned = m.pinned /\ c.unresolved = m.unresolved
    /\ c.group = m.group /\ c.deps = m.deps /\ c.prose = m.prose
    /\ c.tok = m.tok /\ c.short = m.short

LEMMA CloneFacts ==
    ASSUME NEW r, IsRequest(r)
    PROVE  LET c == Clone(r) IN
           /\ c.target = r.target /\ c.partial = r.partial /\ c.individually = r.individually
           /\ Len(c.messages) = Len(r.messages) /\ Indices(c) = Indices(r)
           /\ IsRequest(c)
           /\ \A i \in Indices(r) : Alike(r.messages[i], c.messages[i])
<1> DEFINE c == Clone(r)
           ms == [i \in Indices(r) |-> [r.messages[i] EXCEPT !.raw = FALSE]]
<1>1. /\ c.target = r.target /\ c.partial = r.partial /\ c.individually = r.individually
      /\ c.messages = ms /\ DOMAIN c = DOMAIN r
  BY DEF Clone, IsRequest
<1>2. DOMAIN ms = 1..Len(r.messages) /\ Len(r.messages) \in Nat
  BY DEF IsRequest
<1>3. Len(ms) = Len(r.messages)
  BY <1>2
<1>4. ASSUME NEW i \in Indices(r)
      PROVE  Alike(r.messages[i], ms[i]) /\ IsMessage(ms[i])
  BY DEF IsRequest, IsMessage, Alike, Calls
<1>5. Indices(c) = Indices(r)
  BY <1>1 DEF Indices
<1> HIDE DEF c, ms
<1>6. IsRequest(c)
  BY <1>1, <1>2, <1>3, <1>4, <1>5 DEF IsRequest
<1> QED
  BY <1>1, <1>3, <1>4, <1>5, <1>6 DEF c

-----------------------------------------------------------------------------
\* Sizes: the transcript's is the sum of its groups'.

SP == INSTANCE Selection_proofs WITH Cases <- {}

\* Selection's sums and finite sets are those of this module; its proofs assume that
\* the problems it enumerates are well formed, and here it enumerates none.
LEMMA SameNotions ==
    /\ \A f : SP!SumFunction(f) = SumFunction(f)
    /\ \A S : SP!IsFiniteSet(S) <=> IsFiniteSet(S)
    /\ \A c \in {} : SP!IsInput(c)
<1>1. ASSUME NEW f PROVE SP!SumFunction(f) = SumFunction(f)
  BY DEF SumFunction, SumFunctionOnSet, FoldFunctionOnSet, MapThenFoldSet, SP!SumFunction,
         SP!SumFunctionOnSet, SP!FoldFunctionOnSet, SP!MapThenFoldSet
<1>2. ASSUME NEW S PROVE SP!IsFiniteSet(S) <=> IsFiniteSet(S)
  BY DEF IsFiniteSet, SP!IsFiniteSet
<1> QED
  BY <1>1, <1>2

Forms == {"keep", "extract", "brief", "reference", "drop"}
IsChoice(gs, form) == DOMAIN form = DOMAIN gs /\ \A g \in DOMAIN gs : form[g] \in Forms

\* The messages that a choice of representations leaves in the transcript.
Stays(I, gs, form) == {i \in I : form[HomeOf(gs, i)] # "drop"}

LEMMA RewriteFacts ==
    ASSUME NEW r, IsRequest(r), NEW gs, NEW form
    PROVE  LET S == Stays(Indices(r), gs, form)
               o == InOrder(S) IN
           /\ Lists(o, S)
           /\ Rewrite(r, gs, form) =
                  [k \in 1..Cardinality(S) |->
                      Represent(r.messages[o[k]], form[HomeOf(gs, o[k])])]
<1> DEFINE S == Stays(Indices(r), gs, form)
<1>1. S \in SUBSET Nat /\ IsFiniteSet(S)
  <2>1. Indices(r) = 1..Len(r.messages) /\ Len(r.messages) \in Nat
    BY DEF IsRequest
  <2>2. IsFiniteSet(Indices(r))
    BY <2>1, FS_Interval
  <2>3. S \subseteq Indices(r)
    BY DEF Stays
  <2> HIDE DEF S
  <2> QED
    BY <2>1, <2>2, <2>3, FS_Subset
<1>2. Lists(InOrder(S), S)
  <2> HIDE DEF S
  <2> QED
    BY <1>1, InOrderFacts
<1>3. Rewrite(r, gs, form) =
          [k \in DOMAIN InOrder(S) |->
              Represent(r.messages[InOrder(S)[k]], form[HomeOf(gs, InOrder(S)[k])])]
  BY DEF Rewrite, HomeOf, Stays
<1> HIDE DEF S
<1>4. DOMAIN InOrder(S) = 1..Cardinality(S)
  BY <1>2 DEF Lists
<1> QED
  BY <1>2, <1>3, <1>4 DEF S

-----------------------------------------------------------------------------
\* Sizes are natural numbers.

LEMMA SizeFacts ==
    ASSUME NEW m, IsMessage(m), NEW a \in Forms, a # "drop"
    PROVE  SizeOf(Represent(m, a)) \in Nat
BY DEF Forms, IsMessage, SizeOf, Represent

LEMMA SumIsNat ==
    ASSUME NEW S, IsFiniteSet(S), NEW f \in [S -> Nat]
    PROVE  SumFunction(f) \in Nat
<1> DEFINE z == [x \in S |-> 0]
<1>1. z \in [S -> Int] /\ f \in [S -> Int]
  OBVIOUS
<1>2. \A x \in S : z[x] = 0 /\ z[x] <= f[x]
  OBVIOUS
<1> HIDE DEF z
<1>3. PICK u : SP!Adds(u, S, z) /\ SumFunction(z) = u[S]
  BY <1>1, SameNotions, SP!SumAdds
<1>4. S \in SUBSET S
  OBVIOUS
<1>5. u[S] = 0
  BY <1>1, <1>2, <1>3, <1>4, SameNotions, SP!SumVanishes
<1>6. SumFunction(z) <= SumFunction(f)
  BY <1>1, <1>2, SameNotions, SP!SumBound
<1>7. SumFunction(f) \in Int
  BY <1>1, SameNotions, SP!SumType
<1> QED
  BY <1>3, <1>5, <1>6, <1>7

LEMMA GroupSizeFacts ==
    ASSUME NEW r, IsRequest(r), NEW B \in SUBSET Indices(r), NEW a \in Forms
    PROVE  GroupSize(r, B, a) \in Nat
<1>1. IsFiniteSet(B)
  <2>1. Indices(r) = 1..Len(r.messages) /\ Len(r.messages) \in Nat
    BY DEF IsRequest
  <2>2. IsFiniteSet(Indices(r))
    BY <2>1, FS_Interval
  <2> QED
    BY <2>2, FS_Subset
<1>2. CASE a = "drop"
  BY <1>2 DEF GroupSize
<1>3. CASE a # "drop"
  <2> DEFINE f == [i \in B |-> SizeOf(Represent(r.messages[i], a))]
  <2>1. f \in [B -> Nat]
    BY <1>3, SizeFacts DEF IsRequest
  <2>2. GroupSize(r, B, a) = SumFunction(f)
    BY <1>3 DEF GroupSize
  <2> HIDE DEF f
  <2> QED
    BY <1>1, <2>1, <2>2, SumIsNat
<1> QED
  BY <1>2, <1>3

-----------------------------------------------------------------------------
\* The size of a rewritten transcript is the sum of the sizes of its groups.

LEMMA SumByGroup ==
    ASSUME NEW I, IsFiniteSet(I), NEW gs, Split(I, gs),
           NEW w \in [I -> Int], NEW u, SP!Adds(u, I, w),
           NEW h \in [DOMAIN gs -> Int], \A g \in DOMAIN gs : h[g] = u[gs[g].members]
    PROVE  SumFunction(h) = u[I]
<1> DEFINE b == [i \in I |-> HomeOf(gs, i)]
           C == [g \in DOMAIN gs |-> gs[g].members]
<1>1. IsFiniteSet(DOMAIN gs)
  BY FS_Subset DEF Split
<1>2. b \in [I -> DOMAIN gs] /\ C \in [DOMAIN gs -> SUBSET I]
  BY HomeFacts DEF Split
<1>3. \A g \in DOMAIN gs : \A i \in I : i \in C[g] <=> b[i] = g
  BY HomeFacts
<1>4. \A g \in DOMAIN gs : h[g] = u[C[g]]
  OBVIOUS
<1> HIDE DEF b, C
<1> QED
  BY <1>1, <1>2, <1>3, <1>4, SameNotions, SP!SumByClass

LEMMA CountByGroup ==
    ASSUME NEW r, IsRequest(r), NEW gs, Split(Indices(r), gs),
           NEW form, IsChoice(gs, form)
    PROVE  Count(Rewrite(r, gs, form)) =
               SumFunction([g \in DOMAIN gs |-> GroupSize(r, gs[g].members, form[g])])
<1> DEFINE I == Indices(r)
           S == Stays(I, gs, form)
           N == Cardinality(S)
           o == InOrder(S)
           size(i) == SizeOf(Represent(r.messages[i], form[HomeOf(gs, i)]))
           w == [i \in I |-> IF i \in S THEN size(i) ELSE 0]
           h == [g \in DOMAIN gs |-> GroupSize(r, gs[g].members, form[g])]
           out == Rewrite(r, gs, form)
<1>1. IsFiniteSet(I) /\ S \in SUBSET I /\ IsFiniteSet(S)
  <2>1. I = 1..Len(r.messages) /\ Len(r.messages) \in Nat
    BY DEF IsRequest
  <2>2. IsFiniteSet(I) /\ S \in SUBSET I
    BY <2>1, FS_Interval DEF Stays
  <2> HIDE DEF I, S
  <2> QED
    BY <2>2, FS_Subset
<1>2. \A i \in I : i \in S <=> form[HomeOf(gs, i)] # "drop"
  BY DEF Stays
<1>3. \A i \in I : /\ HomeOf(gs, i) \in DOMAIN gs
                   /\ form[HomeOf(gs, i)] \in Forms /\ IsMessage(r.messages[i])
                   /\ \A g \in DOMAIN gs : i \in gs[g].members <=> g = HomeOf(gs, i)
  BY HomeFacts DEF IsChoice, IsRequest
<1> HIDE DEF S
<1>4. w \in [I -> Int] /\ \A i \in S : size(i) \in Nat /\ w[i] = size(i)
  <2>1. \A i \in S : size(i) \in Nat
    BY <1>1, <1>2, <1>3, SizeFacts
  <2> HIDE DEF size
  <2> QED
    BY <1>1, <2>1
<1>5. PICK u : SP!Adds(u, I, w)
  <2> HIDE DEF w
  <2> QED
    BY <1>1, <1>4, SameNotions, SP!SumAdds
<1>6. ASSUME NEW g \in DOMAIN gs
      PROVE  h[g] = u[gs[g].members] /\ h[g] \in Int
  <2> DEFINE B == gs[g].members
  <2>1. B \in SUBSET I /\ form[g] \in Forms /\ \A i \in B : HomeOf(gs, i) = g
    BY <1>3 DEF Split, IsChoice
  <2>2. h[g] = GroupSize(r, B, form[g]) /\ h[g] \in Int
    BY <2>1, GroupSizeFacts
  <2>3. CASE form[g] = "drop"
    <3>1. \A i \in B : w[i] = 0
      BY <1>2, <2>1, <2>3
    <3>2. h[g] = 0
      BY <2>2, <2>3 DEF GroupSize
    <3>3. u[B] = 0
      <4> HIDE DEF B, w, I
      <4> QED
        BY <1>1, <1>4, <1>5, <2>1, <3>1, SameNotions, SP!SumVanishes
    <3> QED
      BY <2>2, <3>2, <3>3
  <2>4. CASE form[g] # "drop"
    <3> DEFINE f == [i \in B |-> SizeOf(Represent(r.messages[i], form[g]))]
    <3>1. h[g] = SumFunction(f)
      BY <2>2, <2>4 DEF GroupSize
    <3>2. \A i \in B : i \in S /\ f[i] = w[i] /\ f[i] \in Int
      BY <1>2, <1>4, <2>1, <2>4
    <3>3. f \in [B -> Int]
      BY <3>2
    <3>4. SumFunction(f) = u[B]
      <4> HIDE DEF B, w, I, f
      <4> QED
        BY <1>1, <1>4, <1>5, <2>1, <3>2, <3>3, SameNotions, SP!SumOn
    <3> QED
      BY <2>2, <3>1, <3>4
  <2> QED
    BY <2>3, <2>4
<1>7. SumFunction(h) = u[I]
  <2>1. h \in [DOMAIN gs -> Int]
    BY <1>6
  <2> HIDE DEF h, w, I
  <2> QED
    BY <1>1, <1>4, <1>5, <1>6, <2>1, SumByGroup DEF I
<1>8. u[I] = u[S]
  <2>1. I \ S \in SUBSET I /\ S \cap (I \ S) = {} /\ S \cup (I \ S) = I
    BY <1>1
  <2>2. \A i \in I \ S : w[i] = 0
    OBVIOUS
  <2>6. u[S \cup (I \ S)] = u[I]
    BY <2>1
  <2> HIDE DEF w, I
  <2>3. u[S \cup (I \ S)] = u[S] + u[I \ S]
    BY <1>1, <1>4, <1>5, <2>1, SameNotions, SP!SumSplit
  <2>4. u[I \ S] = 0
    BY <1>1, <1>4, <1>5, <2>1, <2>2, SameNotions, SP!SumVanishes
  <2>5. u[S] \in Int
    BY <1>1, <1>5 DEF SP!Adds
  <2> QED
    BY <2>3, <2>4, <2>5, <2>6
<1> DEFINE v == [i \in S |-> size(i)]
           c == [k \in 1..N |-> SizeOf(out[k])]
<1>9. v \in [S -> Int] /\ \A i \in S : v[i] = w[i]
  <2> HIDE DEF size, w
  <2> QED
    BY <1>4
<1>10. u[S] = SumFunction(v)
  <2> HIDE DEF v, w, I
  <2> QED
    BY <1>1, <1>4, <1>5, <1>9, SameNotions, SP!SumOn
<1>11. /\ Lists(o, S)
       /\ out = [k \in 1..N |-> Represent(r.messages[o[k]], form[HomeOf(gs, o[k])])]
  BY RewriteFacts DEF S
<1>12. Count(out) = SumFunction(c)
  BY <1>11 DEF Count
<1>13. SumFunction(c) = SumFunction(v)
  <2> DEFINE K == 1..N
  <2>1. \A k \in K : o[k] \in S /\ c[k] = v[o[k]]
    BY <1>11 DEF Lists
  <2>2. c \in [K -> Int]
    <3> HIDE DEF v
    <3> QED
      BY <1>9, <2>1
  <2>3. /\ N \in Nat /\ o \in [K -> S] /\ \A i \in S : \E k \in K : o[k] = i
        /\ \A j, k \in K : j < k => o[j] < o[k]
    BY <1>11 DEF Lists
  <2>4. \A j, k \in K : o[j] = o[k] => j = k
    <3>1. \A i \in S : ~(i < i)
      BY <1>1 DEF IsRequest
    <3> HIDE DEF o, N
    <3> QED
      BY <2>3, <3>1
  <2>5. IsFiniteSet(K)
    BY <2>3, FS_Interval
  <2>6. o \in [K -> S] /\ \A i \in S : \E k \in K : o[k] = i
    BY <2>3
  <2>7. \A k \in K : c[k] = v[o[k]]
    BY <2>1
  <2> HIDE DEF c, v, o, K
  <2> QED
    BY <1>1, <1>9, <2>2, <2>4, <2>5, <2>6, <2>7, SameNotions, SP!SumRenumbered
<1> QED
  BY <1>7, <1>8, <1>10, <1>12, <1>13

LEMMA WholeByGroup ==
    ASSUME NEW r, IsRequest(r), NEW gs, Split(Indices(r), gs)
    PROVE  Count(r.messages) =
               SumFunction([g \in DOMAIN gs |-> GroupSize(r, gs[g].members, "keep")])
<1> DEFINE I == Indices(r)
           w == [i \in I |-> SizeOf(r.messages[i])]
           h == [g \in DOMAIN gs |-> GroupSize(r, gs[g].members, "keep")]
<1>1. IsFiniteSet(I)
  BY FS_Interval DEF IsRequest
<1>2. \A i \in I : Represent(r.messages[i], "keep") = r.messages[i]
  BY DEF Represent
<1>3. w \in [I -> Int]
  BY SizeFacts, <1>2 DEF IsRequest, Forms
<1>4. Count(r.messages) = SumFunction(w)
  BY DEF Count, Indices
<1> HIDE DEF w
<1>5. PICK u : SP!Adds(u, I, w) /\ SumFunction(w) = u[I]
  BY <1>1, <1>3, SameNotions, SP!SumAdds
<1>6. ASSUME NEW g \in DOMAIN gs
      PROVE  h[g] = u[gs[g].members] /\ h[g] \in Int
  <2> DEFINE B == gs[g].members
             f == [i \in B |-> SizeOf(Represent(r.messages[i], "keep"))]
  <2>1. B \in SUBSET I
    BY DEF Split
  <2>2. h[g] = SumFunction(f)
    BY DEF GroupSize
  <2>3. h[g] \in Int
    BY <2>1, GroupSizeFacts DEF Forms
  <2>4. \A i \in B : f[i] = w[i]
    BY <1>2, <2>1 DEF w
  <2>5. f \in [B -> Int]
    BY <1>3, <2>1, <2>4
  <2>6. SumFunction(f) = u[B]
    <3> HIDE DEF B, I, f
    <3> QED
      BY <1>1, <1>3, <1>5, <2>1, <2>4, <2>5, SameNotions, SP!SumOn
  <2> QED
    BY <2>2, <2>3, <2>6
<1>7. h \in [DOMAIN gs -> Int]
  BY <1>6
<1>8. SumFunction(h) = u[I]
  <2> HIDE DEF h, I
  <2> QED
    BY <1>1, <1>3, <1>5, <1>6, <1>7, SumByGroup DEF I
<1> QED
  BY <1>4, <1>5, <1>8

-----------------------------------------------------------------------------
\* The loop within the engine is the loop of which Selection's proofs speak.

LEMMA SameTerms ==
    /\ Sel!Actions = SP!Actions /\ Sel!Percent = SP!Percent
    /\ \A s, a : Sel!Allowed(s, a) <=> SP!Allowed(s, a)
    /\ \A c : Sel!Keeping(c) = SP!Keeping(c)
BY DEF Sel!Actions, SP!Actions, Sel!Percent, SP!Percent, Sel!Allowed, SP!Allowed,
       Sel!Retain, SP!Retain, Sel!MaxLoss, SP!MaxLoss, Sel!Keeping, SP!Keeping,
       Sel!Whole, SP!Whole

LEMMA SameMoves ==
    /\ Sel!Open = SP!Open
    /\ \A m : Sel!After(m) = SP!After(m) /\ Sel!Saving(m) = SP!Saving(m)
<1>1. \A s, a : Sel!LossOf(s, a) = SP!LossOf(s, a)
  BY DEF Sel!LossOf, SP!LossOf, Sel!KeepLoss, SP!KeepLoss, Sel!LegacyLoss, SP!LegacyLoss,
         Sel!Larger, SP!Larger
<1>2. \A m : Sel!After(m) = SP!After(m)
  BY <1>1 DEF Sel!After, SP!After, Sel!Variant, SP!Variant
<1>3. \A g : Sel!Permitted(input, g) = SP!Permitted(input, g)
  BY SameTerms DEF Sel!Permitted, SP!Permitted
<1>4. Sel!Move = SP!Move
  BY SameTerms DEF Sel!Move, SP!Move
<1>5. Sel!Open = SP!Open
  BY <1>2, <1>3, <1>4 DEF Sel!Open, SP!Open
<1> QED
  BY <1>2, <1>5 DEF Sel!Saving, SP!Saving

LEMMA ReduceApplies == Sel!Reduce => SP!Applied
BY SameMoves DEF Sel!Reduce, SP!Applied

-----------------------------------------------------------------------------
\* What is known of the data once the request has been validated and copied.

DataInv ==
    /\ request \in Requests /\ Valid(request)
    /\ req = Clone(request)
    /\ groups = Collect(request)

DataFacts ==
    /\ IsRequest(request) /\ IsRequest(req) /\ Valid(request)
    /\ Indices(req) = Indices(request) /\ IsFiniteSet(DOMAIN groups)
    /\ DOMAIN groups \subseteq Nat
    /\ \A i \in Indices(request) : Alike(request.messages[i], req.messages[i])
    /\ req.target = request.target /\ req.target \in Nat
    /\ req.partial = request.partial /\ req.individually = request.individually
    /\ IsGrouping(request, groups) /\ Split(Indices(req), groups)
    /\ \A g \in DOMAIN groups : \A a \in Forms :
          GroupSize(req, groups[g].members, a) \in Nat
    /\ Before \in Nat
    /\ Before =
          SumFunction([g \in DOMAIN groups |-> GroupSize(req, groups[g].members, "keep")])

LEMMA DataMeans == DataInv => DataFacts
<1> SUFFICES ASSUME DataInv PROVE DataFacts
  OBVIOUS
<1>1. IsRequest(request) /\ Valid(request)
  BY RequestsAssumption DEF DataInv
<1>2. /\ Indices(req) = Indices(request) /\ IsRequest(req)
      /\ \A i \in Indices(request) : Alike(request.messages[i], req.messages[i])
      /\ req.target = request.target
      /\ req.partial = request.partial /\ req.individually = request.individually
  BY <1>1, CloneFacts DEF DataInv
<1>3. IsGrouping(request, groups) /\ Split(Indices(req), groups)
  BY <1>1, <1>2, CollectFacts DEF DataInv, IsGrouping
<1>4. req.target \in Nat
  <2>1. request.target >= 1 /\ request.target \in Int
    BY <1>1 DEF Valid, Plausible, IsRequest
  <2> QED
    BY <1>2, <2>1
<1>5. \A g \in DOMAIN groups : \A a \in Forms :
          GroupSize(req, groups[g].members, a) \in Nat
  BY <1>2, <1>3, GroupSizeFacts DEF Split
<1>6. IsFiniteSet(DOMAIN groups) /\ DOMAIN groups \subseteq Nat
  <2>1. Indices(req) = 1..Len(req.messages) /\ Len(req.messages) \in Nat
    BY <1>2 DEF IsRequest
  <2>2. DOMAIN groups \subseteq Indices(req)
    BY <1>3 DEF Split
  <2>3. IsFiniteSet(Indices(req)) /\ Indices(req) \subseteq Nat
    BY <2>1, FS_Interval
  <2> QED
    BY <2>2, <2>3, FS_Subset
<1> DEFINE h == [g \in DOMAIN groups |-> GroupSize(req, groups[g].members, "keep")]
<1>7. Before = SumFunction(h)
  BY <1>2, <1>3, WholeByGroup DEF Before
<1>8. h \in [DOMAIN groups -> Nat]
  BY <1>5 DEF Forms
<1>9. Before \in Nat
  <2> HIDE DEF h
  <2> QED
    BY <1>6, <1>7, <1>8, SumIsNat
<1> QED
  BY <1>1, <1>2, <1>3, <1>4, <1>5, <1>6, <1>7, <1>9 DEF DataFacts

\* The problem handed to the selection loop is one that it can solve.
LEMMA ProblemIsInput ==
    ASSUME DataFacts, NEW scores, \A g \in Candidates : ValidScore(g, scores[g])
    PROVE  SP!IsInput(Problem(scores))
<1> DEFINE c == Problem(scores)
<1>1. /\ c.groups = DOMAIN groups /\ c.protected = DOMAIN groups \ Candidates
      /\ c.cost = [g \in DOMAIN groups |-> GroupSize(req, groups[g].members, "keep")]
      /\ c.offer = [g \in DOMAIN groups |-> {a \in Sel!Actions :
             g \in Candidates /\ Proposed(req, groups[g].members, a)}]
      /\ c.size = [g \in DOMAIN groups |->
             [a \in Sel!Actions |-> GroupSize(req, groups[g].members, a)]]
      /\ c.score = [g \in DOMAIN groups |->
             IF g \in Candidates THEN scores[g] ELSE NoScore]
      /\ c.target = req.target
  BY DEF Problem
<1>2. \A g \in DOMAIN groups : \A a \in Sel!Actions \cup {"keep"} :
          GroupSize(req, groups[g].members, a) \in Nat
  BY DEF DataFacts, Forms, Sel!Actions
<1> HIDE DEF c
<1>3. c.groups \subseteq Nat /\ SP!IsFiniteSet(c.groups) /\ c.target \in Nat
  BY <1>1, SameNotions DEF DataFacts
<1>4. /\ c.cost \in [c.groups -> Nat] /\ c.protected \subseteq c.groups
      /\ c.offer \in [c.groups -> SUBSET SP!Actions]
      /\ c.size \in [c.groups -> [SP!Actions -> Nat]]
  <2>1. c.protected \subseteq c.groups
    BY <1>1
  <2>2. c.cost \in [c.groups -> Nat]
    <3>1. \A g \in DOMAIN groups : GroupSize(req, groups[g].members, "keep") \in Nat
      BY <1>2
    <3> QED
      BY <1>1, <3>1
  <2>3. c.offer \in [c.groups -> SUBSET SP!Actions]
    BY <1>1, SameTerms
  <2>4. c.size \in [c.groups -> [SP!Actions -> Nat]]
    BY <1>1, <1>2, SameTerms
  <2> QED
    BY <2>1, <2>2, <2>3, <2>4
<1>5. ASSUME NEW g \in c.groups, NEW a \in c.offer[g]
      PROVE  c.size[g][a] < c.cost[g]
  BY <1>1 DEF Proposed
<1>6. ASSUME NEW g \in c.groups PROVE SP!IsScore(c.score[g], c.offer[g])
  <2>1. CASE g \in Candidates
    <3>1. c.score[g] = scores[g] /\ ValidScore(g, scores[g]) /\ c.offer[g] = Offer(g)
      BY <1>1, <2>1 DEF Offer
    <3> QED
      BY <3>1, SameTerms DEF ValidScore, SP!IsScore
  <2>2. CASE g \notin Candidates
    <3>1. c.score[g] = NoScore
      BY <1>1, <2>2
    <3> QED
      BY <3>1 DEF NoScore, SP!IsScore, SP!Percent
  <2> QED
    BY <2>1, <2>2
<1> QED
  BY <1>1, <1>3, <1>4, <1>5, <1>6 DEF SP!IsInput, c

-----------------------------------------------------------------------------
\* What is known while and after the loop has run.

SelectInv ==
    /\ input = Problem(reply)
    /\ reply # Nil /\ ValidReply(reply)
    /\ SP!TypeOK /\ SP!TotalInv

\* The representation chosen for g is its original, or a proposal that was
\* offered for it and that its score permits.
Chosen(g) ==
    \/ Choice[g] = "keep"
    \/ /\ Choice[g] \in SP!Actions /\ g \in Candidates
       /\ Choice[g] \in Offer(g) /\ SP!Allowed(reply[g], Choice[g])
       /\ Choice[g] \in SP!Permitted(input, g)

ChoiceFacts ==
    /\ IsChoice(groups, Choice)
    /\ \A g \in DOMAIN groups : Chosen(g)
    /\ \A g \in DOMAIN groups :
          selected[g].tokens = GroupSize(req, groups[g].members, Choice[g])
    /\ total \in Nat
    /\ total = Count(Selected)

LEMMA PermittedMeans ==
    ASSUME DataFacts, input = Problem(reply), NEW g \in DOMAIN groups
    PROVE  /\ input.groups = DOMAIN groups /\ input.target = req.target
           /\ input.cost[g] = GroupSize(req, groups[g].members, "keep")
           /\ \A a : a \in SP!Permitted(input, g) <=>
                 g \in Candidates /\ a \in Offer(g) /\ SP!Allowed(reply[g], a)
           /\ \A a \in SP!Actions :
                 input.size[g][a] = GroupSize(req, groups[g].members, a)
<1>1. /\ input.groups = DOMAIN groups /\ input.protected = DOMAIN groups \ Candidates
      /\ input.target = req.target
      /\ input.cost = [h \in DOMAIN groups |-> GroupSize(req, groups[h].members, "keep")]
      /\ input.offer = [h \in DOMAIN groups |-> {a \in Sel!Actions :
             h \in Candidates /\ Proposed(req, groups[h].members, a)}]
      /\ input.size = [h \in DOMAIN groups |->
             [a \in Sel!Actions |-> GroupSize(req, groups[h].members, a)]]
      /\ input.score = [h \in DOMAIN groups |->
             IF h \in Candidates THEN reply[h] ELSE NoScore]
  BY DEF Problem
<1>2. input.cost[g] = GroupSize(req, groups[g].members, "keep")
  BY <1>1
<1>3. \A a \in SP!Actions : input.size[g][a] = GroupSize(req, groups[g].members, a)
  BY <1>1, SameTerms
<1>4. /\ g \in Candidates => input.score[g] = reply[g] /\ input.offer[g] = Offer(g)
      /\ g \notin Candidates => g \in input.protected
      /\ g \in Candidates => g \notin input.protected
  BY <1>1 DEF Offer
<1>5. ASSUME NEW a
      PROVE  a \in SP!Permitted(input, g) <=>
                 g \in Candidates /\ a \in Offer(g) /\ SP!Allowed(reply[g], a)
  BY <1>4 DEF SP!Permitted
<1> QED
  BY <1>1, <1>2, <1>3, <1>5

LEMMA SelectionMeans == DataFacts /\ SelectInv => ChoiceFacts
<1> SUFFICES ASSUME DataFacts, SelectInv PROVE ChoiceFacts
  OBVIOUS
<1>1. /\ input = Problem(reply) /\ input.groups = DOMAIN groups
      /\ DOMAIN groups = DOMAIN selected
  BY DEF SelectInv, SP!TypeOK, Problem
<1>2. ASSUME NEW g \in DOMAIN groups
      PROVE  /\ Choice[g] \in Forms /\ Chosen(g)
             /\ selected[g].tokens = GroupSize(req, groups[g].members, Choice[g])
  <2>1. selected[g] \in SP!Representations(input, g)
    BY <1>1 DEF SelectInv, SP!TypeOK
  <2>2. Choice[g] = selected[g].action
    BY DEF Choice
  <2>3. CASE selected[g] = SP!Whole(input, g)
    BY <1>1, <2>2, <2>3, PermittedMeans DEF SP!Whole, Chosen, Forms
  <2>4. ASSUME NEW a \in SP!Permitted(input, g), selected[g] = SP!Variant(input, g, a)
        PROVE  /\ Choice[g] \in Forms /\ Chosen(g)
               /\ selected[g].tokens = GroupSize(req, groups[g].members, Choice[g])
    <3>1. Choice[g] = a /\ selected[g].tokens = input.size[g][a]
      BY <2>2, <2>4 DEF SP!Variant
    <3>2. a \in Offer(g) /\ g \in Candidates /\ SP!Allowed(reply[g], a)
      BY <1>1, PermittedMeans
    <3>3. a \in SP!Actions
      BY <3>2, SameTerms DEF Offer
    <3>4. input.size[g][a] = GroupSize(req, groups[g].members, a)
      BY <1>1, <3>3, PermittedMeans
    <3> QED
      BY <3>1, <3>2, <3>3, <3>4 DEF Chosen, Forms, SP!Actions
  <2> QED
    BY <2>1, <2>3, <2>4 DEF SP!Representations
<1>3. IsChoice(groups, Choice)
  BY <1>2 DEF IsChoice, Choice
<1> DEFINE h == [g \in DOMAIN groups |-> GroupSize(req, groups[g].members, Choice[g])]
<1>4. SP!Chosen = h
  BY <1>1, <1>2 DEF SP!Chosen
<1>5. total = SumFunction(h)
  BY <1>4, SameNotions DEF SelectInv, SP!TotalInv
<1>6. Count(Selected) = SumFunction(h)
  BY <1>3, CountByGroup DEF DataFacts, Selected
<1>7. h \in [DOMAIN groups -> Nat]
  BY <1>2 DEF DataFacts
<1>8. total \in Nat
  <2> HIDE DEF h
  <2> QED
    BY <1>5, <1>7, SumIsNat DEF DataFacts
<1> QED
  BY <1>2, <1>3, <1>5, <1>6, <1>8 DEF ChoiceFacts

-----------------------------------------------------------------------------
\* The invariant behind what results promise.

\* How a result comes about, and what it then is.
Unapplied(status) ==
    /\ result.status = status /\ ~result.applied
    /\ result.messages = req.messages /\ result.output = Before
    /\ result.budgetMet <=> status = "unchanged"

Outcome ==
    \/ Unapplied("unchanged") /\ input = Nil /\ Before <= req.target
    \/ Unapplied("scoring_failed") /\ input = Nil
    \/ /\ Unapplied("budget_unmet") /\ input = Nil /\ reply = Nil
       /\ Before > req.target
       /\ Minimum > req.target \/ Candidates = {}
    \/ /\ Unapplied("budget_unmet") /\ SelectInv
       /\ Before > req.target
       /\ total > req.target /\ SP!Open = {}
       /\ result.stats = Stats(Choice)
    \/ /\ result.applied /\ SelectInv
       /\ Before > req.target
       /\ result.messages = Selected /\ result.output = total
       /\ result.stats = Stats(Choice)
       /\ \/ /\ result.status = "compacted" /\ result.budgetMet
             /\ total <= req.target
          \/ /\ result.status = "partial" /\ ~result.budgetMet
             /\ total > req.target /\ req.partial
             /\ total < Before /\ SP!Open = {}

(***************************************************************************)
(* The invariant behind what results promise: what is known of the data,   *)
(* of the search for reductions at each stage, and of its outcome.         *)
(***************************************************************************)
OutcomeInv ==
    /\ request \in Requests
    /\ pc \notin {"begin", "done"} \/ result # Nil => DataInv
    /\ pc \in {"begin", "count", "save", "named", "fit", "score"} => reply = Nil
    /\ pc \in {"begin", "count", "save", "named", "fit", "score", "check"} => input = Nil
    /\ pc \in {"score", "check", "select", "finish"} => Before > req.target
    /\ pc \in {"select", "finish"} => SelectInv
    /\ pc = "finish" => total <= req.target \/ SP!Open = {}
    /\ pc # "done" => result = Nil
    /\ result # Nil => Outcome

\* What the parts of the invariant depend on.
data == <<request, req, groups>>

LEMMA SameData ==
    ASSUME UNCHANGED data
    PROVE  /\ DataInv' = DataInv /\ Before' = Before /\ Candidates' = Candidates
           /\ Minimum' = Minimum
           /\ \A r : Problem(r)' = Problem(r) /\ ValidReply(r)' = ValidReply(r)
BY DEF data, DataInv, Before, Candidates, Minimum, Problem, ValidReply, ValidScore, Offer

LEMMA SameSearch ==
    ASSUME UNCHANGED data, UNCHANGED <<reply, sel>>
    PROVE  /\ SelectInv' = SelectInv /\ SP!Open' = SP!Open
           /\ Choice' = Choice /\ Selected' = Selected
           /\ Stats(Choice)' = Stats(Choice)
BY DEF data, sel, SelectInv, ValidReply, ValidScore, Offer, Candidates, Problem,
       SP!TypeOK, SP!TotalInv, SP!Chosen, SP!Open, SP!Permitted, SP!After, SP!Move,
       SP!Variant, SP!Representations, SP!Whole, Choice, Selected, Stats

\* An error is not a result.
LEMMA FailSettles ==
    ASSUME OutcomeInv, NEW class, Fail(class), pc # "done"
    PROVE  OutcomeInv'
<1>1. result' = Nil /\ pc' = "done" /\ request' = request
  BY DEF Fail, OutcomeInv
<1> QED
  BY <1>1 DEF OutcomeInv

\* Keeping the history settles what the result is.
LEMMA RetainSettles ==
    ASSUME OutcomeInv, pc \in {"fit", "check", "finish"}, NEW status, NEW stats,
           Retain(status, stats),
           status \in {"unchanged", "scoring_failed", "budget_unmet"}
    PROVE  /\ Unapplied(status)' /\ result'.stats = stats
           /\ UNCHANGED data /\ UNCHANGED <<reply, sel>>
           /\ Outcome' => OutcomeInv'
<1>1. /\ pc' = "done" /\ UNCHANGED data /\ UNCHANGED <<reply, sel>>
      /\ result' = [status |-> status, applied |-> FALSE,
                    budgetMet |-> status = "unchanged",
                    messages |-> req.messages, decisions |-> <<>>,
                    snapshot |-> req, output |-> Before, stats |-> stats]
  BY DEF Retain, data
<1>2. Before' = Before /\ DataInv' = DataInv /\ request' = request /\ req' = req
  BY <1>1, SameData DEF data
<1>3. Unapplied(status)'
  BY <1>1, <1>2 DEF Unapplied
<1>4. DataInv /\ request \in Requests
  BY DEF OutcomeInv
<1>5. Outcome' => OutcomeInv'
  BY <1>1, <1>2, <1>4 DEF OutcomeInv
<1> QED
  BY <1>1, <1>3, <1>5

\* Moving on without touching the data or the search.
LEMMA MoveSettles ==
    ASSUME OutcomeInv, pc # "done", UNCHANGED <<data, reply, sel, result>>,
           pc' \in Pcs \ {"begin", "done"} => DataInv, pc' # "done",
           pc' \in {"begin", "count", "save", "named", "fit", "score"} => reply = Nil,
           pc' \in {"begin", "count", "save", "named", "fit", "score", "check"} => input = Nil,
           pc' \in {"score", "check", "select", "finish"} => Before > req.target,
           pc' \in {"select", "finish"} => SelectInv,
           pc' = "finish" => total <= req.target \/ SP!Open = {},
           pc' \in Pcs
    PROVE  OutcomeInv'
<1>1. /\ UNCHANGED data /\ UNCHANGED <<reply, sel>> /\ result' = Nil
  BY DEF OutcomeInv, data, sel
<1>2. /\ DataInv' = DataInv /\ Before' = Before /\ SelectInv' = SelectInv
      /\ SP!Open' = SP!Open
      /\ request' = request /\ req' = req /\ reply' = reply /\ input' = input
      /\ total' = total
  BY <1>1, SameData, SameSearch DEF data, sel
<1> QED
  BY <1>1, <1>2 DEF OutcomeInv, Pcs

LEMMA OutcomeStarts == Init => OutcomeInv
BY DEF Init, OutcomeInv

LEMMA BeginSettles == OutcomeInv /\ Begin => OutcomeInv'
<1> SUFFICES ASSUME OutcomeInv, Begin PROVE OutcomeInv'
  OBVIOUS
<1>1. CASE \E class : Fail(class)
  BY <1>1, FailSettles DEF Begin
<1>2. CASE /\ Valid(request) /\ groups' = Collect(request) /\ req' = Clone(request)
           /\ pc' = "count" /\ UNCHANGED <<request, reply, sel, result>>
  <2>1. DataInv'
    BY <1>2 DEF DataInv, OutcomeInv
  <2>2. request' \in Requests /\ reply' = Nil /\ input' = Nil /\ result' = Nil
    BY <1>2 DEF OutcomeInv, Begin, sel
  <2> QED
    BY <1>2, <2>1, <2>2 DEF OutcomeInv
<1> QED
  BY <1>1, <1>2 DEF Begin

LEMMA AskSettles == OutcomeInv /\ AskScorer => OutcomeInv'
<1> SUFFICES ASSUME OutcomeInv, AskScorer PROVE OutcomeInv'
  OBVIOUS
<1>1. /\ pc = "score" /\ pc' = "check"
      /\ UNCHANGED data /\ input' = input /\ result' = result
  BY DEF AskScorer, data, sel
<1>2. /\ DataInv' = DataInv /\ Before' = Before /\ request' = request /\ req' = req
  BY <1>1, SameData DEF data
<1> QED
  BY <1>1, <1>2 DEF OutcomeInv

\* The loop starts from the originals.
LEMMA CheckSettles == OutcomeInv /\ Check => OutcomeInv'
<1> SUFFICES ASSUME OutcomeInv, Check PROVE OutcomeInv'
  OBVIOUS
<1>1. pc = "check" /\ DataInv /\ input = Nil /\ Before > req.target
  BY DEF Check, OutcomeInv
<1>2. CASE Fail("canceled")
  BY <1>1, <1>2, FailSettles
<1>3. CASE Retain("scoring_failed", [NoStats EXCEPT !.protected =
              Cardinality(DOMAIN groups \ Candidates)])
  <2>1. /\ Unapplied("scoring_failed")' /\ input' = Nil
        /\ Outcome' => OutcomeInv'
    BY <1>1, <1>3, RetainSettles DEF sel
  <2> QED
    BY <2>1 DEF Outcome
<1>4. CASE /\ reply # Nil /\ ValidReply(reply) /\ pc' = "select"
           /\ input' = Problem(reply) /\ selected' = Sel!Keeping(input')
           /\ total' = SumFunction(input'.cost)
           /\ UNCHANGED <<request, req, groups, reply, result>>
  <2>1. /\ DataInv' = DataInv /\ Before' = Before
        /\ Problem(reply)' = Problem(reply) /\ ValidReply(reply)' = ValidReply(reply)
    BY <1>4 DEF DataInv, Before, Problem, ValidReply, ValidScore, Offer, Candidates
  <2>2. SP!IsInput(input')
    BY <1>1, <1>4, DataMeans, ProblemIsInput DEF ValidReply
  <2>3. selected' = [g \in input'.groups |-> SP!Whole(input', g)]
    BY <1>4, SameTerms DEF SP!Keeping
  <2>4. SP!TypeOK'
    BY <2>2, <2>3 DEF SP!TypeOK, SP!Representations
  <2>5. SP!Chosen' = input'.cost
    BY <2>2, <2>3 DEF SP!Chosen, SP!Whole, SP!IsInput
  <2>6. SP!TotalInv'
    BY <1>4, <2>5, SameNotions DEF SP!TotalInv
  <2>7. SelectInv'
    BY <1>4, <2>1, <2>4, <2>6 DEF SelectInv
  <2> QED
    BY <1>1, <1>4, <2>1, <2>7 DEF OutcomeInv
<1> QED
  BY <1>2, <1>3, <1>4 DEF Check

LEMMA SelectSettles == OutcomeInv /\ SelectStep => OutcomeInv'
<1> SUFFICES ASSUME OutcomeInv, SelectStep PROVE OutcomeInv'
  OBVIOUS
<1>1. /\ pc = "select" /\ pc' = "select" /\ UNCHANGED data /\ reply' = reply
      /\ result' = result /\ SP!Applied
  BY ReduceApplies DEF SelectStep, data
<1>2. SelectInv /\ DataInv /\ Before > req.target /\ result = Nil /\ request \in Requests
  BY <1>1 DEF OutcomeInv
<1>3. SP!TypeOK'
  BY <1>1, <1>2, SameNotions, SP!TypeStepApplied DEF SelectInv
<1>4. SP!TotalInv'
  BY <1>1, <1>2, <1>3, SameNotions, SP!TotalStepApplied DEF SelectInv
<1>5. /\ DataInv' = DataInv /\ Before' = Before /\ request' = request /\ req' = req
      /\ groups' = groups /\ input' = input
  BY <1>1, SameData DEF SP!Applied, data
<1>6. ValidReply(reply)' = ValidReply(reply) /\ Problem(reply)' = Problem(reply)
  BY <1>1, <1>5 DEF ValidReply, ValidScore, Offer, Candidates, Problem
<1>7. SelectInv'
  BY <1>1, <1>2, <1>3, <1>4, <1>5, <1>6 DEF SelectInv
<1> QED
  BY <1>1, <1>2, <1>5, <1>7 DEF OutcomeInv

LEMMA FinishSettles == OutcomeInv /\ Finish => OutcomeInv'
<1> SUFFICES ASSUME OutcomeInv, Finish PROVE OutcomeInv'
  OBVIOUS
<1>1. /\ pc = "finish" /\ DataInv /\ SelectInv /\ Before > req.target
      /\ total <= req.target \/ SP!Open = {}
      /\ result = Nil /\ request \in Requests
  BY DEF Finish, OutcomeInv
<1>2. DataFacts /\ ChoiceFacts
  BY <1>1, DataMeans, SelectionMeans
<1>3. /\ Count(Selected) = total /\ total \in Int /\ req.target \in Int /\ Before \in Int
  BY <1>2 DEF DataFacts, ChoiceFacts
<1>4. CASE Fail("canceled")
  BY <1>1, <1>4, FailSettles
<1>5. CASE Count(Selected) > req.target /\ Retain("budget_unmet", Stats(Choice))
  <2>1. /\ Unapplied("budget_unmet")' /\ result'.stats = Stats(Choice)
        /\ UNCHANGED data /\ UNCHANGED <<reply, sel>>
        /\ Outcome' => OutcomeInv'
    BY <1>1, <1>5, RetainSettles
  <2>2. /\ Before' = Before /\ SelectInv' = SelectInv /\ SP!Open' = SP!Open
        /\ Stats(Choice)' = Stats(Choice) /\ req' = req /\ total' = total
    BY <2>1, SameData, SameSearch DEF data, sel
  <2>3. total > req.target /\ SP!Open = {}
    BY <1>1, <1>3, <1>5
  <2> QED
    BY <1>1, <2>1, <2>2, <2>3 DEF Outcome
<1>6. CASE /\ Count(Selected) <= req.target
                \/ (req.partial /\ Count(Selected) < Before)
           /\ pc' = "done"
           /\ result' = [status |-> IF Count(Selected) <= req.target THEN "compacted"
                                                                     ELSE "partial",
                         applied |-> TRUE, budgetMet |-> Count(Selected) <= req.target,
                         messages |-> Selected, decisions |-> Choice,
                         snapshot |-> req, output |-> Count(Selected),
                         stats |-> Stats(Choice)]
           /\ UNCHANGED <<request, req, groups, reply, sel>>
  <2>1. UNCHANGED data /\ UNCHANGED <<reply, sel>>
    BY <1>6 DEF data
  <2>2. /\ Before' = Before /\ SelectInv' = SelectInv /\ SP!Open' = SP!Open
        /\ Stats(Choice)' = Stats(Choice) /\ req' = req /\ total' = total
        /\ Selected' = Selected /\ DataInv' = DataInv /\ request' = request
    BY <2>1, SameData, SameSearch DEF data, sel
  <2>3. /\ result'.applied /\ result'.messages = Selected /\ result'.output = total
        /\ result'.stats = Stats(Choice)
    BY <1>3, <1>6
  <2>4. \/ result'.status = "compacted" /\ result'.budgetMet /\ total <= req.target
        \/ /\ result'.status = "partial" /\ ~result'.budgetMet
           /\ total > req.target /\ req.partial /\ total < Before /\ SP!Open = {}
    <3>1. result'.status = (IF total <= req.target THEN "compacted" ELSE "partial")
          /\ (result'.budgetMet <=> total <= req.target)
      BY <1>3, <1>6
    <3>2. total <= req.target \/ (req.partial /\ total < Before)
      BY <1>3, <1>6
    <3> QED
      BY <1>1, <1>3, <3>1, <3>2
  <2>5. Outcome'
    BY <1>1, <2>2, <2>3, <2>4 DEF Outcome
  <2> QED
    BY <1>1, <1>6, <2>2, <2>5 DEF OutcomeInv
<1> QED
  BY <1>4, <1>5, <1>6 DEF Finish

LEMMA OutcomeStep == OutcomeInv /\ ControlInv /\ [Next]_vars => OutcomeInv'
<1> SUFFICES ASSUME OutcomeInv, ControlInv, [Next]_vars PROVE OutcomeInv'
  OBVIOUS
<1>1. CASE CountInput
  BY <1>1, MoveSettles DEF CountInput, Goto, data, OutcomeInv, Pcs
<1>2. CASE CountFails
  BY <1>2, FailSettles DEF CountFails
<1>3. CASE Named \/ Save
  <2>1. pc \in {"save", "named"} /\ UNCHANGED <<data, reply, sel, result>>
    BY <1>3 DEF Named, Save, Goto, data
  <2>2. DataInv /\ reply = Nil /\ input = Nil /\ pc' \in {"named", "fit"}
    BY <1>3, <2>1 DEF Named, Save, Goto, OutcomeInv
  <2> QED
    BY <2>1, <2>2, MoveSettles DEF Pcs
<1>15. CASE SaveFails
  BY <1>15, FailSettles DEF SaveFails
<1>4. CASE FitsAlready
  <2>1. /\ Unapplied("unchanged")' /\ UNCHANGED data /\ input' = Nil
        /\ Before <= req.target
        /\ Outcome' => OutcomeInv'
    BY <1>4, RetainSettles DEF FitsAlready, OutcomeInv, sel
  <2>2. Before' = Before /\ req' = req
    BY <2>1, SameData DEF data
  <2> QED
    BY <2>1, <2>2 DEF Outcome
<1>5. CASE ProtectedTooBig \/ NothingReducible
  <2>1. /\ pc = "fit" /\ Before > req.target
        /\ Minimum > req.target \/ Candidates = {}
        /\ Retain("budget_unmet", [NoStats EXCEPT !.protected =
                          Cardinality(DOMAIN groups \ Candidates)])
    BY <1>5 DEF ProtectedTooBig, NothingReducible, Overfull, Proposing
  <2>2. /\ Unapplied("budget_unmet")' /\ UNCHANGED data /\ input' = Nil /\ reply' = Nil
        /\ Outcome' => OutcomeInv'
    BY <2>1, RetainSettles DEF OutcomeInv, sel
  <2>3. /\ Before' = Before /\ req' = req /\ Minimum' = Minimum
        /\ Candidates' = Candidates
    BY <2>2, SameData DEF data
  <2> QED
    BY <2>1, <2>2, <2>3 DEF Outcome
<1>6. CASE Propose
  BY <1>6, MoveSettles DEF Propose, Proposing, Overfull, Goto, data, OutcomeInv, Pcs
<1>7. CASE SelectDone
  <2>1. SelectInv /\ DataFacts
    BY <1>7, DataMeans DEF SelectDone, OutcomeInv
  <2>2. input.target = req.target
    BY <2>1 DEF SelectInv, Problem
  <2>3. total <= req.target \/ SP!Open = {}
    BY <1>7, <2>2, SameMoves DEF SelectDone
  <2> QED
    BY <1>7, <2>1, <2>3, MoveSettles DEF SelectDone, Goto, data, OutcomeInv, Pcs
<1>8. CASE SelectCanceled
  BY <1>8, FailSettles DEF SelectCanceled
<1>9. CASE Cancel
  BY <1>9, MoveSettles DEF Cancel, data, OutcomeInv, ControlInv
<1>10. CASE UNCHANGED vars
  <2>1. UNCHANGED data /\ UNCHANGED <<reply, sel>> /\ result' = result /\ pc' = pc
    BY <1>10 DEF vars, data
  <2>2. /\ Before' = Before /\ SelectInv' = SelectInv /\ SP!Open' = SP!Open
        /\ Stats(Choice)' = Stats(Choice) /\ req' = req /\ total' = total
        /\ Selected' = Selected /\ DataInv' = DataInv /\ request' = request
        /\ Minimum' = Minimum /\ Candidates' = Candidates /\ input' = input
        /\ reply' = reply
    BY <2>1, SameData, SameSearch DEF data, sel
  <2>3. Outcome' = Outcome
    BY <2>1, <2>2 DEF Outcome, Unapplied
  <2> QED
    BY <2>1, <2>2, <2>3 DEF OutcomeInv
<1> QED
  BY <1>1, <1>2, <1>3, <1>4, <1>5, <1>6, <1>7, <1>8, <1>9, <1>10, <1>15, BeginSettles,
     AskSettles, CheckSettles, SelectSettles, FinishSettles DEF Next, Compact

\* The invariant holds throughout, beside the control invariant.
LEMMA OutcomeHolds == Spec => []OutcomeInv
<1>1. Init => OutcomeInv /\ EngineInv
  BY OutcomeStarts, InvInit
<1>2. OutcomeInv /\ EngineInv /\ [Next]_vars => (OutcomeInv /\ EngineInv)'
  BY OutcomeStep, InvStep DEF EngineInv
<1> QED
  BY <1>1, <1>2, PTL DEF Spec

-----------------------------------------------------------------------------
\* What the invariant means for each promise.

LEMMA BudgetMeans == OutcomeInv => BudgetTruth
<1> SUFFICES ASSUME OutcomeInv, result # Nil
             PROVE  LET n == Count(result.messages) IN
                    /\ result.output = n /\ n <= Before
                    /\ result.status # "scoring_failed" =>
                          (result.budgetMet <=> n <= request.target)
                    /\ result.budgetMet <=> result.status \in {"unchanged", "compacted"}
                    /\ result.applied => n < Before
                    /\ result.status = "partial" => request.partial
  BY DEF BudgetTruth
<1> DEFINE n == Count(result.messages)
<1>1. DataFacts /\ Outcome
  BY DataMeans DEF OutcomeInv
<1>2. /\ Before \in Nat /\ request.target \in Nat /\ request.target = req.target
      /\ req.partial = request.partial
  BY <1>1 DEF DataFacts
<1>3. ASSUME NEW status \in {"unchanged", "scoring_failed", "budget_unmet"},
             Unapplied(status)
      PROVE  /\ n = Before /\ result.output = n /\ result.status = status
             /\ ~result.applied
             /\ result.budgetMet <=> status = "unchanged"
  BY <1>3 DEF Unapplied, Before
<1>4. CASE Unapplied("unchanged") /\ Before <= req.target
  BY <1>2, <1>3, <1>4
<1>5. CASE Unapplied("scoring_failed")
  BY <1>2, <1>3, <1>5
<1>6. CASE Unapplied("budget_unmet") /\ Before > req.target
  BY <1>2, <1>3, <1>6
<1>7. CASE /\ result.applied /\ SelectInv
           /\ Before > req.target
           /\ result.messages = Selected /\ result.output = total
           /\ \/ /\ result.status = "compacted" /\ result.budgetMet
                 /\ total <= req.target
              \/ /\ result.status = "partial" /\ ~result.budgetMet
                 /\ total > req.target /\ req.partial
                 /\ total < Before
  <2>1. n = total /\ total \in Nat
    BY <1>1, <1>7, SelectionMeans DEF ChoiceFacts
  <2> QED
    BY <1>2, <1>7, <2>1
<1> QED
  BY <1>1, <1>4, <1>5, <1>6, <1>7 DEF Outcome

\* A set of candidates is split by what was chosen for them.
LEMMA StatsMean ==
    ASSUME DataFacts, SelectInv
    PROVE  LET s == Stats(Choice) IN
           /\ s.kept + s.reduced + s.dropped = Cardinality(Candidates)
           /\ s.protected = Cardinality(DOMAIN groups \ Candidates)
           /\ s.rejected = Cardinality({g \in Candidates : Options(g) = {"keep"}})
<1> DEFINE kept    == {g \in Candidates : Choice[g] = "keep"}
           dropped == {g \in Candidates : Choice[g] = "drop"}
           reduced == {g \in Candidates : Choice[g] \notin {"keep", "drop"}}
           refused == {g \in kept : \A a \in Offer(g) : ~Sel!Allowed(reply[g], a)}
           s == Stats(Choice)
<1>1. /\ s.kept = Cardinality(kept) /\ s.dropped = Cardinality(dropped)
      /\ s.reduced = Cardinality(reduced) /\ s.rejected = Cardinality(refused)
      /\ s.protected = Cardinality(DOMAIN groups \ Candidates)
  BY DEF Stats
<1>2. IsFiniteSet(Candidates) /\ Candidates \subseteq DOMAIN groups
  BY FS_Subset DEF Candidates, DataFacts
<1>3. Cardinality(kept) + Cardinality(reduced) + Cardinality(dropped) = Cardinality(Candidates)
  <2>1. /\ kept \in SUBSET Candidates /\ reduced \in SUBSET Candidates
        /\ dropped \in SUBSET Candidates
        /\ kept \cap reduced = {} /\ (kept \cup reduced) \cap dropped = {}
        /\ (kept \cup reduced) \cup dropped = Candidates
    OBVIOUS
  <2> HIDE DEF kept, reduced, dropped
  <2>2. /\ IsFiniteSet(kept) /\ IsFiniteSet(reduced) /\ IsFiniteSet(dropped)
        /\ Cardinality(kept) \in Nat /\ Cardinality(reduced) \in Nat
        /\ Cardinality(dropped) \in Nat
    BY <1>2, <2>1, FS_Subset, FS_CardinalityType
  <2>3. /\ IsFiniteSet(kept \cup reduced)
        /\ Cardinality(kept \cup reduced) =
              Cardinality(kept) + Cardinality(reduced) - Cardinality({})
    BY <2>1, <2>2, FS_Union
  <2>4. Cardinality((kept \cup reduced) \cup dropped) =
            Cardinality(kept \cup reduced) + Cardinality(dropped) - Cardinality({})
    BY <2>1, <2>2, <2>3, FS_Union
  <2>5. Cardinality({}) = 0
    BY FS_EmptySet
  <2>6. Cardinality((kept \cup reduced) \cup dropped) = Cardinality(Candidates)
    BY <2>1
  <2> QED
    BY <2>2, <2>3, <2>4, <2>5, <2>6
<1>4. refused = {g \in Candidates : Options(g) = {"keep"}}
  <2> SUFFICES ASSUME NEW g \in Candidates
               PROVE  g \in refused <=> Options(g) = {"keep"}
    OBVIOUS
  <2>1. Options(g) = {"keep"} \cup {a \in Offer(g) : Sel!Allowed(reply[g], a)}
    BY DEF Options, SelectInv
  <2>2. "keep" \notin Offer(g)
    BY DEF Offer, Sel!Actions
  <2>3. (\A a \in Offer(g) : ~Sel!Allowed(reply[g], a)) => Choice[g] = "keep"
    BY <1>2, SelectionMeans, SameTerms DEF ChoiceFacts, Chosen
  <2> QED
    BY <2>1, <2>2, <2>3
<1> QED
  BY <1>1, <1>3, <1>4

LEMMA TotalsMean == OutcomeInv => TotalsAgree
<1> SUFFICES ASSUME OutcomeInv PROVE TotalsAgree
  OBVIOUS
<1>1. pc = "finish" => total = Count(Selected)
  BY DataMeans, SelectionMeans DEF OutcomeInv, ChoiceFacts
<1>2. ASSUME result # Nil, input # Nil
      PROVE  DataFacts /\ SelectInv /\ result.stats = Stats(Choice)
  BY <1>2, DataMeans DEF OutcomeInv, Outcome
<1> QED
  BY <1>1, <1>2, StatsMean DEF TotalsAgree

LEMMA MinFacts ==
    ASSUME NEW S \in SUBSET Nat, S # {}
    PROVE  Min(S) \in S /\ \A k \in S : Min(S) <= k
BY LeastExists DEF Min

\* The least that group g can take.
Least(g) == Min({GroupSize(req, groups[g].members, a) : a \in Options(g)})

LEMMA LeastFacts ==
    ASSUME DataFacts, NEW g \in DOMAIN groups
    PROVE  /\ Least(g) \in Nat
           /\ \E a \in Options(g) : Least(g) = GroupSize(req, groups[g].members, a)
           /\ g \notin Candidates => Least(g) = GroupSize(req, groups[g].members, "keep")
<1> DEFINE size(a) == GroupSize(req, groups[g].members, a)
           S == {size(a) : a \in Options(g)}
<1>1. "keep" \in Options(g) /\ Options(g) \subseteq Forms
  BY DEF Options, Offer, Sel!Actions, Forms
<1>2. \A a \in Options(g) : size(a) \in Nat
  BY <1>1 DEF DataFacts
<1> HIDE DEF size
<1>3. S \in SUBSET Nat /\ S # {}
  BY <1>1, <1>2
<1>4. Min(S) \in S
  <2> HIDE DEF S
  <2> QED
    BY <1>3, MinFacts
<1>5. Least(g) = Min(S)
  BY DEF Least, size
<1>6. PICK a \in Options(g) : Least(g) = size(a)
  BY <1>4, <1>5
<1>7. g \notin Candidates => Options(g) = {"keep"}
  BY DEF Options
<1> QED
  BY <1>2, <1>6, <1>7 DEF size

LEMMA UnmetMeans == OutcomeInv => UnmetIsHonest
<1> DEFINE G == DOMAIN groups
           h == [g \in G |-> Least(g)]
           least == SumFunction(h)
<1> SUFFICES ASSUME OutcomeInv, result # Nil, result.status \in {"budget_unmet", "partial"}
             PROVE  /\ least > req.target
                    /\ result.status = "partial" => least >= result.output
  BY DEF UnmetIsHonest, Least
<1>1. DataFacts /\ Outcome
  BY DataMeans DEF OutcomeInv
<1>2. /\ h \in [G -> Nat] /\ h \in [G -> Int] /\ IsFiniteSet(G)
      /\ req.target \in Nat /\ Before \in Nat
  BY <1>1, LeastFacts DEF DataFacts
<1>3. least \in Int
  <2> HIDE DEF h
  <2> QED
    BY <1>2, SameNotions, SP!SumType
<1>4. CASE Candidates = {} /\ Before > req.target
  <2>1. h = [g \in G |-> GroupSize(req, groups[g].members, "keep")]
    BY <1>1, <1>4, LeastFacts
  <2>2. least = Before
    BY <1>1, <2>1 DEF DataFacts
  <2>3. result.status = "partial" => least >= result.output
    <3>1. ASSUME result.status = "partial"
          PROVE  result.output = total /\ SelectInv /\ total < Before
      BY <1>1, <3>1 DEF Outcome, Unapplied
    <3>2. SelectInv => total \in Nat
      BY <1>1, SelectionMeans DEF ChoiceFacts
    <3> HIDE DEF least
    <3> QED
      BY <1>2, <2>2, <3>1, <3>2
  <2> QED
    BY <1>4, <2>2, <2>3
<1>5. CASE Minimum > req.target /\ result.status = "budget_unmet"
  <2> DEFINE C == Candidates
             P == G \ C
             f == [g \in P |-> GroupSize(req, groups[g].members, "keep")]
             k == [g \in C |-> h[g]]
  <2>1. PICK u : SP!Adds(u, G, h) /\ least = u[G]
    <3> HIDE DEF h
    <3> QED
      BY <1>2, SameNotions, SP!SumAdds
  <2>2. /\ P \in SUBSET G /\ C \in SUBSET G /\ P \cap C = {} /\ P \cup C = G
    BY DEF Candidates
  <2>3. \A g \in P : f[g] = h[g]
    BY <1>1, <2>2, LeastFacts
  <2>4. f \in [P -> Int] /\ k \in [C -> Nat] /\ k \in [C -> Int] /\ \A g \in C : k[g] = h[g]
    <3> HIDE DEF h
    <3>1. \A g \in P : f[g] \in Int
      BY <1>2, <2>2, <2>3
    <3> QED
      BY <1>2, <2>2, <3>1
  <2>5. Minimum = SumFunction(f)
    BY DEF Minimum
  <2> HIDE DEF h, f, k, G, C, P
  <2>6. SumFunction(f) = u[P]
    BY <1>2, <2>1, <2>2, <2>3, <2>4, SameNotions, SP!SumOn
  <2>7. SumFunction(k) = u[C] /\ SumFunction(k) \in Nat
    <3>1. IsFiniteSet(C)
      BY <1>2, <2>2, FS_Subset
    <3>2. SumFunction(k) \in Nat
      BY <2>4, <3>1, SumIsNat
    <3>3. SumFunction(k) = u[C]
      BY <1>2, <2>1, <2>2, <2>4, SameNotions, SP!SumOn
    <3> QED
      BY <3>2, <3>3
  <2>8. u[P \cup C] = u[P] + u[C]
    BY <1>2, <2>1, <2>2, SameNotions, SP!SumSplit
  <2>9. u[G] = u[P] + u[C]
    BY <2>2, <2>8
  <2>10. u[P] \in Int
    BY <2>1, <2>2 DEF SP!Adds
  <2> QED
    BY <1>2, <1>5, <2>1, <2>5, <2>6, <2>7, <2>9, <2>10
<1>6. CASE SelectInv /\ total > req.target /\ SP!Open = {}
  <2>1. \A g \in G : SP!Smallest(g)
    <3>1. SP!TypeOK /\ input = Problem(reply)
      BY <1>6 DEF SelectInv
    <3>2. input.groups = G /\ input.target = req.target
      BY <3>1 DEF Problem
    <3>3. SP!Stuck
      BY <1>6, <3>2 DEF SP!Stuck
    <3>4. SP!StuckIsSmallest
      BY <3>1, SameNotions, SP!StuckAtMinimum
    <3> QED
      BY <3>2, <3>3, <3>4 DEF SP!StuckIsSmallest
  <2> DEFINE c == [g \in G |-> GroupSize(req, groups[g].members, Choice[g])]
  <2>2. ChoiceFacts
    BY <1>1, <1>6, SelectionMeans
  <2>3. total = SumFunction(c) /\ total \in Nat
    BY <1>1, <2>2, CountByGroup DEF ChoiceFacts, DataFacts, Selected
  <2>4. ASSUME NEW g \in G PROVE c[g] <= h[g] /\ c[g] \in Int
    <3>1. PICK a \in Options(g) : h[g] = GroupSize(req, groups[g].members, a)
      BY <1>1, LeastFacts
    <3>2. input = Problem(reply) /\ reply # Nil /\ ValidReply(reply)
      BY <1>6 DEF SelectInv
    <3>3. \E r \in SP!Representations(input, g) : r.tokens = h[g]
      <4>1. CASE a = "keep"
        <5>1. SP!Whole(input, g).tokens = h[g]
          BY <1>1, <3>1, <3>2, <4>1, PermittedMeans DEF SP!Whole
        <5> QED
          BY <5>1 DEF SP!Representations
      <4>2. CASE a # "keep"
        <5>1. g \in Candidates /\ a \in Offer(g) /\ SP!Allowed(reply[g], a)
          BY <3>1, <3>2, <4>2, SameTerms DEF Options
        <5>2. a \in SP!Permitted(input, g) /\ a \in SP!Actions
          BY <1>1, <3>2, <5>1, SameTerms, PermittedMeans DEF Offer
        <5>3. SP!Variant(input, g, a).tokens = h[g]
          BY <1>1, <3>1, <3>2, <5>2, PermittedMeans DEF SP!Variant
        <5> QED
          BY <5>2, <5>3 DEF SP!Representations
      <4> QED
        BY <4>1, <4>2
    <3>4. selected[g].tokens <= h[g]
      BY <2>1, <3>3 DEF SP!Smallest
    <3>5. c[g] = selected[g].tokens
      BY <2>2 DEF ChoiceFacts
    <3>6. c[g] \in Int
      BY <1>1, <2>2 DEF ChoiceFacts, IsChoice, DataFacts
    <3> QED
      BY <3>4, <3>5, <3>6
  <2>5. c \in [G -> Int]
    BY <2>4
  <2>6. SumFunction(c) <= SumFunction(h)
    <3> HIDE DEF c, h, G
    <3> QED
      BY <1>2, <2>4, <2>5, SameNotions, SP!SumBound
  <2>7. result.status = "partial" => result.output = total
    BY <1>1 DEF Outcome, Unapplied
  <2> HIDE DEF c, h
  <2> QED
    BY <1>2, <1>3, <1>6, <2>3, <2>6, <2>7
<1> QED
  BY <1>1, <1>4, <1>5, <1>6 DEF Outcome, Unapplied

\* What an applied selection leaves of each message.

\* A result is joined to the call it answers, which exactly one message issues.
LEMMA AnsweredCall ==
    ASSUME DataFacts, NEW i \in Indices(request), NEW j \in Indices(request),
           Issues(request, j, request.messages[i].result), request.messages[i].result # Nil
    PROVE  /\ i \in Results(request) /\ request.messages[i].role = "tool"
           /\ j < i /\ CallOf(request, i) = j
           /\ ~request.individually => <<j, i>> \in Links(request)
<1>1. i \in Results(request) /\ WellFormed(request.messages[i])
  BY DEF DataFacts, Valid, Plausible, Results
<1>2. PICK p \in Indices(request) : p < i /\ Issues(request, p, request.messages[i].result)
  BY <1>1 DEF DataFacts, Valid, Answers
<1>3. \A q \in Indices(request) : Issues(request, q, request.messages[i].result) => q = j
  BY DEF DataFacts, Valid, Plausible, Issues
<1>4. p = j
  BY <1>2, <1>3
<1>5. CallOf(request, i) = j
  BY <1>2, <1>3, <1>4 DEF CallOf
<1>6. ~request.individually => <<j, i>> \in Links(request)
  BY <1>1, <1>2, <1>4 DEF Links, AnswerLinks, Pairs
<1> QED
  BY <1>1, <1>2, <1>4, <1>5, <1>6 DEF WellFormed

\* Two linked messages are in one group.
LEMMA LinkedTogether ==
    ASSUME DataFacts, NEW i, NEW j, <<i, j>> \in Links(request), NEW g \in DOMAIN groups
    PROVE  i \in groups[g].members <=> j \in groups[g].members
<1> DEFINE l == <<i, j>>
<1>1. l \in Links(request) /\ l[1] = i /\ l[2] = j
  OBVIOUS
<1> HIDE DEF l
<1> QED
  BY <1>1 DEF DataFacts, IsGrouping

\* Nothing is reduced in a group with a protected message, nor dropped where prose
\* or the individual mode forbids it.
LEMMA HeldBack ==
    ASSUME DataFacts, NEW g \in DOMAIN groups, Chosen(g)
    PROVE  /\ groups[g].protected => Choice[g] = "keep"
           /\ Choice[g] = "drop" =>
                 /\ ~request.individually
                 /\ \A i \in groups[g].members :
                       ~(req.messages[i].role = "assistant" /\ req.messages[i].prose)
<1>1. groups[g].protected => Choice[g] = "keep"
  BY DEF Chosen, Candidates
<1>2. ASSUME Choice[g] = "drop"
      PROVE  /\ ~request.individually
             /\ \A i \in groups[g].members :
                   ~(req.messages[i].role = "assistant" /\ req.messages[i].prose)
  <2>1. Proposed(req, groups[g].members, "drop")
    BY <1>2 DEF Chosen, Offer
  <2> QED
    BY <2>1 DEF Proposed, DataFacts
<1> QED
  BY <1>1, <1>2

LEMMA SideEffectProtects ==
    ASSUME DataFacts, NEW g \in DOMAIN groups, NEW i \in groups[g].members,
           AnswersSideEffect(req.messages[i])
    PROVE  groups[g].protected
<1>1. i \in Indices(request) /\ Alike(request.messages[i], req.messages[i])
  BY DEF DataFacts, IsGrouping, Split
<1>2. PICK j \in Indices(request) : \E d \in Calls(request.messages[j]) :
          d.id = request.messages[i].result /\ d.side
  BY <1>1 DEF AnswersSideEffect, Alike
<1>3. PICK c \in Calls(request.messages[j]) :
          c.id = request.messages[i].result /\ c.side
  BY <1>2
<1>4. c.id # Nil
  <2>1. WellFormed(request.messages[j])
    BY DEF DataFacts, Valid, Plausible
  <2>2. IsMessage(request.messages[j])
    BY DEF DataFacts, IsRequest
  <2> QED
    BY <2>1, <2>2 DEF IsMessage, WellFormed
<1>5. Issues(request, j, request.messages[i].result)
  BY <1>3 DEF Issues, Calls, CallIds
<1>6. /\ request.messages[i].role = "tool" /\ CallOf(request, i) = j
      /\ ~request.individually => <<j, i>> \in Links(request)
  BY <1>1, <1>3, <1>4, <1>5, AnsweredCall
<1>7. CASE request.individually
  <2>1. c \in {d \in Calls(request.messages[j]) : d.id = request.messages[i].result}
    BY <1>3
  <2>2. Guarded(request, j, {d \in Calls(request.messages[j]) :
                                 d.id = request.messages[i].result})
    BY <1>3, <2>1 DEF Guarded
  <2>3. Inherited(request, i)
    BY <1>6, <2>2 DEF Inherited
  <2> QED
    BY <1>6, <1>7, <2>3 DEF DataFacts, IsGrouping, Protected, IsTool
<1>8. CASE ~request.individually
  <2>1. j \in groups[g].members
    BY <1>6, <1>8, LinkedTogether
  <2>2. Guarded(request, j, Calls(request.messages[j]))
    BY <1>3 DEF Guarded
  <2> QED
    BY <2>1, <2>2 DEF DataFacts, IsGrouping, Protected
<1> QED
  BY <1>7, <1>8

LEMMA VerbatimMeans == OutcomeInv => KeptVerbatim
<1> SUFFICES ASSUME OutcomeInv, result # Nil, NEW g \in DOMAIN groups,
                    NEW i \in groups[g].members,
                    \/ \E j \in groups[g].members :
                          Guarded(request, j, Calls(request.messages[j]))
                    \/ AnswersSideEffect(req.messages[i])
                    \/ req.messages[i].role = "assistant" /\ req.messages[i].prose
                    \/ request.individually /\ req.messages[i].role # "tool"
             PROVE  \E k \in DOMAIN result.messages :
                        result.messages[k] = req.messages[i]
  BY DEF KeptVerbatim
<1>1. DataFacts /\ Outcome
  BY DataMeans DEF OutcomeInv
<1>2. i \in Indices(req) /\ i \in Indices(request)
  BY <1>1 DEF DataFacts, Split
<1>3. CASE result.messages = req.messages
  BY <1>2, <1>3 DEF Indices
<1>4. CASE SelectInv /\ result.messages = Selected
  <2>1. ChoiceFacts
    BY <1>1, <1>4, SelectionMeans
  <2>2. groups[g].protected \/ (req.messages[i].role = "assistant" /\ req.messages[i].prose)
        \/ (request.individually /\ req.messages[i].role # "tool")
    <3>1. CASE \E j \in groups[g].members :
                   Guarded(request, j, Calls(request.messages[j]))
      BY <1>1, <3>1 DEF DataFacts, IsGrouping, Protected
    <3> QED
      BY <1>1, <3>1, SideEffectProtects
  <2>3. /\ groups[g].protected => Choice[g] = "keep"
        /\ Choice[g] = "drop" =>
              /\ ~request.individually
              /\ ~(req.messages[i].role = "assistant" /\ req.messages[i].prose)
    BY <1>1, <2>1, HeldBack DEF ChoiceFacts
  <2>4. Choice[g] # "drop" /\ Represent(req.messages[i], Choice[g]) = req.messages[i]
    BY <2>2, <2>3 DEF Represent
  <2> DEFINE S == Stays(Indices(req), groups, Choice)
             o == InOrder(S)
  <2>5. HomeOf(groups, i) = g
    BY <1>1, <1>2, HomeFacts DEF DataFacts
  <2>6. i \in S
    BY <1>2, <2>4, <2>5 DEF Stays
  <2>7. /\ Lists(o, S)
        /\ Selected = [k \in 1..Cardinality(S) |->
                          Represent(req.messages[o[k]], Choice[HomeOf(groups, o[k])])]
    BY <1>1, RewriteFacts DEF DataFacts, Selected
  <2> HIDE DEF S, o
  <2>8. PICK k \in 1..Cardinality(S) : o[k] = i
    BY <2>6, <2>7 DEF Lists
  <2> QED
    BY <1>4, <2>4, <2>5, <2>7, <2>8
<1> QED
  BY <1>1, <1>3, <1>4 DEF Outcome, Unapplied

\* The transcript a selection leaves is a transcript of the same protocol.

\* Where the messages of the output come from: S is what stays, o lists it.
Output(out, S, o) ==
    /\ S \subseteq Indices(request) /\ Lists(o, S)
    /\ DOMAIN out = 1..Cardinality(S) /\ Len(out) = Cardinality(S)
    /\ \A k \in 1..Cardinality(S) : Alike(request.messages[o[k]], out[k])
    /\ \A g \in DOMAIN groups :
          groups[g].members \subseteq S \/ groups[g].members \cap S = {}
    /\ request.individually => S = Indices(request)

LEMMA SelectedIsOutput ==
    ASSUME DataFacts, ChoiceFacts
    PROVE  \E S, o : Output(Selected, S, o)
<1> DEFINE S == Stays(Indices(req), groups, Choice)
           o == InOrder(S)
           N == Cardinality(S)
<1>1. /\ Lists(o, S)
      /\ Selected = [k \in 1..N |->
                        Represent(req.messages[o[k]], Choice[HomeOf(groups, o[k])])]
  BY RewriteFacts DEF DataFacts, Selected
<1>2. S \subseteq Indices(request) /\ \A i \in Indices(request) :
          i \in S <=> Choice[HomeOf(groups, i)] # "drop"
  BY DEF Stays, DataFacts
<1>3. ASSUME NEW m, NEW c, Alike(m, c), IsMessage(c), NEW a PROVE Alike(m, Represent(c, a))
  BY <1>3 DEF Alike, IsMessage, Represent
<1>4. \A i \in Indices(request) : /\ Alike(request.messages[i], req.messages[i])
                                  /\ IsMessage(req.messages[i])
  BY DEF DataFacts, IsRequest
<1>5. /\ \A i \in Indices(request) : /\ HomeOf(groups, i) \in DOMAIN groups
                                     /\ \A g \in DOMAIN groups :
                                           i \in groups[g].members <=> g = HomeOf(groups, i)
      /\ \A g \in DOMAIN groups : groups[g].members \subseteq Indices(request)
  BY HomeFacts DEF DataFacts, Split
<1> HIDE DEF S, o
<1>6. N \in Nat /\ \A k \in 1..N : o[k] \in S
  BY <1>1 DEF Lists
<1>7. DOMAIN Selected = 1..N /\ Len(Selected) = N
  BY <1>1, <1>6
<1>8. \A k \in 1..N : Alike(request.messages[o[k]], Selected[k])
  BY <1>1, <1>2, <1>3, <1>4, <1>6
<1>9. \A g \in DOMAIN groups :
          groups[g].members \subseteq S \/ groups[g].members \cap S = {}
  BY <1>2, <1>5
<1>10. request.individually => S = Indices(request)
  BY <1>2, <1>5, HeldBack DEF ChoiceFacts
<1> QED
  BY <1>1, <1>2, <1>7, <1>8, <1>9, <1>10 DEF Output

\* The place of a message of the output in the request.
LEMMA OutputPlaces ==
    ASSUME DataFacts, NEW out, NEW S, NEW o, Output(out, S, o)
    PROVE  /\ Cardinality(S) \in Nat
           /\ \A k \in 1..Cardinality(S) :
                 /\ o[k] \in S /\ o[k] \in Indices(request) /\ o[k] \in Nat
                 /\ Position(out[k]) = o[k]
           /\ \A j, k \in 1..Cardinality(S) : o[j] < o[k] => j < k
           /\ \A j, k \in 1..Cardinality(S) : o[j] = o[k] => j = k
<1> DEFINE N == Cardinality(S)
<1>1. /\ N \in Nat /\ \A k \in 1..N : o[k] \in S
      /\ \A j, k \in 1..N : j < k => o[j] < o[k]
  BY DEF Output, Lists
<1>2. Indices(request) \subseteq Nat /\ S \subseteq Indices(request)
  BY DEF DataFacts, IsRequest, Output
<1>3. \A i, j \in Indices(request) :
          request.messages[i].id = request.messages[j].id => i = j
  BY DEF DataFacts, Valid, Plausible
<1>4. \A k \in 1..N : out[k].id = request.messages[o[k]].id
  BY DEF Output, Alike
<1>5. \A k \in 1..N : Position(out[k]) = o[k]
  BY <1>1, <1>2, <1>3, <1>4 DEF Position
<1>6. \A k \in 1..N : o[k] \in Nat
  BY <1>1, <1>2
<1> HIDE DEF N
<1>7. \A j, k \in 1..N : o[j] < o[k] => j < k
  <2> SUFFICES ASSUME NEW j \in 1..N, NEW k \in 1..N, o[j] < o[k], ~(j < k)
               PROVE  FALSE
    OBVIOUS
  <2>1. k < j \/ k = j
    BY <1>1
  <2> QED
    BY <1>1, <1>6, <2>1
<1>8. \A j, k \in 1..N : o[j] = o[k] => j = k
  <2> SUFFICES ASSUME NEW j \in 1..N, NEW k \in 1..N, o[j] = o[k], j # k
               PROVE  FALSE
    OBVIOUS
  <2>1. k < j \/ j < k
    BY <1>1
  <2> QED
    BY <1>1, <1>6, <2>1
<1> QED
  BY <1>1, <1>2, <1>5, <1>6, <1>7, <1>8 DEF N

LEMMA OutputIsValid ==
    ASSUME DataFacts, NEW out, NEW S, NEW o, Output(out, S, o), out # <<>>
    PROVE  Valid([request EXCEPT !.messages = out, !.recent = 0])
<1> DEFINE N == Cardinality(S)
           q == [request EXCEPT !.messages = out, !.recent = 0]
<1>1. /\ q.messages = out /\ q.recent = 0 /\ q.goal = request.goal
      /\ q.target = request.target /\ q.individually = request.individually
  BY DEF DataFacts, IsRequest
<1>2. Indices(q) = 1..N /\ Len(q.messages) = N
  BY <1>1 DEF Indices, Output
<1> HIDE DEF q
<1>3. /\ N \in Nat
      /\ \A k \in 1..N : o[k] \in S /\ o[k] \in Indices(request) /\ o[k] \in Nat
      /\ \A j, k \in 1..N : o[j] < o[k] => j < k
      /\ \A j, k \in 1..N : o[j] = o[k] => j = k
      /\ \A i \in S : \E k \in 1..N : o[k] = i
  BY OutputPlaces, SMTT(30) DEF Output, Lists
<1>4. /\ S \subseteq Indices(request)
      /\ \A k \in 1..N : Alike(request.messages[o[k]], q.messages[k])
      /\ \A g \in DOMAIN groups :
            groups[g].members \subseteq S \/ groups[g].members \cap S = {}
      /\ request.individually => S = Indices(request)
  BY <1>1 DEF Output
<1>5. \A k \in 1..N :
          /\ CallIds(q.messages[k]) = CallIds(request.messages[o[k]])
          /\ DepIds(q.messages[k]) = DepIds(request.messages[o[k]])
          /\ WellFormed(request.messages[o[k]]) => WellFormed(q.messages[k])
  BY <1>4 DEF Alike, CallIds, DepIds, WellFormed
<1>6. N \in 1..MaxMessages
  <2> DEFINE L == Len(request.messages)
  <2>1. MaxMessages \in Nat /\ L \in Nat /\ L <= MaxMessages /\ Indices(request) = 1..L
    <3>1. MaxMessages \in Nat
      BY DEF MaxMessages
    <3>2. L \in 1..MaxMessages /\ L \in Nat /\ Indices(request) = 1..L
      BY DEF DataFacts, Valid, Plausible, IsRequest
    <3> QED
      BY <3>1, <3>2
  <2> HIDE DEF L
  <2>2. IsFiniteSet(1..L) /\ Cardinality(1..L) = L
    BY <2>1, FS_Interval
  <2>3. N <= L
    BY <1>4, <2>1, <2>2, FS_Subset
  <2>4. N # 0
    <3> SUFFICES ASSUME N = 0 PROVE FALSE
      OBVIOUS
    <3>1. Len(out) = 0 /\ DOMAIN out = {}
      BY <1>3 DEF Output
    <3>2. S = {}
      BY <1>3
    <3> QED
      BY <3>1, <3>2 DEF Output
  <2> QED
    BY <1>3, <2>1, <2>3, <2>4
<1>7. Plausible(q)
  <2>1. q.goal # "" /\ q.target >= 1 /\ Len(q.messages) \in 1..MaxMessages
    BY <1>1, <1>2, <1>6 DEF DataFacts, Valid, Plausible
  <2>2. q.recent >= 0
    BY <1>1
  <2>3. \A k \in 1..N : WellFormed(q.messages[k])
    BY <1>3, <1>5 DEF DataFacts, Valid, Plausible
  <2>4. ASSUME NEW j \in 1..N, NEW k \in 1..N, j # k
        PROVE  /\ q.messages[j].id # q.messages[k].id
               /\ q.messages[j].result = q.messages[k].result => q.messages[j].result = Nil
               /\ CallIds(q.messages[j]) \cap CallIds(q.messages[k]) = {}
    <3>1. o[j] # o[k] /\ o[j] \in Indices(request) /\ o[k] \in Indices(request)
      BY <1>3, <2>4
    <3>2. /\ request.messages[o[j]].id # request.messages[o[k]].id
          /\ request.messages[o[j]].result = request.messages[o[k]].result =>
                request.messages[o[j]].result = Nil
          /\ CallIds(request.messages[o[j]]) \cap CallIds(request.messages[o[k]]) = {}
      BY <3>1 DEF DataFacts, Valid, Plausible
    <3> QED
      BY <1>4, <1>5, <3>2 DEF Alike
  <2>5. ASSUME NEW k \in 1..N
        PROVE  Cardinality(CallIds(q.messages[k])) = Len(q.messages[k].calls)
    <3>1. Cardinality(CallIds(request.messages[o[k]])) = Len(request.messages[o[k]].calls)
      BY <1>3 DEF DataFacts, Valid, Plausible
    <3> QED
      BY <1>4, <1>5, <3>1 DEF Alike
  <2> QED
    BY <1>2, <2>1, <2>2, <2>3, <2>4, <2>5 DEF Plausible
\* Linked messages stay together.
<1>8. ASSUME NEW i \in S, NEW j, <<i, j>> \in Links(request) \/ <<j, i>> \in Links(request)
      PROVE  j \in S
  <2>1. PICK g \in DOMAIN groups : i \in groups[g].members
    BY <1>4 DEF DataFacts, IsGrouping, Split
  <2>2. j \in groups[g].members
    BY <1>8, <2>1, LinkedTogether
  <2> QED
    BY <1>4, <2>1, <2>2
<1>9. ASSUME NEW k \in 1..N, NEW d \in DepIds(q.messages[k])
      PROVE  \E l \in 1..N : q.messages[l].id = d
  <2>1. d \in DepIds(request.messages[o[k]]) /\ o[k] \in S /\ o[k] \in Indices(request)
    BY <1>3, <1>5
  <2>2. PICK j \in Indices(request) : request.messages[j].id = d
    BY <2>1 DEF DataFacts, Valid, KnownDependencies
  <2>3. <<o[k], j>> \in Links(request)
    BY <2>1, <2>2 DEF Links, DependencyLinks, Pairs
  <2>4. j \in S
    BY <1>8, <2>1, <2>3
  <2>5. PICK l \in 1..N : o[l] = j
    BY <1>3, <2>4
  <2> QED
    BY <1>4, <2>2, <2>5 DEF Alike
<1>10. ASSUME NEW k \in Results(q) PROVE Answers(q, k)
  <2>1. k \in 1..N /\ q.messages[k].result # Nil
    BY <1>2 DEF Results
  <2>2. /\ q.messages[k].result = request.messages[o[k]].result
        /\ o[k] \in S /\ o[k] \in Indices(request)
    BY <1>3, <1>4, <2>1 DEF Alike
  <2>3. o[k] \in Results(request)
    BY <2>1, <2>2 DEF Results
  <2>4. PICK j \in Indices(request) : Issues(request, j, request.messages[o[k]].result)
    BY <2>3 DEF DataFacts, Valid, Answers
  <2>5. j < o[k] /\ (~request.individually => <<j, o[k]>> \in Links(request))
    BY <2>1, <2>2, <2>4, AnsweredCall
  <2>6. j \in S
    BY <1>4, <1>8, <2>2, <2>5
  <2>7. PICK l \in 1..N : o[l] = j
    BY <1>3, <2>6
  <2>8. l < k /\ l \in Indices(q)
    BY <1>2, <1>3, <2>1, <2>5, <2>7
  <2>9. Issues(q, l, q.messages[k].result)
    BY <1>5, <2>2, <2>4, <2>7 DEF Issues
  <2> QED
    BY <2>8, <2>9 DEF Answers
<1> QED
  BY <1>2, <1>7, <1>9, <1>10 DEF Valid, KnownDependencies, q

LEMMA ValidMeans == OutcomeInv => StillValid
<1> SUFFICES ASSUME OutcomeInv, result # Nil, result.applied
             PROVE  LET out == result.messages
                        present == {Position(out[k]) : k \in DOMAIN out} IN
                    /\ \A k \in 1..(Len(out) - 1) : Position(out[k]) < Position(out[k + 1])
                    /\ out # <<>> =>
                          Valid([request EXCEPT !.messages = out, !.recent = 0])
                    /\ \A g \in DOMAIN groups :
                          groups[g].members \subseteq present
                          \/ groups[g].members \cap present = {}
  BY DEF StillValid
<1>1. DataFacts /\ Outcome
  BY DataMeans DEF OutcomeInv
<1>2. SelectInv /\ result.messages = Selected
  BY <1>1 DEF Outcome, Unapplied
<1>3. PICK S, o : Output(result.messages, S, o)
  BY <1>1, <1>2, SelectionMeans, SelectedIsOutput
<1> DEFINE out == result.messages
           N == Cardinality(S)
           present == {Position(out[k]) : k \in DOMAIN out}
<1>4. N \in Nat /\ \A k \in 1..N : o[k] \in S /\ Position(out[k]) = o[k]
  BY <1>1, <1>3, OutputPlaces
<1>5. /\ Len(out) = N /\ DOMAIN out = 1..N /\ \A i \in S : \E k \in 1..N : o[k] = i
      /\ \A j, k \in 1..N : j < k => o[j] < o[k]
  BY <1>3 DEF Output, Lists
<1>6. present = S
  BY <1>4, <1>5
<1>7. \A k \in 1..(Len(out) - 1) : Position(out[k]) < Position(out[k + 1])
  <2> HIDE DEF out
  <2> QED
    BY <1>4, <1>5
<1>8. out # <<>> => Valid([request EXCEPT !.messages = out, !.recent = 0])
  BY <1>1, <1>3, OutputIsValid
<1>9. \A g \in DOMAIN groups :
          groups[g].members \subseteq present \/ groups[g].members \cap present = {}
  BY <1>3, <1>6 DEF Output
<1> QED
  BY <1>7, <1>8, <1>9

-----------------------------------------------------------------------------
(***************************************************************************)
(* What the caller is told of the budget is true of the messages returned: *)
(* the reported size is theirs, met or unmet is against the caller's       *)
(* target, and nothing applied is longer than what came in (Compact).      *)
(***************************************************************************)
THEOREM BudgetIsTold == Spec => []BudgetTruth
BY OutcomeHolds, BudgetMeans, PTL

(***************************************************************************)
(* The total kept by differences in selectMessages is the size of the      *)
(* transcript that assemble builds, and the statistics, counted in a loop  *)
(* of their own (engine.go:122), account for every group.                  *)
(***************************************************************************)
THEOREM BooksAgree == Spec => []TotalsAgree
BY OutcomeHolds, TotalsMean, PTL

(***************************************************************************)
(* A budget reported as unmet could not have been met by any permitted     *)
(* choice of representations, and a partial result is as small as any of   *)
(* them (Compact's early return, selectMessages and the final check).      *)
(***************************************************************************)
THEOREM UnmetIsReal == Spec => []UnmetIsHonest
BY OutcomeHolds, UnmetMeans, PTL

(***************************************************************************)
(* Whatever the scorer answers, the messages that docs/architecture.md     *)
(* lists as verbatim are in the returned history word for word             *)
(* (protection, resultProtection and variants).                            *)
(***************************************************************************)
THEOREM GuardedStaysVerbatim == Spec => []KeptVerbatim
BY OutcomeHolds, VerbatimMeans, PTL

(***************************************************************************)
(* An applied result passes the validation of a fresh request, in the      *)
(* order of the original, with each group whole or absent (collectGroups,  *)
(* assemble).                                                              *)
(***************************************************************************)
THEOREM ResultStaysValid == Spec => []StillValid
BY OutcomeHolds, ValidMeans, PTL

-----------------------------------------------------------------------------
\* The engine behind its handler.

Form(at, kind, snap, ok, valid, known, holds, status) ==
    [at |-> at, kind |-> kind, snap |-> snap, ok |-> ok, valid |-> valid,
     known |-> known, holds |-> holds, reply |-> status]

LEMMA FormChanges ==
    ASSUME NEW a, NEW b, NEW k, NEW s, NEW o, NEW v, NEW n, NEW h, NEW x, NEW y
    PROVE  /\ [Form(a, k, s, o, v, n, h, x) EXCEPT !.at = b] = Form(b, k, s, o, v, n, h, x)
           /\ [Form(a, k, s, o, v, n, h, x) EXCEPT !.reply = y] = Form(a, k, s, o, v, n, h, y)
BY DEF Form

Served(at, status) == [r \in {Caller} |->
    [at |-> at, kind |-> "compact", snap |-> Clone(request), ok |-> TRUE,
     valid |-> FALSE, known |-> FALSE, holds |-> TRUE, reply |-> status]]

\* A request served moves on, or is replied to.
MovedTo(c, b) == [c EXCEPT ![Caller].at = b]
RepliedTo(c, y) == [c EXCEPT ![Caller].at = "leaving", ![Caller].reply = y]

LEMMA ServedMoves ==
    ASSUME NEW a, NEW b, NEW x, NEW y
    PROVE  /\ MovedTo(Served(a, x), b) = Served(b, x)
           /\ RepliedTo(Served(a, x), y) = Served("leaving", y)
           /\ Served(a, x)[Caller].at = a /\ Served(a, x)[Caller].kind = "compact"
           /\ Served(a, x)[Caller].snap = Clone(request)
<1> DEFINE c == Served(a, x)
<1> DEFINE Of(q) == [r \in {Caller} |-> q]
           yes == TRUE
           no  == FALSE
           F(p, q) == Form(p, "compact", Clone(request), yes, no, no, yes, q)
<1>1. \A p, q : Served(p, q) = Of(F(p, q))
  BY DEF Served, Form
<1>2. \A p, q, t : /\ [F(p, q) EXCEPT !.at = t] = F(t, q)
                   /\ [F(p, q) EXCEPT !.reply = t] = F(p, t)
                   /\ F(p, q).at = p /\ F(p, q).kind = "compact"
                   /\ F(p, q).snap = Clone(request)
  <2> HIDE DEF yes, no
  <2>1. \A p, q : /\ F(p, q).at = p /\ F(p, q).kind = "compact"
                  /\ F(p, q).snap = Clone(request)
    BY DEF Form
  <2> QED
    BY <2>1, FormChanges
<1>3. \A q, t : [Of(q) EXCEPT ![Caller] = t] = Of(t)
  OBVIOUS
<1>4. \A q : Of(q)[Caller] = q
  OBVIOUS
<1>5. c = Of(F(a, x))
  BY <1>1
<1> HIDE DEF Of, F, c
<1>6. \A t : [c EXCEPT ![Caller].at = t] = Of(F(t, x))
  BY <1>2, <1>3, <1>4, <1>5
<1>7. [c EXCEPT ![Caller].at = "leaving", ![Caller].reply = y] = Of(F("leaving", y))
  <2>1. [c EXCEPT ![Caller].at = "leaving", ![Caller].reply = y]
          = [[c EXCEPT ![Caller].at = "leaving"] EXCEPT ![Caller].reply = y]
    OBVIOUS
  <2>2. [Of(F("leaving", x)) EXCEPT ![Caller].reply = y] = Of(F("leaving", y))
    BY <1>2, <1>3, <1>4
  <2>3. [c EXCEPT ![Caller].at = "leaving"] = Of(F("leaving", x))
    BY <1>6
  <2> QED
    BY <2>1, <2>2, <2>3
<1>8. /\ c[Caller].at = a /\ c[Caller].kind = "compact"
      /\ c[Caller].snap = Clone(request)
  BY <1>2, <1>4, <1>5
<1>9. MovedTo(c, b) = Of(F(b, x))
  BY <1>6 DEF MovedTo
<1>10. RepliedTo(c, y) = Of(F("leaving", y))
  BY <1>7 DEF RepliedTo
<1> QED
  BY <1>1, <1>8, <1>9, <1>10 DEF c

LEMMA ServingIsServed == Serving = Served(Stage, Status)
BY DEF Serving, Served

\* A step that keeps the request, and what it shows at the handler.
LEMMA SeenGoes ==
    ASSUME NEW a, NEW b, Stage = a, Stage' = b, Status' = Status, request' = request
    PROVE  Handler!Goes(Caller, a, b)
<1>1. Serving' = Served(b, Status)
  BY DEF Serving, Served
<1>2. Serving = Served(a, Status)
  BY ServingIsServed
<1>3. Serving[Caller].at = a /\ Serving' = MovedTo(Serving, b)
  BY <1>1, <1>2, ServedMoves
<1> QED
  BY <1>3 DEF Handler!Goes, MovedTo

LEMMA SeenReplies ==
    ASSUME NEW a, NEW x, Stage = a, Stage' = "leaving", Status' = x, request' = request
    PROVE  Handler!Replies(Caller, a, x)
<1>1. Serving' = Served("leaving", x)
  BY DEF Serving, Served
<1>2. Serving = Served(a, Status)
  BY ServingIsServed
<1>3. Serving[Caller].at = a /\ Serving' = RepliedTo(Serving, x)
  BY <1>1, <1>2, ServedMoves
<1> QED
  BY <1>3 DEF Handler!Replies, RepliedTo

(***************************************************************************)
(* What the handler's view depends on: nothing is archived before the      *)
(* snapshot gets its name, and then just this one; and an error is there   *)
(* only at the end.                                                        *)
(***************************************************************************)
ViewInv ==
    /\ pc \in Pcs
    /\ pc # "done" => err = "none"
    /\ pc \in {"count", "save", "named"} => req = Clone(request)
    /\ pc \in {"begin", "count", "save"} => archive = {}
    /\ pc = "named" => archive = {Clone(request)}

LEMMA ViewInit == Init => ViewInv /\ Stage = "checking"
BY DEF Init, ViewInv, Pcs, Stage

Asking == {"fit", "score", "check", "select", "finish"}

\* Steps that the handler does not see.
LEMMA ViewMoves ==
    ASSUME ViewInv, pc \in Asking, pc' \in Asking,
           UNCHANGED <<request, cancelled, archive, err>>
    PROVE  ViewInv' /\ UNCHANGED seen
<1>1. ViewInv'
  BY DEF ViewInv, Asking, Pcs
<1>2. Stage = "scoring" /\ Stage' = "scoring" /\ Status = Nil /\ Status' = Nil
  BY DEF Stage, Status, Asking
<1>3. Acknowledged' = Acknowledged
  BY DEF Acknowledged, Asking
<1> QED
  BY <1>1, <1>2, <1>3 DEF seen

\* The archive and the context are left alone.
LEMMA ViewRests ==
    ASSUME UNCHANGED <<cancelled, archive, Acknowledged>>
    PROVE  Handler!Rest
BY DEF Handler!Rest, Handler!archive, Ended

\* A step that ends the call, with the status that the error gives.
LEMMA ViewEnds ==
    ASSUME ViewInv, NEW a, NEW x, Stage = a, pc # "done", pc' = "done", Status' = x,
           err' = "archive" => archive = {} \/ Acknowledged = {},
           err' # "archive" => pc # "named",
           UNCHANGED <<request, cancelled, archive>>
    PROVE  ViewInv' /\ Handler!Replies(Caller, a, x) /\ Handler!Rest
<1>1. ViewInv'
  BY DEF ViewInv, Pcs
<1>2. Stage' = "leaving"
  BY DEF Stage
<1>3. Handler!Replies(Caller, a, x)
  BY <1>2, SeenReplies
<1>4. Acknowledged' = Acknowledged
  BY DEF Acknowledged, ViewInv
<1> QED
  BY <1>1, <1>3, <1>4, ViewRests

\* After the archive: a result, or an error of the context's or an internal one.
LEMMA AskingEnds ==
    ASSUME ViewInv, pc \in Asking, pc' = "done", UNCHANGED <<request, cancelled, archive>>,
           err' \in {"none", "internal"} \/ (err' = "canceled" /\ cancelled)
    PROVE  ViewInv' /\ Handler!Compacting(Caller)
<1>1. Stage = "scoring" /\ pc # "done" /\ pc # "named" /\ err' # "archive"
  BY DEF Stage, Asking
<1>2. CASE err' = "none"
  <2>1. Status' = 200
    BY <1>2 DEF Status
  <2>2. ViewInv' /\ Handler!Replies(Caller, "scoring", 200) /\ Handler!Rest
    BY <1>1, <2>1, ViewEnds
  <2> QED
    BY <2>2 DEF Handler!Compacting, Handler!Result
<1>3. CASE err' = "internal"
  <2>1. Status' = 500
    BY <1>3 DEF Status
  <2>2. ViewInv' /\ Handler!Replies(Caller, "scoring", 500) /\ Handler!Rest
    BY <1>1, <2>1, ViewEnds
  <2> QED
    BY <2>2 DEF Handler!Compacting, Handler!ResultFails
<1>4. CASE err' = "canceled" /\ cancelled
  <2>1. Status' = 504
    BY <1>4 DEF Status
  <2>2. ViewInv' /\ Handler!Replies(Caller, "scoring", 504) /\ Handler!Rest
    BY <1>1, <2>1, ViewEnds
  <2>3. Caller \in Ended
    BY <1>4 DEF Ended
  <2> QED
    BY <2>2, <2>3 DEF Handler!Compacting, Handler!ResultFails
<1> QED
  BY <1>2, <1>3, <1>4

Handles == Handler!Compacting(Caller) \/ Handler!ContextEnds(Caller) \/ UNCHANGED seen

LEMMA BeginHandled == ASSUME ViewInv, Begin PROVE ViewInv' /\ Handles
<1>1. pc = "begin" /\ Stage = "checking" /\ archive = {} /\ err = "none" /\ Status = Nil
  BY DEF Begin, ViewInv, Stage, Status
<1>2. CASE cancelled /\ Fail("canceled") /\ UNCHANGED archive
  <2>1. /\ pc' = "done" /\ err' = "canceled" /\ Status' = 504
        /\ UNCHANGED <<request, cancelled, archive>>
    BY <1>2 DEF Fail, Status
  <2>2. ViewInv' /\ Handler!Replies(Caller, "checking", 504) /\ Handler!Rest
    BY <1>1, <2>1, ViewEnds
  <2>3. Caller \in Ended
    BY <1>2 DEF Ended
  <2> QED
    BY <2>2, <2>3 DEF Handler!Compacting, Handler!Rejected, Handles
<1>3. CASE ~cancelled /\ Fail("invalid") /\ UNCHANGED archive
  <2>1. /\ pc' = "done" /\ err' = "invalid" /\ Status' = 400
        /\ UNCHANGED <<request, cancelled, archive>>
    BY <1>3 DEF Fail, Status
  <2>2. ViewInv' /\ Handler!Replies(Caller, "checking", 400) /\ Handler!Rest
    BY <1>1, <2>1, ViewEnds
  <2>3. Caller \notin Ended
    BY <1>3 DEF Ended
  <2> QED
    BY <2>2, <2>3 DEF Handler!Compacting, Handler!Rejected, Handles
<1>4. CASE /\ ~cancelled /\ pc' = "count" /\ req' = Clone(request)
           /\ UNCHANGED <<request, cancelled, archive, err>>
  <2>1. ViewInv'
    BY <1>1, <1>4 DEF ViewInv, Pcs
  <2>2. Stage' = "saving" /\ Status' = Status /\ Acknowledged' = Acknowledged
    BY <1>1, <1>4 DEF Stage, Status, Acknowledged
  <2>3. Handler!Goes(Caller, "checking", "saving")
    BY <1>1, <1>4, <2>2, SeenGoes
  <2>4. Handler!Rest /\ Caller \notin Ended
    BY <1>4, <2>2, ViewRests DEF Ended
  <2> QED
    BY <2>1, <2>3, <2>4 DEF Handler!Compacting, Handler!StartSave, Handles
<1> QED
  BY <1>2, <1>3, <1>4 DEF Begin

LEMMA CountFailsHandled == ASSUME ViewInv, CountFails PROVE ViewInv' /\ Handles
<1>1. /\ pc' = "done" /\ err' = "internal" /\ Status' = 500
      /\ UNCHANGED <<request, cancelled, archive>>
  BY DEF CountFails, Fail, Status
<1>2. CASE pc \in Asking
  BY <1>1, <1>2, AskingEnds DEF Handles
<1>3. CASE pc = "count"
  <2>1. Stage = "saving" /\ archive = {}
    BY <1>3 DEF Stage, ViewInv
  <2>2. ViewInv' /\ Handler!Replies(Caller, "saving", 500) /\ Handler!Rest
    BY <1>1, <1>3, <2>1, ViewEnds
  <2> QED
    BY <2>2 DEF Handler!Compacting, Handler!SaveFails, Handles
<1> QED
  BY <1>2, <1>3 DEF CountFails, Asking

LEMMA NamedHandled == ASSUME ViewInv, Named PROVE ViewInv' /\ Handles
<1>1. /\ pc = "save" /\ pc' = "named" /\ archive' = archive \cup {Clone(request)}
      /\ archive = {} /\ err = "none" /\ req = Clone(request)
      /\ UNCHANGED <<request, req, cancelled, err>>
  BY DEF Named, ViewInv
<1>2. ViewInv'
  BY <1>1 DEF ViewInv, Pcs
<1>3. /\ Stage = "saving" /\ Stage' = "named" /\ Status' = Status
      /\ Acknowledged = {} /\ Acknowledged' = {}
  BY <1>1 DEF Stage, Status, Acknowledged
<1>4. Handler!Goes(Caller, "saving", "named")
  BY <1>1, <1>3, SeenGoes
<1>5. Serving[Caller].snap = Clone(request)
  BY ServingIsServed, ServedMoves
<1>6. Handler!Archive!Appear(Serving[Caller].snap)
  BY <1>1, <1>3, <1>5 DEF Handler!Archive!Appear
<1>7. UNCHANGED <<Ended, 1, {}>>
  BY <1>1 DEF Ended
<1> QED
  BY <1>2, <1>4, <1>6, <1>7 DEF Handler!Compacting, Handler!Named, Handles

LEMMA SaveHandled == ASSUME ViewInv, Save PROVE ViewInv' /\ Handles
<1>1. /\ pc = "named" /\ pc' = "fit" /\ archive = {Clone(request)} /\ err = "none"
      /\ UNCHANGED <<request, req, cancelled, archive, err>>
  BY DEF Save, Goto, ViewInv
<1>2. ViewInv'
  BY <1>1 DEF ViewInv, Pcs
<1>3. /\ Stage = "named" /\ Stage' = "scoring" /\ Status' = Status
      /\ Acknowledged = {} /\ Acknowledged' = {Clone(request)}
  BY <1>1 DEF Stage, Status, Acknowledged
<1>4. Handler!Goes(Caller, "named", "scoring")
  BY <1>1, <1>3, SeenGoes
<1>5. Serving[Caller].snap = Clone(request)
  BY ServingIsServed, ServedMoves
<1>6. Handler!Archive!Acknowledge(Serving[Caller].snap)
  BY <1>1, <1>3, <1>5 DEF Handler!Archive!Acknowledge
<1>7. UNCHANGED <<Ended, 1, {}>>
  BY <1>1 DEF Ended
<1> QED
  BY <1>2, <1>4, <1>6, <1>7 DEF Handler!Compacting, Handler!Saved, Handles

LEMMA SaveFailsHandled == ASSUME ViewInv, SaveFails PROVE ViewInv' /\ Handles
<1>1. pc' = "done" /\ UNCHANGED <<request, cancelled, archive>>
  BY DEF SaveFails, Fail
<1>2. CASE pc = "save" /\ cancelled /\ Fail("canceled")
  <2>1. err' = "canceled" /\ Status' = 504 /\ Stage = "saving" /\ Caller \in Ended
    BY <1>2 DEF Fail, Status, Stage, Ended
  <2>2. ViewInv' /\ Handler!Replies(Caller, "saving", 504) /\ Handler!Rest
    BY <1>1, <1>2, <2>1, ViewEnds
  <2> QED
    BY <2>1, <2>2 DEF Handler!Compacting, Handler!SaveFails, Handles
<1>3. CASE pc = "save" /\ Fail("archive")
  <2>1. err' = "archive" /\ Status' = 500 /\ Stage = "saving" /\ archive = {}
    BY <1>3 DEF Fail, Status, Stage, ViewInv
  <2>2. ViewInv' /\ Handler!Replies(Caller, "saving", 500) /\ Handler!Rest
    BY <1>1, <1>3, <2>1, ViewEnds
  <2> QED
    BY <2>2 DEF Handler!Compacting, Handler!SaveFails, Handles
<1>4. CASE pc = "named" /\ Fail("archive")
  <2>1. err' = "archive" /\ Status' = 500 /\ Stage = "named" /\ Acknowledged = {}
    BY <1>4 DEF Fail, Status, Stage, Acknowledged
  <2>2. ViewInv' /\ Handler!Replies(Caller, "named", 500) /\ Handler!Rest
    BY <1>1, <1>4, <2>1, ViewEnds
  <2> QED
    BY <2>2 DEF Handler!Compacting, Handler!SaveFails, Handles
<1> QED
  BY <1>2, <1>3, <1>4 DEF SaveFails

LEMMA CheckHandled == ASSUME ViewInv, Check PROVE ViewInv' /\ Handles
<1>1. pc \in Asking /\ err = "none"
  BY DEF Check, Asking, ViewInv
<1>2. CASE cancelled /\ Fail("canceled") /\ UNCHANGED archive
  BY <1>1, <1>2, AskingEnds DEF Fail, Handles
<1>3. CASE \E stats : Retain("scoring_failed", stats)
  BY <1>1, <1>3, AskingEnds DEF Retain, Handles
<1>4. CASE pc' = "select" /\ UNCHANGED <<request, cancelled, archive, err>>
  BY <1>1, <1>4, ViewMoves DEF Asking, Handles
<1> QED
  BY <1>2, <1>3, <1>4 DEF Check

LEMMA FinishHandled == ASSUME ViewInv, Finish PROVE ViewInv' /\ Handles
<1>1. pc \in Asking /\ err = "none"
  BY DEF Finish, Asking, ViewInv
<1>2. CASE cancelled /\ Fail("canceled") /\ UNCHANGED archive
  BY <1>1, <1>2, AskingEnds DEF Fail, Handles
<1>3. CASE \E stats : Retain("budget_unmet", stats)
  BY <1>1, <1>3, AskingEnds DEF Retain, Handles
<1>4. CASE pc' = "done" /\ UNCHANGED <<request, cancelled, archive, err>>
  BY <1>1, <1>4, AskingEnds DEF Handles
<1> QED
  BY <1>2, <1>3, <1>4 DEF Finish

LEMMA CancelHandled == ASSUME ViewInv, Cancel PROVE ViewInv' /\ Handles
<1>1. /\ pc # "done" /\ ~cancelled /\ cancelled' = TRUE
      /\ UNCHANGED <<pc, request, req, archive, err>>
  BY DEF Cancel
<1>2. ViewInv'
  BY <1>1 DEF ViewInv
<1>3. /\ Stage \notin {"idle", "leaving"}
      /\ UNCHANGED <<Stage, Status, Acknowledged>>
  BY <1>1 DEF Stage, Status, Acknowledged
<1>4. Serving' = Serving
  BY <1>1, <1>3 DEF Serving
<1>5. Serving[Caller].at = Stage
  BY ServingIsServed, ServedMoves
<1>6. Ended' = Ended \cup {Caller} /\ Caller \notin Ended
  BY <1>1 DEF Ended
<1> QED
  BY <1>1, <1>2, <1>3, <1>4, <1>5, <1>6 DEF Handler!ContextEnds, Handler!archive, Handles

LEMMA ViewStep == ViewInv /\ [Next]_vars => ViewInv' /\ Handles
<1> SUFFICES ASSUME ViewInv, [Next]_vars PROVE ViewInv' /\ Handles
  OBVIOUS
<1>1. CASE Begin
  BY <1>1, BeginHandled
<1>2. CASE CountInput
  <2>1. /\ pc = "count" /\ pc' = "save" /\ UNCHANGED <<request, req, cancelled, archive, err>>
    BY <1>2 DEF CountInput, Goto
  <2>2. ViewInv'
    BY <2>1 DEF ViewInv, Pcs
  <2>3. UNCHANGED <<Stage, Status, Acknowledged>>
    BY <2>1 DEF Stage, Status, Acknowledged
  <2> QED
    BY <2>1, <2>2, <2>3 DEF seen, Handles
<1>3. CASE Named
  BY <1>3, NamedHandled
<1>4. CASE Save
  BY <1>4, SaveHandled
<1>5. CASE SaveFails
  BY <1>5, SaveFailsHandled
<1>6. CASE FitsAlready
  BY <1>6, AskingEnds DEF FitsAlready, Retain, Asking, ViewInv, Handles
<1>7. CASE ProtectedTooBig
  BY <1>7, AskingEnds DEF ProtectedTooBig, Overfull, Retain, Asking, ViewInv, Handles
<1>8. CASE NothingReducible
  BY <1>8, AskingEnds
     DEF NothingReducible, Proposing, Overfull, Retain, Asking, ViewInv, Handles
<1>9. CASE Propose
  BY <1>9, ViewMoves DEF Propose, Proposing, Overfull, Goto, Asking, Handles
<1>10. CASE AskScorer
  BY <1>10, ViewMoves DEF AskScorer, Asking, Handles
<1>11. CASE Check
  BY <1>11, CheckHandled
<1>12. CASE SelectStep
  BY <1>12, ViewMoves DEF SelectStep, Asking, Handles
<1>13. CASE SelectDone
  BY <1>13, ViewMoves DEF SelectDone, Goto, Asking, Handles
<1>14. CASE SelectCanceled
  BY <1>14, AskingEnds DEF SelectCanceled, Fail, Asking, Handles
<1>15. CASE Finish
  BY <1>15, FinishHandled
<1>16. CASE CountFails
  BY <1>16, CountFailsHandled
<1>17. CASE Cancel
  BY <1>17, CancelHandled
<1>18. CASE UNCHANGED vars
  BY <1>18 DEF vars, ViewInv, Handles, seen, Stage, Status, Acknowledged
<1> QED
  BY <1>1, <1>2, <1>3, <1>4, <1>5, <1>6, <1>7, <1>8, <1>9, <1>10, <1>11, <1>12,
     <1>13, <1>14, <1>15, <1>16, <1>17, <1>18 DEF Next, Compact

(***************************************************************************)
(* A call of Compact, whatever the request, the scorer's answer and the    *)
(* failures, looks to its handler as Server and Vault describe it: it is   *)
(* refused only before the archive, its result comes only after the        *)
(* snapshot is acknowledged, and it is called timed out only when its      *)
(* context has ended (server.go:139-145, 165-176; engine.go:30-155).       *)
(***************************************************************************)
THEOREM EngineIsHandled == Spec => HandledByServer
<1>1. ViewInv /\ [Next]_vars => [Handler!Compacting(Caller) \/ Handler!ContextEnds(Caller)]_seen
  BY ViewStep DEF Handles
<1>2. ViewInv /\ [Next]_vars => ViewInv'
  BY ViewStep
<1> QED
  BY ViewInit, <1>1, <1>2, PTL DEF Spec, HandledByServer

=============================================================================
