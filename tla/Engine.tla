------------------------------- MODULE Engine -------------------------------
(***************************************************************************)
(* One call of Engine.Compact (compact/engine.go): validate and group,     *)
(* copy, count, archive, try to return early, ask the scorer, check its    *)
(* reply, select greedily, and report.  The caller may cancel at any       *)
(* moment, the store and the scorer may fail, and the scorer may answer    *)
(* anything.                                                               *)
(***************************************************************************)
EXTENDS Transcript

CONSTANTS
    Requests,     \* requests callers may submit
    Scores,       \* score records a scorer may return for one candidate
    Errors        \* which dependencies may fail: counter, store, scorer

ASSUME RequestsAssumption == \A r \in Requests : IsRequest(r)

VARIABLES
    pc,           \* begin, count, save, named, fit, score, check, select, finish, done
    request,      \* the caller's request; never assigned
    req,          \* the engine's copy of it
    groups,       \* dependency groups: leader -> [members, protected]
    cancelled,    \* the caller's context
    archive,      \* requests in the archive
    asked,        \* whether the scorer has been called
    reply,        \* what it returned: Nil (none or an error) or id -> score
    input, selected, total,   \* the selection under way, see Selection
    result,       \* the Result returned, or Nil
    err           \* the class of the error returned, or "none"

sel  == <<input, selected, total>>
vars == <<pc, request, req, groups, cancelled, archive, asked, reply, sel,
          result, err>>

Sel == INSTANCE Selection WITH Cases <- {}

NoScore == [keep |-> Nil, loss |-> Nil, relevance |-> 0, detail |-> 0]

Init ==
    /\ pc = "begin"
    /\ request \in Requests
    /\ req = Nil /\ groups = Nil
    /\ cancelled \in BOOLEAN
    /\ archive = {}
    /\ asked = FALSE /\ reply = Nil
    /\ input = Nil /\ selected = Nil /\ total = 0
    /\ result = Nil /\ err = "none"

-----------------------------------------------------------------------------
\* Derived quantities.

Before == Count(req.messages)
Candidates == {g \in DOMAIN groups : ~groups[g].protected}
\* Mutant of Minimum: counts every group.
MinimumOfAll ==
    SumFunction([g \in DOMAIN groups |-> GroupSize(req, groups[g].members, "keep")])

Minimum == SumFunction([g \in DOMAIN groups \ Candidates |->
                            GroupSize(req, groups[g].members, "keep")])

\* evaluate(): the selection problem, without protected groups' proposals.
Problem(scores) ==
    LET members(g) == groups[g].members IN
    [groups    |-> DOMAIN groups,
     protected |-> DOMAIN groups \ Candidates,
     cost  |-> [g \in DOMAIN groups |-> GroupSize(req, members(g), "keep")],
     offer |-> [g \in DOMAIN groups |->
                  {a \in Sel!Actions : g \in Candidates /\ Proposed(req, members(g), a)}],
     size  |-> [g \in DOMAIN groups |->
                  [a \in Sel!Actions |-> GroupSize(req, members(g), a)]],
     score |-> [g \in DOMAIN groups |->
                  IF g \in Candidates THEN scores[g] ELSE NoScore],
     target |-> req.target]

Offer(g) == {a \in Sel!Actions : Proposed(req, groups[g].members, a)}

\* validateScores(): every candidate scored, unambiguously, by probabilities.
ValidScore(g, s) ==
    /\ s # Nil
    /\ s.keep = Nil \/ s.loss = Nil
    /\ s.keep # Nil => {s.keep.call, s.keep.result} \subseteq Sel!Percent
    /\ s.loss # Nil => \A a \in Offer(g) :
                          a \in DOMAIN s.loss /\ s.loss[a] \in Sel!Percent
    /\ s.keep = Nil /\ s.loss = Nil =>
          {s.relevance, s.detail} \subseteq Sel!Percent

ValidReply(r) == \A g \in Candidates : ValidScore(g, r[g])

Choice == [g \in DOMAIN groups |-> selected[g].action]
Selected == Rewrite(req, groups, Choice)

-----------------------------------------------------------------------------
\* Ways to return.

Fail(class) ==
    /\ pc' = "done"
    /\ err' = class
    /\ UNCHANGED <<request, req, groups, cancelled, asked, reply, sel, result>>

\* Mutant of Stats: counts a dropped group as reduced too.
StatsTwice(choice) ==
    LET kept == {g \in Candidates : choice[g] = "keep"} IN
    [protected |-> Cardinality(DOMAIN groups \ Candidates),
     kept      |-> Cardinality(kept),
     dropped   |-> Cardinality({g \in Candidates : choice[g] = "drop"}),
     reduced   |-> Cardinality(Candidates \ kept),
     rejected  |-> Cardinality({g \in kept :
                      \A a \in Offer(g) : ~Sel!Allowed(reply[g], a)})]

Stats(choice) ==
    LET kept == {g \in Candidates : choice[g] = "keep"} IN
    [protected |-> Cardinality(DOMAIN groups \ Candidates),
     kept      |-> Cardinality(kept),
     dropped   |-> Cardinality({g \in Candidates : choice[g] = "drop"}),
     reduced   |-> Cardinality({g \in Candidates : choice[g] \notin {"keep", "drop"}}),
     rejected  |-> Cardinality({g \in kept :
                      \A a \in Offer(g) : ~Sel!Allowed(reply[g], a)})]

NoStats == [protected |-> 0, kept |-> 0, dropped |-> 0, reduced |-> 0,
            rejected |-> 0]

\* Mutant of Retain: the selection replaces the messages before it is judged.
RetainSelected(status, stats) ==
    /\ pc' = "done"
    /\ result' = [status |-> status, applied |-> FALSE,
                  budgetMet |-> status = "unchanged",
                  messages |-> IF selected = Nil THEN req.messages ELSE Selected,
                  decisions |-> <<>>,
                  snapshot |-> req, output |-> Before, stats |-> stats]
    /\ UNCHANGED <<request, req, groups, cancelled, archive, asked, reply, sel, err>>

\* A result that leaves the history as it is.
Retain(status, stats) ==
    /\ pc' = "done"
    /\ result' = [status |-> status, applied |-> FALSE,
                  budgetMet |-> status = "unchanged",
                  messages |-> req.messages, decisions |-> <<>>,
                  snapshot |-> req, output |-> Before, stats |-> stats]
    /\ UNCHANGED <<request, req, groups, cancelled, archive, asked, reply, sel, err>>

Goto(label) == /\ pc' = label
               /\ UNCHANGED <<request, req, groups, cancelled, archive, asked,
                              reply, sel, result, err>>

-----------------------------------------------------------------------------
\* The caller's context may be cancelled between any two steps.
Cancel ==
    /\ pc # "done" /\ ~cancelled
    /\ cancelled' = TRUE
    /\ UNCHANGED <<pc, request, req, groups, archive, asked, reply, sel,
                   result, err>>

Begin ==
    /\ pc = "begin"
    /\ \/ cancelled /\ Fail("canceled") /\ UNCHANGED archive
       \/ ~cancelled /\ ~Valid(request) /\ Fail("invalid") /\ UNCHANGED archive
       \/ /\ ~cancelled /\ Valid(request)
          /\ groups' = Collect(request)
          /\ req' = Clone(request)
          /\ pc' = "count"
          /\ UNCHANGED <<request, cancelled, archive, asked, reply, sel,
                         result, err>>

\* Any of the counter's calls may fail.
CountFails ==
    /\ "counter" \in Errors
    /\ pc \in {"count", "fit", "select", "finish"}
    /\ Fail("internal")
    /\ UNCHANGED archive

CountInput == pc = "count" /\ Goto("save")

\* The snapshot gets its name in the archive; then Save returns its id.
Named == /\ pc = "save"
         /\ archive' = archive \cup {req}
         /\ pc' = "named"
         /\ UNCHANGED <<request, req, groups, cancelled, asked, reply, sel,
                        result, err>>

Save == pc = "named" /\ Goto("fit")

\* Mutant of SaveFails: a failing store is ignored.
SaveBestEffort == pc \in {"save", "named"} /\ "store" \in Errors /\ Goto("fit")

\* The store may fail before, or after, the request has become durable; it looks
\* at the context before.
SaveFails ==
    /\ \/ pc \in {"save", "named"} /\ "store" \in Errors /\ Fail("archive")
       \/ pc = "save" /\ cancelled /\ Fail("canceled")
    /\ UNCHANGED archive

FitsAlready == /\ pc = "fit" /\ Before <= req.target
               /\ Retain("unchanged", NoStats)

Overfull == pc = "fit" /\ Before > req.target

ProtectedTooBig == /\ Overfull /\ Minimum > req.target /\ ~req.partial
                   /\ Retain("budget_unmet", [NoStats EXCEPT !.protected =
                          Cardinality(DOMAIN groups \ Candidates)])

Proposing == Overfull /\ (Minimum <= req.target \/ req.partial)

NothingReducible == /\ Proposing /\ Candidates = {}
                    /\ Retain("budget_unmet", [NoStats EXCEPT !.protected =
                          Cardinality(DOMAIN groups \ Candidates)])

Propose == Proposing /\ Candidates # {} /\ Goto("score")

\* The scorer answers anything of the declared shape, or fails.
AskScorer ==
    /\ pc = "score"
    /\ asked' = TRUE
    /\ \/ reply' \in [Candidates -> Scores \cup {Nil}]
       \/ ("scorer" \in Errors \/ cancelled) /\ reply' = Nil
    /\ pc' = "check"
    /\ UNCHANGED <<request, req, groups, cancelled, archive, sel, result, err>>

Check ==
    /\ pc = "check"
    /\ \/ cancelled /\ Fail("canceled") /\ UNCHANGED archive
       \/ /\ ~cancelled
          /\ reply # Nil => ~ValidReply(reply)
          /\ Retain("scoring_failed", [NoStats EXCEPT !.protected =
                Cardinality(DOMAIN groups \ Candidates)])
       \/ /\ ~cancelled
          /\ reply # Nil /\ ValidReply(reply)
          /\ pc' = "select"
          /\ input' = Problem(reply)
          /\ selected' = Sel!Keeping(input')
          /\ total' = SumFunction(input'.cost)
          /\ UNCHANGED <<request, req, groups, cancelled, archive, asked, reply,
                         result, err>>

\* One round of selectMessages' loop, its exit, and its cancellation check.
SelectStep ==
    /\ pc = "select" /\ ~cancelled
    /\ Sel!Reduce
    /\ UNCHANGED <<pc, request, req, groups, cancelled, archive, asked, reply,
                   result, err>>

SelectDone ==
    /\ pc = "select"
    /\ total <= input.target \/ (~cancelled /\ Sel!Open = {})
    /\ Goto("finish")

SelectCanceled ==
    /\ pc = "select" /\ cancelled /\ total > input.target
    /\ Fail("canceled") /\ UNCHANGED archive

\* Mutant of Finish: allow_partial applies a selection that reduces nothing.
FinishAnyway ==
    /\ pc = "finish"
    /\ LET after == Count(Selected) IN
       \/ cancelled /\ Fail("canceled") /\ UNCHANGED archive
       \/ /\ ~cancelled /\ after > req.target /\ ~req.partial
          /\ Retain("budget_unmet", Stats(Choice))
       \/ /\ ~cancelled /\ (after <= req.target \/ req.partial)
          /\ pc' = "done"
          /\ result' = [status |-> IF after <= req.target THEN "compacted"
                                                          ELSE "partial",
                        applied |-> TRUE, budgetMet |-> after <= req.target,
                        messages |-> Selected, decisions |-> Choice,
                        snapshot |-> req, output |-> after,
                        stats |-> Stats(Choice)]
          /\ UNCHANGED <<request, req, groups, cancelled, archive, asked, reply,
                         sel, err>>

Finish ==
    /\ pc = "finish"
    /\ LET after == Count(Selected) IN
       \/ cancelled /\ Fail("canceled") /\ UNCHANGED archive
       \/ /\ ~cancelled
          /\ after > req.target /\ (~req.partial \/ after >= Before)
          /\ Retain("budget_unmet", Stats(Choice))
       \/ /\ ~cancelled
          /\ after <= req.target \/ (req.partial /\ after < Before)
          /\ pc' = "done"
          /\ result' = [status |-> IF after <= req.target THEN "compacted"
                                                          ELSE "partial",
                        applied |-> TRUE, budgetMet |-> after <= req.target,
                        messages |-> Selected, decisions |-> Choice,
                        snapshot |-> req, output |-> after,
                        stats |-> Stats(Choice)]
          /\ UNCHANGED <<request, req, groups, cancelled, archive, asked, reply,
                         sel, err>>

Compact == \/ Begin \/ CountInput \/ Named \/ Save \/ SaveFails
           \/ FitsAlready \/ ProtectedTooBig \/ NothingReducible \/ Propose
           \/ AskScorer \/ Check
           \/ SelectStep \/ SelectDone \/ SelectCanceled \/ Finish

Next == Compact \/ CountFails \/ Cancel

Spec == Init /\ [][Next]_vars

-----------------------------------------------------------------------------
\* Properties.

Pcs == {"begin", "count", "save", "named", "fit", "score", "check", "select",
        "finish", "done"}
Retaining == {"unchanged", "budget_unmet", "scoring_failed"}
Applying  == {"compacted", "partial"}

TypeOK ==
    /\ pc \in Pcs
    /\ request \in Requests
    /\ cancelled \in BOOLEAN /\ asked \in BOOLEAN
    /\ archive \subseteq {req}
    /\ err \in {"none", "canceled", "invalid", "internal", "archive"}
    /\ pc = "count" =>
          Valid(request) /\ req = Clone(request) /\ groups = Collect(request)
    /\ pc \notin {"begin", "done"} \/ result # Nil => req # Nil
    /\ pc # "done" => result = Nil /\ err = "none"
    /\ pc = "done" => (result = Nil) # (err = "none")
    /\ result # Nil => result.status \in Retaining \cup Applying

(***************************************************************************)
(* The archive comes first: the scorer is never called, and no result is   *)
(* ever returned, before a copy of the whole request is in the archive     *)
(* (types.go:108, "persists original requests before any reduction or      *)
(* external scoring").                                                     *)
(***************************************************************************)
ArchivedFirst ==
    asked \/ result # Nil \/ pc \in {"fit", "score", "check", "select", "finish"}
        => Clone(request) \in archive

(***************************************************************************)
(* Failure is closed: an error carries no transcript, and any result that  *)
(* is not applied returns every message of the copied request, makes no    *)
(* decision, and reports the input's size as its output.  In particular a  *)
(* scorer that fails or answers incompletely never changes the history.    *)
(***************************************************************************)
FailClosed ==
    result # Nil /\ ~result.applied =>
        /\ result.messages = Clone(request).messages
        /\ result.decisions = <<>>
        /\ result.output = Before
        /\ result.status \in Retaining

(***************************************************************************)
(* The status tells the truth about the budget (docs/api.md, the table of  *)
(* statuses): budget_met is exactly whether the returned messages, counted *)
(* again, fit the target; the output never exceeds the input; partial is   *)
(* only for callers that allowed it and is a strict reduction.             *)
(***************************************************************************)
BudgetTruth ==
    result # Nil =>
        LET n == Count(result.messages) IN
        /\ result.output = n /\ n <= Before
        /\ result.status # "scoring_failed" =>
              (result.budgetMet <=> n <= request.target)
        /\ result.budgetMet <=> result.status \in {"unchanged", "compacted"}
        /\ result.applied => n < Before
        /\ result.status = "partial" => request.partial

\* The reductions open to the engine: with a valid reply those it permits,
\* before scoring any that could be proposed.
Options(g) ==
    IF g \notin Candidates THEN {"keep"}
    ELSE {"keep"} \cup {a \in Offer(g) :
             reply # Nil /\ ValidReply(reply) => Sel!Allowed(reply[g], a)}

(***************************************************************************)
(* The books agree.  The count of the rewritten transcript, taken afresh   *)
(* from its messages, is the total that the selection loop arrived at by   *)
(* differences over interleaved groups (engine.go:115 against              *)
(* selection.go:81); and the statistics, derived in a loop of their own,   *)
(* account for every group: each candidate is kept, reduced or dropped,    *)
(* and the rejected ones are those that stay kept under any budget         *)
(* (docs/scoring-v0.3.md:22-24).                                           *)
(***************************************************************************)
TotalsAgree ==
    /\ pc = "finish" => total = Count(Selected)
    /\ result # Nil /\ input # Nil =>
          LET s == result.stats IN
          /\ s.kept + s.reduced + s.dropped = Cardinality(Candidates)
          /\ s.protected = Cardinality(DOMAIN groups \ Candidates)
          /\ s.rejected = Cardinality({g \in Candidates : Options(g) = {"keep"}})

Position(m) == CHOOSE i \in Indices(request) : request.messages[i].id = m.id

(***************************************************************************)
(* An applied result is a transcript of the same protocol: its messages    *)
(* keep their relative order, it passes the validation of a fresh request  *)
(* (no result without its earlier call, no dependency on a removed         *)
(* message), and a group is in it with all its messages or not at all.     *)
(***************************************************************************)
StillValid ==
    result # Nil /\ result.applied =>
        LET out == result.messages
            present == {Position(out[k]) : k \in DOMAIN out} IN
        /\ \A k \in 1..(Len(out) - 1) : Position(out[k]) < Position(out[k + 1])
        /\ out # <<>> =>
              Valid([request EXCEPT !.messages = out, !.recent = 0])
        /\ \A g \in DOMAIN groups :
              groups[g].members \subseteq present
              \/ groups[g].members \cap present = {}

\* The call that message m answers was marked as having side effects.
AnswersSideEffect(m) ==
    \E j \in Indices(request) : \E c \in Calls(request.messages[j]) :
        c.id = m.result /\ c.side

(***************************************************************************)
(* Whatever the scorer answers, content that docs/architecture.md lists as *)
(* verbatim stays in the returned history word for word: a group with an   *)
(* instruction, a pinned, unresolved or recent message or a pending or     *)
(* side-effecting call; assistant narration; results of side effects; and  *)
(* in the individual mode every message that is not a tool result.         *)
(***************************************************************************)
KeptVerbatim ==
    result # Nil =>
        \A g \in DOMAIN groups :
            LET held == \E j \in groups[g].members :
                           Guarded(request, j, Calls(request.messages[j])) IN
            \A i \in groups[g].members :
                LET m == req.messages[i] IN
                \/ held \/ AnswersSideEffect(m)
                \/ m.role = "assistant" /\ m.prose
                \/ request.individually /\ m.role # "tool"
                => \E k \in DOMAIN result.messages : result.messages[k] = m

(***************************************************************************)
(* Reporting an unmet budget is honest: with status budget_unmet no        *)
(* combination of permitted reductions would have met the target (groups   *)
(* are reduced independently, so the least each can take adds up), and a   *)
(* partial result is as small as any of them (engine.go:76, 85 and 147).   *)
(***************************************************************************)
UnmetIsHonest ==
    result # Nil /\ result.status \in {"budget_unmet", "partial"} =>
        LET least == SumFunction([g \in DOMAIN groups |->
                        Min({GroupSize(req, groups[g].members, a) : a \in Options(g)})]) IN
        /\ least > req.target
        /\ result.status = "partial" => least >= result.output

(***************************************************************************)
(* compact/invariants_test.go:75 says of the program: without applied      *)
(* status the returned messages are deeply equal to the caller's.  They    *)
(* are those of the copy, whose call arguments the JSON round trip of      *)
(* cloneRequest has re-encoded.                                            *)
(***************************************************************************)
UnappliedIsOriginal ==
    result # Nil /\ ~result.applied => result.messages = request.messages

=============================================================================
