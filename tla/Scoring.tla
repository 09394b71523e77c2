------------------------------ MODULE Scoring ------------------------------
(***************************************************************************)
(* Client.ScoreWithStats as a whole: Batching plans the requests, and      *)
(* ScoringPass sends them and merges the answers, while the caller may     *)
(* give up at any time.                                                    *)
(***************************************************************************)
EXTENDS Batching

CONSTANTS MaxConcurrent

ASSUME ScoringAssumption ==
    /\ MaxConcurrent \in Nat \ {0}
    /\ Nil \notin {"scores", "answer", "interrupted", "unplanned"}

VARIABLES next, phase, worker, caller, done, once, firstErr, parts, outcome, scores

passVars == <<next, phase, worker, caller, done, once, firstErr, parts, outcome, scores>>
allVars == <<vars, passVars>>

ScoresOf(c) == {Needs(c)[j][2] : j \in DOMAIN Needs(c)}

\* What a batch asks about: the scores of each of its candidates.
Asked(b) == LET cs == {b.candidates[k] : k \in DOMAIN b.candidates} IN
    [id \in {c.id : c \in cs} |-> UNION {ScoresOf(c) : c \in {d \in cs : d.id = id}}]

Plan == [i \in DOMAIN batches |-> Asked(batches[i])]

\* The pass on this plan; Plans is used by its Init alone.
Pass == INSTANCE ScoringPass WITH plan <- Plan, Plans <- {}

InitScoring ==
    /\ Init
    /\ next = 1 /\ phase = "planning"
    /\ worker = [w \in 1..MaxConcurrent |-> Pass!Gone]
    /\ caller \in BOOLEAN /\ done = caller
    /\ once = "free" /\ firstErr = Nil /\ parts = {}
    /\ outcome = Nil /\ scores = Nil

\* The call returns without having sent anything.
ReturnError(why) ==
    /\ phase' = "returned" /\ outcome' = why
    /\ UNCHANGED <<vars, next, worker, caller, done, once, firstErr, parts, scores>>

\* The only look at the context before the requests are planned.
CanceledBefore == phase = "planning" /\ pc = "context" /\ context = eval.context
                  /\ caller /\ ReturnError("interrupted")

PlanFailed == phase = "planning" /\ pc = "failed" /\ ReturnError("unplanned")

PlanStep == phase = "planning" /\ Next /\ UNCHANGED passVars

\* Mutant of StartWorkers: the pass's context is not derived from the caller's.
StartWorkersAfresh ==
    /\ phase = "planning" /\ pc = "done"
    /\ phase' = "dispatch" /\ done' = FALSE
    /\ worker' = [w \in 1..MaxConcurrent |->
                     IF w \in Pass!Started(Plan) THEN Pass!Idle ELSE Pass!Gone]
    /\ UNCHANGED <<vars, next, caller, once, firstErr, parts, outcome, scores>>

StartWorkers ==
    /\ phase = "planning" /\ pc = "done"
    /\ phase' = "dispatch"
    /\ worker' = [w \in 1..MaxConcurrent |->
                     IF w \in Pass!Started(Plan) THEN Pass!Idle ELSE Pass!Gone]
    /\ UNCHANGED <<vars, next, caller, done, once, firstErr, parts, outcome, scores>>

PassStep == phase # "planning" /\ UNCHANGED vars /\ Pass!Next
CallerCancels == phase = "planning" /\ UNCHANGED vars /\ Pass!CallerCancels

Planning == CanceledBefore \/ PlanFailed \/ PlanStep \/ StartWorkers
NextScoring == Planning \/ PassStep \/ CallerCancels

Worker(w) == phase # "planning" /\ UNCHANGED vars /\ Pass!WorkerStep(w)
Dispatch  == phase # "planning" /\ UNCHANGED vars /\ Pass!Dispatcher

\* As for the pass; planning is local work.
FairScoring == /\ InitScoring /\ [][NextScoring]_allVars
               /\ WF_allVars(Planning) /\ WF_allVars(Dispatch)
               /\ \A w \in 1..MaxConcurrent : WF_allVars(Worker(w))

-----------------------------------------------------------------------------
\* Properties.

(***************************************************************************)
(* A scorer's success is complete: every candidate has a score for every   *)
(* replacement it offers, whatever was packed, shortened, split, answered  *)
(* in which order and merged, so the engine never rejects a reply for an   *)
(* answer that was lost on the way; and no score was asked for, and paid   *)
(* for, twice (client.go:131-258, 368-415, engine.go:225-255).             *)
(***************************************************************************)
Answers ==
    outcome = "scores" =>
        /\ NeedsOf(eval.candidates) = Flat([i \in DOMAIN batches |-> NeedsOf(batches[i].candidates)])
        /\ DOMAIN scores = {eval.candidates[i].id : i \in 1..N}
        /\ \A i \in 1..N : scores[eval.candidates[i].id] = ScoresOf(eval.candidates[i])

(***************************************************************************)
(* A caller that gives up while the requests are planned is not charged:   *)
(* from then on nothing is sent, whatever is still planned and however     *)
(* many workers are started, and the call never succeeds; it ends as       *)
(* interrupted, or with the planner's own error (client.go:138-222, where  *)
(* the context is looked at once before planning and again by each         *)
(* worker, the dispatcher and at the end).                                 *)
(***************************************************************************)
Unsent == /\ parts = {} /\ \A w \in 1..MaxConcurrent : worker[w].at # "sending"
          /\ outcome \in {Nil, "interrupted", "unplanned"}
EarlyCancel == [](phase = "planning" /\ caller => []Unsent)

(***************************************************************************)
(* The call returns, through planning, sending and merging.                *)
(***************************************************************************)
Returns == <>(phase = "returned")

=============================================================================
