---------------------------- MODULE ScoringPass -----------------------------
(***************************************************************************)
(* The concurrent part of Client.ScoreWithStats (jev/client.go): a         *)
(* dispatcher hands the planned batches over an unbuffered channel to at   *)
(* most MaxConcurrent workers, the first failure cancels the rest, and the *)
(* answers are merged in batch order once every worker has stopped.        *)
(*                                                                         *)
(* A batch asks one question per candidate and action.  A candidate too    *)
(* large for one request has a batch per action (splitCandidate), so one   *)
(* candidate may occur in several batches.                                 *)
(***************************************************************************)
EXTENDS Integers, FiniteSets, Sequences

CONSTANTS
    Plans,          \* plans: sequences of functions, candidate -> actions asked
    MaxConcurrent,  \* requests under way at once
    Nil

ASSUME PlansAssumption ==
    /\ MaxConcurrent \in Nat \ {0}
    /\ Nil \notin {"scores", "answer", "interrupted"}
    /\ \A p \in Plans : Len(p) \in Nat /\ DOMAIN p = 1..Len(p)

VARIABLES
    plan,       \* the planned batches
    next,       \* the batch the dispatcher is about to hand over
    phase,      \* dispatcher: dispatch, closed (channel closed), returned
    worker,     \* per worker: [at, job, why]
    caller,     \* has the caller's context ended?
    done,       \* has the pass's own context ended?
    once,       \* the sync.Once: free, busy, over
    firstErr,   \* the error it recorded: Nil, answer, interrupted
    parts,      \* batches whose answers have been stored
    outcome,    \* what the pass returned: Nil, scores, answer, interrupted
    scores      \* the merged scores, or Nil

vars == <<plan, next, phase, worker, caller, done, once, firstErr, parts,
          outcome, scores>>
shared == <<caller, done, once, firstErr, parts>>

Jobs    == 1..Len(plan)
Workers == 1..MaxConcurrent

\* Only min(MaxConcurrent, len(batches)) workers are started.
Started(p) == {w \in Workers : w <= Len(p)}

Idle == [at |-> "idle", job |-> 0, why |-> Nil]
Gone == [at |-> "gone", job |-> 0, why |-> Nil]

Init ==
    /\ plan \in Plans
    /\ next = 1 /\ phase = "dispatch"
    /\ worker = [w \in Workers |-> IF w \in Started(plan) THEN Idle ELSE Gone]
    /\ caller = FALSE /\ done = FALSE
    /\ once = "free" /\ firstErr = Nil
    /\ parts = {}
    /\ outcome = Nil /\ scores = Nil

-----------------------------------------------------------------------------
\* The dispatcher.  select picks either ready case.

\* An idle worker receives the next batch.
Hand(w) ==
    /\ phase = "dispatch" /\ next <= Len(plan)
    /\ worker[w] = Idle
    /\ worker' = [worker EXCEPT ![w] = [Idle EXCEPT !.at = "took", !.job = next]]
    /\ next' = next + 1
    /\ UNCHANGED <<plan, phase, shared, outcome, scores>>

Close == /\ phase' = "closed"
         /\ UNCHANGED <<plan, next, worker, shared, outcome, scores>>

AllSent  == phase = "dispatch" /\ next > Len(plan) /\ Close

BreakOff == phase = "dispatch" /\ next <= Len(plan) /\ done /\ Close

-----------------------------------------------------------------------------
\* A worker.

Moves(w, from, to) ==
    /\ worker[w].at = from
    /\ worker' = [worker EXCEPT ![w] = to]
    /\ UNCHANGED <<plan, next, phase, outcome, scores>>

Holding(w, at, why) == [worker[w] EXCEPT !.at = at, !.why = why]

Skip(w) == Moves(w, "took", Idle) /\ done /\ UNCHANGED shared

Send(w) == Moves(w, "took", Holding(w, "sending", Nil)) /\ ~done
           /\ UNCHANGED shared

\* A usable response, even if the context has ended meanwhile.
Answered(w) ==
    /\ Moves(w, "sending", Idle)
    /\ parts' = parts \cup {worker[w].job}
    /\ UNCHANGED <<caller, done, once, firstErr>>

\* Transport error, timeout, bad status, missing or malformed answers.
BadAnswer(w) == Moves(w, "sending", Holding(w, "failing", "answer"))
                /\ UNCHANGED shared

\* The request is aborted because the context has ended.
Interrupted(w) == Moves(w, "sending", Holding(w, "failing", "interrupted"))
                  /\ done /\ UNCHANGED shared

\* once.Do: the first failure is recorded, then the pass is cancelled.
Record(w) ==
    /\ Moves(w, "failing", Holding(w, "cancelling", worker[w].why))
    /\ once = "free" /\ once' = "busy"
    /\ firstErr' = worker[w].why
    /\ UNCHANGED <<caller, done, parts>>

CancelPass(w) ==
    /\ Moves(w, "cancelling", Idle)
    /\ done' = TRUE
    /\ once' = "over"
    /\ UNCHANGED <<caller, firstErr, parts>>

\* Mutant of FailLate: the latest error wins.
FailAgain(w) ==
    /\ Moves(w, "failing", Idle)
    /\ once = "over"
    /\ firstErr' = worker[w].why
    /\ UNCHANGED <<caller, done, once, parts>>

\* A later failure waits for the first to be through, and is forgotten.
FailLate(w) == Moves(w, "failing", Idle) /\ once = "over" /\ UNCHANGED shared

Exit(w) == Moves(w, "idle", Gone) /\ phase = "closed" /\ UNCHANGED shared

-----------------------------------------------------------------------------
\* The end of the pass.

Questioned == UNION {DOMAIN plan[i] : i \in Jobs}
PartsOf(c) == {i \in parts : c \in DOMAIN plan[i]}

\* Mutant of Merged: a later batch replaces an earlier one.
MergedLast ==
    [c \in Questioned |->
        UNION {plan[i][c] : i \in {j \in PartsOf(c) : \A k \in PartsOf(c) : k <= j}}]

\* The stored answers, the losses of one candidate united.
Merged == [c \in Questioned |-> UNION {plan[i][c] : i \in PartsOf(c)}]

Finish(o) ==
    /\ phase' = "returned"
    /\ outcome' = o
    /\ scores' = IF o = "scores" THEN Merged ELSE Nil
    /\ UNCHANGED <<plan, next, worker, shared>>

\* Mutants of Return: the context is not looked at, no worker is awaited.
ReturnAnyway ==
    /\ phase = "closed"
    /\ \A w \in Workers : worker[w] = Gone
    /\ Finish(IF firstErr # Nil THEN firstErr ELSE "scores")
ReturnAtOnce ==
    /\ phase = "closed"
    /\ Finish(IF firstErr # Nil THEN firstErr
              ELSE IF done THEN "interrupted" ELSE "scores")

Return ==
    /\ phase = "closed"
    /\ \A w \in Workers : worker[w] = Gone
    /\ Finish(IF firstErr # Nil THEN firstErr
              ELSE IF done THEN "interrupted" ELSE "scores")

\* The caller's context ends; the pass's context ends with it.
CallerCancels ==
    /\ ~caller /\ phase # "returned"
    /\ caller' = TRUE /\ done' = TRUE
    /\ UNCHANGED <<plan, next, phase, worker, once, firstErr, parts, outcome,
                   scores>>

WorkerStep(w) == \/ Hand(w) \/ Skip(w) \/ Send(w) \/ Answered(w)
                 \/ BadAnswer(w) \/ Interrupted(w) \/ Record(w)
                 \/ CancelPass(w) \/ FailLate(w) \/ Exit(w)
Dispatcher == AllSent \/ BreakOff \/ Return

Next == (\E w \in Workers : WorkerStep(w)) \/ Dispatcher \/ CallerCancels

Spec == Init /\ [][Next]_vars

-----------------------------------------------------------------------------
\* Properties.

Positions == {"idle", "took", "sending", "failing", "cancelling", "gone"}
Failures  == {"answer", "interrupted"}

TypeOK ==
    /\ plan \in Plans
    /\ next \in 1..(Len(plan) + 1)
    /\ phase \in {"dispatch", "closed", "returned"}
    /\ worker \in [Workers -> [at : Positions, job : Jobs \cup {0},
                               why : Failures \cup {Nil}]]
    /\ \A w \in Workers : worker[w].at \in {"failing", "cancelling"} =>
                             worker[w].why \in Failures
    /\ \A w \in Workers : worker[w].at \in {"took", "sending"} =>
                             worker[w].job \in Jobs
    /\ caller \in BOOLEAN /\ done \in BOOLEAN
    /\ once \in {"free", "busy", "over"}
    /\ firstErr \in Failures \cup {Nil}
    /\ parts \subseteq Jobs
    /\ outcome \in {Nil, "scores"} \cup Failures

(***************************************************************************)
(* No partial success: when the pass returns scores, every action that any *)
(* batch asked about has its answer in them, although workers skip jobs    *)
(* and the dispatcher stops early once the context has ended, and although *)
(* several batches may concern one candidate; nothing is merged before     *)
(* every worker has stored its part (client.go:181-222).                   *)
(***************************************************************************)
Complete ==
    outcome = "scores" =>
        \A i \in Jobs : \A c \in DOMAIN plan[i] : plan[i][c] \subseteq scores[c]

(***************************************************************************)
(* The error returned is the root cause: requests that the pass's own      *)
(* cancellation interrupts never hide the failure that caused it.  Only a  *)
(* caller that gave up is told that the pass was interrupted.              *)
(***************************************************************************)
RootCause == outcome = "interrupted" => caller

=============================================================================
