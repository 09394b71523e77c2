------------------------- MODULE ScoringPass_proofs -------------------------
(***************************************************************************)
(* Safety of ScoringPass for every plan and every number of workers.       *)
(*                                                                         *)
(* Complete speaks of the moment the pass returns; Conservation says where *)
(* a batch that was handed over is at any moment, and Causes who may have  *)
(* ended the context, from which RootCause follows.  At the end, why a     *)
(* pass ends: nobody waits for ever, and every step uses something up.     *)
(***************************************************************************)
EXTENDS ScoringPass, FiniteSetTheorems, TLAPS

\* A batch handed over is answered, under way, or the pass is lost.
Conservation ==
    \A i \in Jobs : i < next =>
        \/ i \in parts
        \/ \E w \in Workers : worker[w].at \in {"took", "sending"}
                               /\ worker[w].job = i
        \/ \E w \in Workers : worker[w].at = "failing"
        \/ done \/ once # "free"

\* The channel is closed after the last batch or once the context has ended.
ClosedInv == phase # "dispatch" => next = Len(plan) + 1 \/ done

\* Who ended the context, and what the Once has recorded.
Causes ==
    /\ once = "free" <=> firstErr = Nil
    /\ done => caller \/ once = "over"
    /\ firstErr = "interrupted" => caller
    /\ \A w \in Workers :
          worker[w].at = "failing" /\ worker[w].why = "interrupted"
              => caller \/ once = "over"
    /\ \A w \in Workers : worker[w].at = "cancelling" => once # "free"

\* What a pass that has returned rests on.
ReturnInv ==
    /\ phase = "returned" => \A w \in Workers : worker[w] = Gone
    /\ outcome # Nil => phase = "returned"
    /\ outcome = "scores" => parts = Jobs /\ scores = Merged
    /\ outcome # "scores" => scores = Nil
    /\ outcome = "interrupted" => caller

\* The types, for the plan of any caller.
ShapeInv ==
    /\ Len(plan) \in Nat
    /\ next \in 1..(Len(plan) + 1)
    /\ phase \in {"dispatch", "closed", "returned"}
    /\ worker \in [Workers -> [at : Positions, job : Jobs \cup {0},
                               why : Failures \cup {Nil}]]
    /\ \A w \in Workers : worker[w].at \in {"failing", "cancelling"} =>
                             worker[w].why \in Failures
    /\ \A w \in Workers : worker[w].at \in {"took", "sending"} =>
                             worker[w].job \in Jobs
    /\ caller \in BOOLEAN /\ done \in BOOLEAN
    /\ once \in {"free", "busy", "over"}
    /\ firstErr \in Failures \cup {Nil}
    /\ parts \subseteq Jobs
    /\ outcome \in {Nil, "scores"} \cup Failures

PassInv == ShapeInv /\ Conservation /\ ClosedInv /\ Causes /\ ReturnInv

-----------------------------------------------------------------------------
\* The initial states satisfy the invariant.
LEMMA PassInit == Init => PassInv
<1> SUFFICES ASSUME Init PROVE PassInv  OBVIOUS
<1> USE PlansAssumption DEF Init
<1>1. Len(plan) \in Nat  OBVIOUS
<1>2. \A w \in Workers : worker[w] \in {Idle, Gone}  OBVIOUS
<1> DEFINE Position == [at : Positions, job : Jobs \cup {0}, why : Failures \cup {Nil}]
<1>a. Idle \in Position /\ Gone \in Position
  BY DEF Positions, Failures, Idle, Gone
<1>b. worker \in [Workers -> Position]  BY <1>a
<1> HIDE DEF Position
<1>c. \A w \in Workers : worker[w].at \notin {"failing", "cancelling", "took", "sending"}
  BY <1>2 DEF Idle, Gone
<1>3. ShapeInv
  <2>1. next \in 1..(Len(plan) + 1) /\ parts \subseteq Jobs  BY <1>1
  <2> QED  BY <1>b, <1>c, <2>1 DEF ShapeInv, Position
<1>4. Conservation  BY <1>1 DEF Conservation, Jobs
<1>5. ClosedInv /\ Causes /\ ReturnInv
  BY <1>2 DEF ClosedInv, Causes, ReturnInv, Idle, Gone
<1> QED  BY <1>3, <1>4, <1>5 DEF PassInv

\* Each step of a worker keeps the types.
LEMMA WorkerTypes ==
    ASSUME ShapeInv, NEW w \in Workers, WorkerStep(w)
    PROVE  ShapeInv'
<1> USE PlansAssumption
    DEF ShapeInv, Positions, Failures, Moves, Holding, Idle, Gone, shared
<1> DEFINE Position == [at : Positions, job : Jobs \cup {0}, why : Failures \cup {Nil}]
<1>1. Len(plan) \in Nat  OBVIOUS
<1>2. Idle \in Position /\ Gone \in Position  OBVIOUS
<1>3. worker[w] \in Position  OBVIOUS
<1>4. CASE Hand(w)
  <2>1. next \in Jobs /\ next + 1 \in 1..(Len(plan) + 1)
    BY <1>1, <1>4 DEF Hand, Jobs
  <2> QED  BY <1>4, <2>1 DEF Hand, Jobs
<1>5. ASSUME NEW to \in Position, worker' = [worker EXCEPT ![w] = to],
             to.at \in {"failing", "cancelling"} => to.why \in Failures,
             to.at \in {"took", "sending"} => to.job \in Jobs,
             plan' = plan
      PROVE  /\ worker' \in [Workers -> Position']
             /\ \A v \in Workers : worker'[v].at \in {"failing", "cancelling"} =>
                                      worker'[v].why \in Failures
             /\ \A v \in Workers : worker'[v].at \in {"took", "sending"} =>
                                      worker'[v].job \in Jobs'
  BY <1>5 DEF Jobs
<1>6. CASE Skip(w) \/ FailLate(w) \/ Exit(w)
  BY <1>2, <1>5, <1>6, ZenonT(30) DEF Skip, FailLate, Exit, Jobs
<1>7. CASE Send(w)
  <2>1. worker[w].job \in Jobs  BY <1>7 DEF Send
  <2>2. Holding(w, "sending", Nil) \in Position  BY <1>3
  <2> QED  BY <1>5, <1>7, <2>1, <2>2 DEF Send, Jobs
<1>8. CASE Answered(w)  BY <1>8 DEF Answered, Jobs
<1>9. CASE BadAnswer(w) \/ Interrupted(w)
  <2>1. /\ Holding(w, "failing", "answer") \in Position
        /\ Holding(w, "failing", "interrupted") \in Position
    BY <1>3
  <2>2. PICK why \in {"answer", "interrupted"} : Moves(w, "sending", Holding(w, "failing", why))
    BY <1>9 DEF BadAnswer, Interrupted
  <2> DEFINE to == Holding(w, "failing", why)
  <2>3. to \in Position /\ to.at = "failing" /\ to.why \in Failures
    BY <1>3, <2>1
  <2>4. /\ worker' = [worker EXCEPT ![w] = to]
        /\ UNCHANGED <<plan, next, phase, outcome, scores>>
    BY <2>2
  <2>5. UNCHANGED <<caller, done, once, firstErr, parts>>
    BY <1>9 DEF BadAnswer, Interrupted
  <2> HIDE DEF to
  <2>6. /\ worker' \in [Workers -> Position']
        /\ \A v \in Workers : worker'[v].at \in {"failing", "cancelling"} =>
                                 worker'[v].why \in Failures
        /\ \A v \in Workers : worker'[v].at \in {"took", "sending"} =>
                                 worker'[v].job \in Jobs'
    BY <1>5, <2>3, <2>4
  <2> QED  BY <2>4, <2>5, <2>6 DEF Jobs
<1>10. CASE Record(w)  BY <1>10 DEF Record, Jobs
<1>11. CASE CancelPass(w)  BY <1>11 DEF CancelPass, Jobs
<1> QED
  BY <1>4, <1>6, <1>7, <1>8, <1>9, <1>10, <1>11 DEF WorkerStep

\* A step of one worker loses no batch.
LEMMA WorkerConserves ==
    ASSUME ShapeInv, Conservation, Causes, NEW w \in Workers, WorkerStep(w)
    PROVE  Conservation'
<1> USE PlansAssumption DEF ShapeInv, Conservation, Moves, Idle, Gone, shared, Jobs
<1>1. CASE Hand(w)
  <2> SUFFICES ASSUME NEW i \in Jobs', (i < next)'
               PROVE  \/ i \in parts'
                      \/ \E v \in Workers : /\ worker'[v].at \in {"took", "sending"}
                                            /\ worker'[v].job = i
                      \/ \E v \in Workers : worker'[v].at = "failing"
                      \/ done' \/ once' # "free"
    OBVIOUS
  <2>1. i \in Jobs /\ (i < next \/ i = next) /\ parts' = parts
        /\ done' = done /\ once' = once
    BY <1>1 DEF Hand
  <2>2. CASE i = next
    BY <1>1, <2>2 DEF Hand
  <2>3. CASE i < next
    <3>1. \A v \in Workers : worker[v].at # "idle" => worker'[v] = worker[v]
      BY <1>1 DEF Hand
    <3> QED  BY <2>1, <2>3, <3>1, SMTT(30)
  <2> QED  BY <2>1, <2>2, <2>3
<1>2. CASE Skip(w)  BY <1>2 DEF Skip
<1>3. CASE Send(w)
  <2>1. \A v \in Workers : v # w => worker'[v] = worker[v]  BY <1>3 DEF Send
  <2>2. worker[w].at = "took" /\ worker'[w].at = "sending"
        /\ worker'[w].job = worker[w].job
    BY <1>3 DEF Send, Holding
  <2>3. plan' = plan /\ next' = next /\ parts' = parts /\ done' = done
        /\ once' = once
    BY <1>3 DEF Send
  <2> QED  BY <2>1, <2>2, <2>3, SMTT(30)
<1>4. CASE Answered(w)
  <2>1. \A v \in Workers : v # w => worker'[v] = worker[v]
    BY <1>4 DEF Answered
  <2>2. worker[w].at = "sending" /\ worker[w].job \in parts'
        /\ parts \subseteq parts'
    BY <1>4 DEF Answered
  <2>3. plan' = plan /\ next' = next /\ done' = done /\ once' = once
    BY <1>4 DEF Answered
  <2>4. ASSUME NEW i \in Jobs, i < next
        PROVE  \/ i \in parts'
               \/ \E v \in Workers : /\ worker'[v].at \in {"took", "sending"}
                                     /\ worker'[v].job = i
               \/ \E v \in Workers : worker'[v].at = "failing"
               \/ done' \/ once' # "free"
    <3>1. CASE \E v \in Workers : worker[v].at \in {"took", "sending"}
                                  /\ worker[v].job = i
      BY <2>1, <2>2, <3>1
    <3>2. CASE \E v \in Workers : worker[v].at = "failing"
      BY <2>1, <2>2, <3>2
    <3> QED  BY <2>2, <2>3, <2>4, <3>1, <3>2
  <2> QED  BY <2>3, <2>4
<1>5. CASE BadAnswer(w) \/ Interrupted(w)
  <2>1. worker[w].at = "sending" /\ "at" \in DOMAIN worker[w]
    BY <1>5 DEF BadAnswer, Interrupted
  <2>2. \A why : Holding(w, "failing", why).at = "failing"
    BY <2>1 DEF Holding
  <2>3. \E why : worker' = [worker EXCEPT ![w] = Holding(w, "failing", why)]
    BY <1>5 DEF BadAnswer, Interrupted
  <2>4. worker'[w].at = "failing"  BY <2>2, <2>3
  <2> QED  BY <2>4
<1>6. CASE Record(w)  BY <1>6 DEF Record
<1>7. CASE CancelPass(w)  BY <1>7 DEF CancelPass
<1>8. CASE FailLate(w)  BY <1>8 DEF FailLate
<1>9. CASE Exit(w)
  <2>1. \A v \in Workers : worker[v].at # "idle" => worker'[v] = worker[v]
    BY <1>9 DEF Exit
  <2>2. plan' = plan /\ next' = next /\ parts' = parts /\ done' = done
        /\ once' = once
    BY <1>9 DEF Exit
  <2> HIDE DEF ShapeInv
  <2> QED  BY <2>1, <2>2
<1> QED
  BY <1>1, <1>2, <1>3, <1>4, <1>5, <1>6, <1>7, <1>8, <1>9 DEF WorkerStep

\* A step of one worker keeps the record of causes.
LEMMA WorkerCauses ==
    ASSUME ShapeInv, Causes, NEW w \in Workers, WorkerStep(w)
    PROVE  Causes'
<1> USE PlansAssumption
    DEF ShapeInv, Failures, Causes, Moves, Holding, Idle, Gone, shared
<1>1. CASE Hand(w)  BY <1>1 DEF Hand
<1>2. CASE Skip(w)  BY <1>2 DEF Skip
<1>9. CASE Send(w)  BY <1>9 DEF Send
<1>3. CASE Answered(w)  BY <1>3 DEF Answered
<1>4. CASE BadAnswer(w)  BY <1>4 DEF BadAnswer
<1>5. CASE Interrupted(w)  BY <1>5 DEF Interrupted
<1>6. CASE Record(w)  BY <1>6 DEF Record
<1>7. CASE CancelPass(w)  BY <1>7 DEF CancelPass
<1>8. CASE FailLate(w)  BY <1>8 DEF FailLate
<1>10. CASE Exit(w)  BY <1>10 DEF Exit
<1> QED
  BY <1>1, <1>2, <1>3, <1>4, <1>5, <1>6, <1>7, <1>8, <1>9, <1>10 DEF WorkerStep

\* A worker moves only while the pass has not returned.
LEMMA WorkerReturns ==
    ASSUME ShapeInv, ClosedInv, ReturnInv, NEW w \in Workers, WorkerStep(w)
    PROVE  ClosedInv' /\ ReturnInv'
<1> USE DEF Moves, Idle, Gone, shared
<1>1. /\ worker[w] # Gone /\ phase' = phase /\ outcome' = outcome /\ scores' = scores
      /\ caller' = caller
  BY DEF WorkerStep, Hand, Skip, Send, Answered, BadAnswer, Interrupted,
         Record, CancelPass, FailLate, Exit
<1>2. phase # "returned" /\ outcome = Nil
  BY <1>1 DEF ReturnInv
<1>3. ReturnInv'  BY <1>1, <1>2, PlansAssumption DEF ReturnInv
<1>4. plan' = plan /\ (next' = next \/ phase = "dispatch") /\ (done => done')
  BY DEF WorkerStep, Hand, Skip, Send, Answered, BadAnswer, Interrupted,
         Record, CancelPass, FailLate, Exit
<1>5. ClosedInv'  BY <1>1, <1>4 DEF ClosedInv
<1> QED  BY <1>3, <1>5

\* When the pass returns without error, every batch has been answered.
LEMMA AllAnswered ==
    ASSUME PassInv, Return, firstErr = Nil, ~done
    PROVE  parts = Jobs
<1> USE PlansAssumption DEF PassInv, Return, Gone
<1>1. Len(plan) \in Nat  BY DEF ShapeInv
<1>2. next = Len(plan) + 1  BY DEF ClosedInv
<1>3. once = "free"  BY DEF Causes
<1>4. \A i \in Jobs : i < next  BY <1>1, <1>2 DEF Jobs
<1>5. \A i \in Jobs : i \in parts  BY <1>3, <1>4 DEF Conservation
<1> QED  BY <1>5 DEF ShapeInv

\* The dispatcher and the caller keep the invariant.
LEMMA OthersKeep ==
    ASSUME PassInv, Dispatcher \/ CallerCancels PROVE PassInv'
<1> USE PlansAssumption DEF PassInv, shared
<1>1. CASE AllSent \/ BreakOff
  <2>1. next \in 1..(Len(plan) + 1) /\ Len(plan) \in Nat  BY DEF ShapeInv
  <2>2. /\ phase = "dispatch" /\ phase' = "closed"
        /\ UNCHANGED <<plan, next, worker, shared, outcome, scores>>
    BY <1>1 DEF AllSent, BreakOff, Close
  <2>3. ShapeInv'  BY <2>2 DEF ShapeInv, Jobs
  <2>4. Conservation' /\ Causes'  BY <2>2 DEF Conservation, Causes, Jobs
  <2>5. ClosedInv'  BY <1>1, <2>1, <2>2 DEF ClosedInv, AllSent, BreakOff
  <2>6. ReturnInv'  BY <2>2 DEF ReturnInv
  <2> QED  BY <2>3, <2>4, <2>5, <2>6
<1>2. CASE Return
  <2>1. /\ phase' = "returned"
        /\ UNCHANGED <<plan, next, worker, shared>>
    BY <1>2 DEF Return, Finish
  <2>2. outcome' = IF firstErr # Nil THEN firstErr
                   ELSE IF done THEN "interrupted" ELSE "scores"
    BY <1>2 DEF Return, Finish
  <2>3. ShapeInv'  BY <2>1, <2>2 DEF ShapeInv, Failures, Jobs
  <2>4. Conservation' /\ Causes' /\ ClosedInv'
    BY <1>2, <2>1 DEF Conservation, Causes, ClosedInv, Jobs, Return
  <2>5. outcome' = "scores" => parts' = Jobs' /\ scores' = Merged'
    <3> SUFFICES ASSUME outcome' = "scores"
                 PROVE  parts' = Jobs' /\ scores' = Merged'
      OBVIOUS
    <3>1. firstErr = Nil /\ ~done  BY <2>2 DEF ShapeInv, Failures
    <3>2. parts = Jobs  BY <1>2, <3>1, AllAnswered
    <3>3. scores' = Merged  BY <1>2, <3>1 DEF Return, Finish
    <3>4. Merged' = Merged  BY <2>1 DEF Merged, Questioned, PartsOf, Jobs
    <3> QED  BY <2>1, <3>2, <3>3, <3>4 DEF Jobs
  <2>6. outcome' = "interrupted" => caller'
    BY <2>1, <2>2 DEF Causes
  <2>7. outcome' # "scores" => scores' = Nil
    BY <1>2, <2>2 DEF Return, Finish
  <2>8. ReturnInv'
    BY <1>2, <2>1, <2>5, <2>6, <2>7 DEF ReturnInv, Return, Gone
  <2> QED  BY <2>3, <2>4, <2>8
<1>3. CASE CallerCancels
  <2>1. ShapeInv'  BY <1>3 DEF CallerCancels, ShapeInv, Jobs
  <2>2. Conservation' /\ Causes' /\ ClosedInv'
    BY <1>3 DEF CallerCancels, Conservation, Causes, ClosedInv, Jobs
  <2>3. ReturnInv'  BY <1>3 DEF CallerCancels, ReturnInv
  <2> QED  BY <2>1, <2>2, <2>3
<1> QED  BY <1>1, <1>2, <1>3 DEF Dispatcher

\* The invariant is inductive.
LEMMA PassInductive == PassInv /\ [Next]_vars => PassInv'
<1> SUFFICES ASSUME PassInv, [Next]_vars PROVE PassInv'  OBVIOUS
<1>1. CASE UNCHANGED vars
  <2>1. Merged' = Merged  BY <1>1 DEF vars, shared, Merged, Questioned, PartsOf, Jobs
  <2> QED
    BY <1>1, <2>1 DEF vars, shared, PassInv, ShapeInv, Conservation, ClosedInv,
                      Causes, ReturnInv, Jobs
<1>2. ASSUME NEW w \in Workers, WorkerStep(w) PROVE PassInv'
  BY <1>2, WorkerTypes, WorkerConserves, WorkerCauses, WorkerReturns DEF PassInv
<1>3. CASE Dispatcher \/ CallerCancels  BY <1>3, OthersKeep
<1> QED  BY <1>1, <1>2, <1>3 DEF Next

\* A pass replies once, in one step.
LEMMA RepliesOnce ==
    ASSUME PassInv, Next, ~UNCHANGED <<outcome, scores>>
    PROVE  /\ outcome = Nil /\ scores = Nil
           /\ outcome' \in {"scores", "answer", "interrupted"}
           /\ outcome' # "scores" => scores' = Nil
           /\ outcome' = "interrupted" => caller
<1>1. Return
  BY DEF Next, WorkerStep, Hand, Skip, Send, Answered, BadAnswer, Interrupted, Record,
         CancelPass, FailLate, Exit, Moves, Dispatcher, AllSent, BreakOff, Close, CallerCancels
<1>2. outcome = Nil /\ scores = Nil
  BY <1>1, PlansAssumption DEF PassInv, ReturnInv, Return
<1>3. /\ outcome' = IF firstErr # Nil THEN firstErr ELSE IF done THEN "interrupted" ELSE "scores"
      /\ scores' = IF outcome' = "scores" THEN Merged ELSE Nil
      /\ firstErr \in {"answer", "interrupted", Nil} /\ caller' = caller
  BY <1>1 DEF Return, Finish, PassInv, ShapeInv, Failures, shared
<1>4. outcome' = "interrupted" => caller
  BY <1>3 DEF PassInv, Causes
<1> QED
  BY <1>2, <1>3, <1>4

-----------------------------------------------------------------------------
(***************************************************************************)
(* Type correctness.                                                       *)
(***************************************************************************)
THEOREM PassTypes == Spec => []TypeOK
<1>1. Init => plan \in Plans
  BY DEF Init
<1>2. plan \in Plans /\ [Next]_vars => (plan \in Plans)'
  BY DEF Next, vars, shared, WorkerStep, Hand, Skip, Send, Answered, BadAnswer, Interrupted,
         Record, CancelPass, FailLate, Exit, Moves, Dispatcher, AllSent, BreakOff, Close,
         Return, Finish, CallerCancels
<1>3. plan \in Plans /\ PassInv => TypeOK
  BY DEF PassInv, ShapeInv, TypeOK
<1> QED
  BY <1>1, <1>2, <1>3, PassInit, PassInductive, PTL DEF Spec

(***************************************************************************)
(* No partial success: returned scores answer everything that was asked.   *)
(***************************************************************************)
THEOREM NoPartialSuccess == Spec => []Complete
<1>1. PassInv => Complete
  <2> SUFFICES ASSUME PassInv, outcome = "scores",
                      NEW i \in Jobs, NEW c \in DOMAIN plan[i]
               PROVE  plan[i][c] \subseteq scores[c]
    BY DEF Complete
  <2>1. parts = Jobs /\ scores = Merged  BY DEF PassInv, ReturnInv
  <2>2. c \in Questioned  BY DEF Questioned
  <2>3. scores[c] = UNION {plan[j][c] : j \in PartsOf(c)}
    BY <2>1, <2>2 DEF Merged
  <2>4. i \in PartsOf(c)  BY <2>1 DEF PartsOf
  <2> QED  BY <2>3, <2>4
<1> QED  BY <1>1, PassInit, PassInductive, PTL DEF Spec

(***************************************************************************)
(* The pass reports the failure that ended it, never its own cancellation. *)
(***************************************************************************)
THEOREM RootCauseReported == Spec => []RootCause
<1>1. PassInv => RootCause  BY DEF PassInv, ReturnInv, RootCause
<1> QED  BY <1>1, PassInit, PassInductive, PTL DEF Spec

-----------------------------------------------------------------------------
\* The pass comes to its end.

\* Whoever waits, waits for somebody: the owner of the Once is cancelling, and no
\* worker leaves before the channel is closed.
WaitInv ==
    /\ once = "busy" => \E w \in Workers : worker[w].at = "cancelling"
    /\ phase = "dispatch" => \A w \in Started(plan) : worker[w].at # "gone"
    /\ \A w \in Workers : /\ worker[w].at = "idle" => worker[w] = Idle
                          /\ worker[w].at = "gone" => worker[w] = Gone

\* What each of the two can do by itself, apart from the caller's cancellation.
WorkerMoves(w) ==
    \/ worker[w].at = "idle" /\ (phase = "closed" \/ (phase = "dispatch" /\ next <= Len(plan)))
    \/ worker[w].at \in {"took", "sending", "cancelling"}
    \/ worker[w].at = "failing" /\ once # "busy"
DispatcherMoves ==
    \/ phase = "dispatch" /\ (next > Len(plan) \/ done)
    \/ phase = "closed" /\ \A w \in Workers : worker[w] = Gone

NobodyWaits == phase # "returned" => DispatcherMoves \/ \E w \in Workers : WorkerMoves(w)

LEMMA WaitStarts == Init => WaitInv
<1> SUFFICES ASSUME Init PROVE WaitInv
  OBVIOUS
<1>1. \A w \in Workers : worker[w] = IF w \in Started(plan) THEN Idle ELSE Gone
  BY DEF Init
<1>2. Idle.at = "idle" /\ Gone.at = "gone"
  BY DEF Idle, Gone
<1>3. Started(plan) \subseteq Workers
  BY DEF Started
<1>4. \A w \in Workers : /\ worker[w].at = "idle" => worker[w] = Idle
                         /\ worker[w].at = "gone" => worker[w] = Gone
  BY <1>1, <1>2
<1>5. \A w \in Started(plan) : worker[w].at # "gone"
  BY <1>1, <1>2, <1>3
<1> QED
  BY <1>4, <1>5 DEF Init, WaitInv

\* The steps a worker has before it, at most, until it leaves or takes a batch.
Weight(at) == CASE at = "took"    -> 5
                [] at = "sending" -> 4
                [] at = "failing" -> 3
                [] at = "cancelling" -> 2
                [] at = "idle"    -> 1
                [] OTHER          -> 0

\* What each step does for the end: a worker takes a batch, or it comes closer to
\* leaving.
Closer(w) ==
    /\ next' = next
    /\ Weight(worker'[w].at) < Weight(worker[w].at)
    /\ worker'[w].at = "idle" => worker'[w] = Idle
    /\ worker'[w].at = "gone" => worker'[w] = Gone /\ phase = "closed"
    /\ once' = "busy" => \/ worker'[w].at = "cancelling"
                         \/ once = "busy" /\ worker[w].at # "cancelling"
Takes(w) ==
    /\ next <= Len(plan) /\ next' = next + 1 /\ once' = once
    /\ worker[w].at = "idle" /\ worker'[w].at = "took"

LEMMA WorkerNears ==
    ASSUME ShapeInv, NEW w \in Workers, WorkerStep(w)
    PROVE  /\ worker' = [worker EXCEPT ![w] = worker'[w]]
           /\ plan' = plan /\ phase' = phase /\ caller' = caller
           /\ Takes(w) \/ Closer(w)
<1> DEFINE Position == [at : Positions, job : Jobs \cup {0}, why : Failures \cup {Nil}]
<1>1. worker \in [Workers -> Position] /\ worker[w] \in Position
  BY DEF ShapeInv
<1>2. /\ Idle.at = "idle" /\ Gone.at = "gone"
      /\ [Idle EXCEPT !.at = "took", !.job = next].at = "took"
  BY DEF Idle, Gone
<1>3. \A at, why : Holding(w, at, why).at = at
  BY <1>1 DEF Holding
<1> HIDE DEF Position
<1>4. CASE Hand(w)
  <2>1. /\ worker' = [worker EXCEPT ![w] = [Idle EXCEPT !.at = "took", !.job = next]]
        /\ worker[w] = Idle
    BY <1>4 DEF Hand
  <2>2. worker'[w] = [Idle EXCEPT !.at = "took", !.job = next]
    BY <1>1, <2>1
  <2>3. Takes(w)
    BY <1>2, <1>4, <2>1, <2>2 DEF Takes, Hand, shared
  <2> QED
    BY <1>4, <2>1, <2>2, <2>3 DEF Hand, shared
<1>5. ASSUME NEW from, NEW to, Moves(w, from, to)
      PROVE  /\ worker[w].at = from /\ worker'[w] = to
             /\ worker' = [worker EXCEPT ![w] = worker'[w]]
             /\ plan' = plan /\ phase' = phase /\ next' = next
  BY <1>1, <1>5 DEF Moves
<1>6. CASE Skip(w)
  BY <1>2, <1>5, <1>6 DEF Skip, Closer, Weight, shared
<1>7. CASE Send(w)
  BY <1>3, <1>5, <1>7 DEF Send, Closer, Weight, shared
<1>8. CASE Answered(w)
  BY <1>2, <1>5, <1>8 DEF Answered, Closer, Weight
<1>9. CASE BadAnswer(w)
  BY <1>3, <1>5, <1>9 DEF BadAnswer, Closer, Weight, shared
<1>10. CASE Interrupted(w)
  BY <1>3, <1>5, <1>10 DEF Interrupted, Closer, Weight, shared
<1>11. CASE Record(w)
  BY <1>3, <1>5, <1>11 DEF Record, Closer, Weight
<1>12. CASE CancelPass(w)
  BY <1>2, <1>5, <1>12 DEF CancelPass, Closer, Weight
<1>13. CASE FailLate(w)
  BY <1>2, <1>5, <1>13 DEF FailLate, Closer, Weight, shared
<1>14. CASE Exit(w)
  BY <1>2, <1>5, <1>14 DEF Exit, Closer, Weight, shared
<1> QED
  BY <1>4, <1>6, <1>7, <1>8, <1>9, <1>10, <1>11, <1>12, <1>13, <1>14 DEF WorkerStep

LEMMA WorkerWaits ==
    ASSUME ShapeInv, WaitInv, NEW w \in Workers, WorkerStep(w)
    PROVE  WaitInv'
<1>1. /\ \A v \in Workers : v # w => worker'[v] = worker[v]
      /\ plan' = plan /\ phase' = phase /\ (Takes(w) \/ Closer(w))
  <2>1. worker' = [worker EXCEPT ![w] = worker'[w]] /\ DOMAIN worker = Workers
    BY WorkerNears DEF ShapeInv
  <2> QED
    BY <2>1, WorkerNears
<1>2. Started(plan') = Started(plan) /\ Started(plan) \subseteq Workers
  BY <1>1 DEF Started
<1>3. once' = "busy" => \E v \in Workers : worker'[v].at = "cancelling"
  BY <1>1 DEF WaitInv, Takes, Closer
<1>4. phase' = "dispatch" => \A v \in Started(plan') : worker'[v].at # "gone"
  BY <1>1, <1>2 DEF WaitInv, Takes, Closer
<1>5. \A v \in Workers : /\ worker'[v].at = "idle" => worker'[v] = Idle
                         /\ worker'[v].at = "gone" => worker'[v] = Gone
  BY <1>1 DEF WaitInv, Takes, Closer
<1> QED
  BY <1>3, <1>4, <1>5 DEF WaitInv

LEMMA WaitInductive == PassInv /\ WaitInv /\ [Next]_vars => WaitInv'
<1> SUFFICES ASSUME PassInv, WaitInv, [Next]_vars PROVE WaitInv'
  OBVIOUS
<1>1. ASSUME NEW w \in Workers, WorkerStep(w) PROVE WaitInv'
  BY <1>1, WorkerWaits DEF PassInv
<1>2. CASE Dispatcher \/ CallerCancels \/ UNCHANGED vars
  <2>1. /\ worker' = worker /\ plan' = plan /\ once' = once
        /\ phase' = "dispatch" => phase = "dispatch"
    BY <1>2 DEF Dispatcher, AllSent, BreakOff, Close, Return, Finish, CallerCancels, vars, shared
  <2> QED
    BY <2>1 DEF WaitInv, Started
<1> QED
  BY <1>1, <1>2 DEF Next

(***************************************************************************)
(* Nobody waits for ever: until the pass has returned, a worker or the     *)
(* dispatcher can go on without the caller, whatever the number of workers *)
(* and batches.  The rendezvous of dispatcher and workers, the once.Do     *)
(* that later failures wait in, and the wait for all workers to leave      *)
(* (client.go:181-222) never close a circle.                               *)
(***************************************************************************)
THEOREM PassNeverSticks == Spec => []NobodyWaits
<1>1. PassInv /\ WaitInv => NobodyWaits
  <2> SUFFICES ASSUME PassInv, WaitInv, phase # "returned",
                      \A w \in Workers : ~WorkerMoves(w)
               PROVE  DispatcherMoves
    BY DEF NobodyWaits
  <2>0. \A w \in Workers : worker[w].at = "cancelling" => WorkerMoves(w)
    BY DEF WorkerMoves
  <2>1. once # "busy"
    BY <2>0 DEF WaitInv
  <2>2. \A w \in Workers : worker[w].at \in {"idle", "gone"}
    BY <2>1 DEF WorkerMoves, PassInv, ShapeInv, Positions
  <2>3. CASE phase = "closed"
    <3>1. \A w \in Workers : worker[w].at = "gone"
      BY <2>2, <2>3 DEF WorkerMoves
    <3>2. \A w \in Workers : worker[w] = Gone
      BY <3>1 DEF WaitInv
    <3> QED
      BY <2>3, <3>2 DEF DispatcherMoves
  <2>4. CASE phase = "dispatch"
    <3> SUFFICES ASSUME next <= Len(plan) PROVE FALSE
      BY <2>4 DEF DispatcherMoves, PassInv, ShapeInv
    <3>1. 1 \in Started(plan) /\ 1 \in Workers
      BY PlansAssumption DEF Started, Workers, PassInv, ShapeInv
    <3>2. worker[1].at = "idle"
      BY <2>2, <2>4, <3>1 DEF WaitInv
    <3> QED
      BY <2>4, <3>1, <3>2 DEF WorkerMoves
  <2> QED
    BY <2>3, <2>4 DEF PassInv, ShapeInv
<1> QED
  BY <1>1, PassInit, PassInductive, WaitStarts, WaitInductive, PTL DEF Spec

-----------------------------------------------------------------------------
\* How many steps are left, at most: a batch still to be handed over costs five, and
\* a worker as many as the levels it stands above.
Level(k) == {w \in Workers : Weight(worker[w].at) >= k}
Crowd == [k \in 1..5 |-> Cardinality(Level(k))]
Busy == Crowd[1] + Crowd[2] + Crowd[3] + Crowd[4] + Crowd[5]
Measure ==
    5 * ((Len(plan) + 1) - next)
    + Busy
    + (IF phase = "dispatch" THEN 2 ELSE IF phase = "closed" THEN 1 ELSE 0)
    + (IF caller THEN 0 ELSE 1)

LEMMA FewWorkers == IsFiniteSet(Workers)
BY FS_Interval, PlansAssumption DEF Workers

LEMMA CrowdsCount == \A k \in 1..5 : Crowd[k] \in Nat
<1> SUFFICES ASSUME NEW k \in 1..5 PROVE Crowd[k] \in Nat
  OBVIOUS
<1>1. Level(k) \subseteq Workers
  BY DEF Level
<1> QED
  BY <1>1, FewWorkers, FS_Subset, FS_CardinalityType DEF Crowd

LEMMA SubsetIsFewer ==
    ASSUME NEW S, IsFiniteSet(S), NEW T, T \subseteq S
    PROVE  /\ Cardinality(T) \in Nat /\ Cardinality(S) \in Nat
           /\ Cardinality(T) <= Cardinality(S)
BY FS_Subset, FS_CardinalityType

\* One worker moves.  A crowd that it leaves is smaller by one at least, and one that
\* it joins larger by one at most.
LEMMA CrowdsMove ==
    ASSUME NEW w \in Workers, DOMAIN worker = Workers,
           worker' = [worker EXCEPT ![w] = worker'[w]], NEW k \in 1..5,
           Weight(worker[w].at) \in Nat, Weight(worker'[w].at) \in Nat
    PROVE  /\ Crowd'[k] <= Crowd[k] + 1
           /\ Weight(worker'[w].at) <= Weight(worker[w].at) \/ k <= Weight(worker[w].at)
                => Crowd'[k] <= Crowd[k]
           /\ Weight(worker'[w].at) < k /\ k <= Weight(worker[w].at) => Crowd'[k] < Crowd[k]
<1> DEFINE L == Level(k)
           M == Level(k)'
           a == Weight(worker[w].at)
           b == Weight(worker'[w].at)
<1>1. \A v \in Workers : v # w => worker'[v] = worker[v]
  OBVIOUS
<1>2. /\ \A v \in Workers : v # w => (v \in M <=> v \in L)
      /\ w \in L <=> a >= k
      /\ w \in M <=> b >= k
      /\ L \subseteq Workers /\ M \subseteq Workers
  BY <1>1 DEF Level, Workers
<1>3. IsFiniteSet(L) /\ IsFiniteSet(M) /\ Cardinality(L) \in Nat /\ Cardinality(M) \in Nat
  BY <1>2, FewWorkers, FS_Subset, FS_CardinalityType
<1>4. Crowd[k] = Cardinality(L) /\ Crowd'[k] = Cardinality(M)
  BY DEF Crowd
<1>5. a \in Nat /\ b \in Nat
  OBVIOUS
<1> HIDE DEF L, M, a, b
<1>6. Cardinality(M) <= Cardinality(L) + 1
  <2>1. M \subseteq L \cup {w}
    BY <1>2
  <2>2. /\ IsFiniteSet(L \cup {w})
        /\ Cardinality(L \cup {w}) = IF w \in L THEN Cardinality(L) ELSE Cardinality(L) + 1
    BY <1>3, FS_AddElement
  <2>3. Cardinality(L \cup {w}) \in Nat
    BY <2>2, FS_CardinalityType
  <2> QED
    BY <1>3, <2>1, <2>2, <2>3, SubsetIsFewer
<1>7. b <= a \/ k <= a => Cardinality(M) <= Cardinality(L)
  <2> SUFFICES ASSUME b <= a \/ k <= a PROVE Cardinality(M) <= Cardinality(L)
    OBVIOUS
  <2>1. M \subseteq L
    BY <1>2, <1>5
  <2> QED
    BY <1>3, <2>1, FS_Subset
<1>8. b < k /\ k <= a => Cardinality(M) < Cardinality(L)
  <2> SUFFICES ASSUME b < k, k <= a PROVE Cardinality(M) < Cardinality(L)
    OBVIOUS
  <2>1. M \subseteq L /\ M # L
    BY <1>2, <1>5
  <2> QED
    BY <1>3, <2>1, FS_Subset
<1> QED
  BY <1>4, <1>6, <1>7, <1>8 DEF a, b

LEMMA MeasureStarts == Init => Measure <= 5 * Len(plan) + MaxConcurrent + 3
<1> SUFFICES ASSUME Init PROVE Measure <= 5 * Len(plan) + MaxConcurrent + 3
  OBVIOUS
<1>1. /\ next = 1 /\ phase = "dispatch" /\ caller = FALSE
      /\ \A w \in Workers : worker[w] \in {Idle, Gone}
  BY DEF Init
<1>2. \A w \in Workers : Weight(worker[w].at) \in {0, 1}
  BY <1>1 DEF Weight, Idle, Gone
<1>3. \A k \in 2..5 : Level(k) = {}
  BY <1>2 DEF Level
<1>4. \A k \in 2..5 : Crowd[k] = 0
  BY <1>3, FS_EmptySet DEF Crowd
<1>5. Crowd[1] \in Nat /\ Crowd[1] <= MaxConcurrent
  <2>1. Cardinality(Workers) = MaxConcurrent
    BY FS_Interval, PlansAssumption DEF Workers
  <2>2. Level(1) \subseteq Workers
    BY DEF Level
  <2>3. Cardinality(Level(1)) \in Nat /\ Cardinality(Level(1)) <= Cardinality(Workers)
    BY <2>2, FewWorkers, SubsetIsFewer
  <2> QED
    BY <2>1, <2>3 DEF Crowd
<1>6. Len(plan) \in Nat
  BY PlansAssumption DEF Init
<1>7. Busy <= MaxConcurrent /\ Busy \in Nat
  <2>1. Crowd[2] = 0 /\ Crowd[3] = 0 /\ Crowd[4] = 0 /\ Crowd[5] = 0
    BY <1>4
  <2> QED
    BY <1>5, <2>1 DEF Busy
<1> QED
  BY <1>1, <1>6, <1>7, PlansAssumption DEF Measure

LEMMA WorkersRunOut ==
    ASSUME ShapeInv, NEW w \in Workers, WorkerStep(w)
    PROVE  Measure' < Measure
<1>1. /\ worker' = [worker EXCEPT ![w] = worker'[w]] /\ DOMAIN worker = Workers
      /\ plan' = plan /\ phase' = phase /\ caller' = caller
      /\ Takes(w) \/ Closer(w)
      /\ next \in Nat /\ Len(plan) \in Nat /\ next <= Len(plan) + 1
  BY WorkerNears DEF ShapeInv
<1>2. Weight(worker[w].at) \in 0..5 /\ Weight(worker'[w].at) \in 0..5
  BY DEF Weight
<1>3. /\ \A k \in 1..5 : Crowd[k] \in Nat
      /\ \A k \in 1..5 : Crowd'[k] \in Nat
  <2>1. \A k \in 1..5 : Crowd[k] \in Nat
    BY CrowdsCount
  <2>2. (\A k \in 1..5 : Crowd[k] \in Nat)'
    BY CrowdsCount, PTL
  <2> QED
    BY <2>1, <2>2
<1>4. \A k \in 1..5 :
        /\ Crowd'[k] <= Crowd[k] + 1
        /\ Weight(worker'[w].at) <= Weight(worker[w].at) \/ k <= Weight(worker[w].at)
             => Crowd'[k] <= Crowd[k]
        /\ Weight(worker'[w].at) < k /\ k <= Weight(worker[w].at) => Crowd'[k] < Crowd[k]
  BY <1>1, <1>2, CrowdsMove
<1> DEFINE a == Weight(worker[w].at)
           b == Weight(worker'[w].at)
<1>5. CASE Takes(w)
  <2>1. a = 1 /\ next' = next + 1
    BY <1>5 DEF Takes, Weight
  <2>2. \A k \in 1..5 : Crowd'[k] <= Crowd[k] + 1
    BY <1>4
  <2>3. Crowd'[1] <= Crowd[1]
    BY <1>4, <2>1
  <2>4. Busy' <= Busy + 4 /\ Busy \in Nat /\ Busy' \in Nat
    BY <1>3, <2>2, <2>3 DEF Busy
  <2> QED
    BY <1>1, <2>1, <2>4 DEF Measure
<1>6. CASE Closer(w)
  <2>1. b < a /\ a \in 1..5 /\ b \in 0..5 /\ next' = next
    BY <1>2, <1>6 DEF Closer
  <2>2. \A k \in 1..5 : Crowd'[k] <= Crowd[k]
    BY <1>4, <2>1
  <2>3. Crowd'[a] < Crowd[a]
    BY <1>4, <2>1
  <2> HIDE DEF a
  <2>4. \/ Crowd'[1] < Crowd[1] \/ Crowd'[2] < Crowd[2] \/ Crowd'[3] < Crowd[3]
        \/ Crowd'[4] < Crowd[4] \/ Crowd'[5] < Crowd[5]
    BY <2>1, <2>3
  <2>5. Busy' < Busy /\ Busy \in Nat /\ Busy' \in Nat
    BY <1>3, <2>2, <2>4 DEF Busy
  <2> QED
    BY <1>1, <2>1, <2>5 DEF Measure
<1> QED
  BY <1>1, <1>5, <1>6

(***************************************************************************)
(* The pass runs out: every step of a worker, of the dispatcher and of the *)
(* caller brings the end closer, for any plan and any number of workers,   *)
(* so a pass takes at most 5 Len(plan) + MaxConcurrent + 3 steps, whatever *)
(* is answered, fails or is cancelled meanwhile (client.go:181-222).       *)
(***************************************************************************)
THEOREM PassRunsOut ==
    Spec => /\ Measure <= 5 * Len(plan) + MaxConcurrent + 3
            /\ [](Measure \in Nat)
            /\ [][Measure' < Measure]_vars
<1>0. Init => Measure <= 5 * Len(plan) + MaxConcurrent + 3
  BY MeasureStarts
<1>1. PassInv => Measure \in Nat
  <2> SUFFICES ASSUME PassInv PROVE Measure \in Nat
    OBVIOUS
  <2>1. Busy \in Nat
    BY CrowdsCount DEF Busy
  <2>2. next \in 1..(Len(plan) + 1) /\ Len(plan) \in Nat
    BY DEF PassInv, ShapeInv
  <2> QED
    BY <2>1, <2>2 DEF Measure
<1>2. ASSUME PassInv, Next PROVE Measure' < Measure
  <2>1. ASSUME NEW w \in Workers, WorkerStep(w) PROVE Measure' < Measure
    BY <1>2, <2>1, WorkersRunOut DEF PassInv
  <2>2. CASE Dispatcher \/ CallerCancels
    <3>1. /\ UNCHANGED <<plan, next, worker>>
          /\ \/ phase = "dispatch" /\ phase' = "closed" /\ caller' = caller
             \/ phase = "closed" /\ phase' = "returned" /\ caller' = caller
             \/ phase' = phase /\ ~caller /\ caller'
      BY <2>2 DEF Dispatcher, AllSent, BreakOff, Close, Return, Finish, CallerCancels, shared
    <3>2. Crowd' = Crowd
      BY <3>1 DEF Crowd, Level, Workers
    <3>3. Busy' = Busy /\ Busy \in Nat
      BY <3>2, CrowdsCount DEF Busy
    <3>4. next \in Nat /\ Len(plan) \in Nat
      BY <1>2 DEF PassInv, ShapeInv
    <3> QED
      BY <3>1, <3>3, <3>4 DEF Measure
  <2> QED
    BY <1>2, <2>1, <2>2 DEF Next
<1> QED
  BY <1>0, <1>1, <1>2, PassInit, PassInductive, PTL DEF Spec

=============================================================================
