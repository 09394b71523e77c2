# Compact Engine in TLA+

Specifications, model-checking configurations and machine-checked proofs for
Compact Engine, a Go program that shortens an agent's transcript to a token
budget. Every definition is translated from the Go source; `PROJECT.json` maps
each to its lines and lists the runs, mutants, findings, hazards and theorems.

Run a check with `tlc -config MCEngine.cfg MCEngine`, the proofs with
`tlapm Engine_proofs.tla`.

## The system

A request carries a transcript, a goal and a token target. `Engine.Compact`
validates it, joins its messages into dependency groups, archives the original,
asks a scorer how much each proposed reduction would lose, picks reductions
greedily, and returns a shorter transcript, or the original with a status that
says why.

| Component | State | Operations | Interacts with |
|---|---|---|---|
| Validation and grouping, `compact/groups.go` | union-find forest, maps of ids, calls, results and labels | collectGroups, find, join, assembleGroups, protection | called by the engine before any I/O |
| Selection loop, `compact/selection.go` | chosen representation per group, running total | variants, selectMessages, actionLoss, assemble | called by the engine; reads scores and counts |
| Engine, `compact/engine.go` | the copied request, the result under construction | Compact, evaluate, validateScores, cloneRequest | calls Counter, Store and Scorer; the caller's context can end any time |
| Archive, `archive/store.go` | files of a directory | Save, Load, Recall | concurrent calls and processes share the directory; crashes |
| Jev client, `jev/client.go` | per pass: channel, workers, once, parts | ScoreWithStats, batches, splitCandidate, send | HTTP; cancellation by the caller and by the first failure |
| Excerpts and scoring context, `compact/excerpt.go`, `context.go` | none | excerpt, clip, scoringContext | called by the engine |
| Server, `server/server.go` | admission slots | ServeHTTP, compact, snapshot, recall | one engine and one archive for all requests |
| Command, `cmd/compactd/main.go` | listener, serving goroutine | serve, compact, recall | signals; shutdown |
| Token counter, `token/counter.go` | mutex around a codec | Count, CountText | shared by all calls |
| Replay, `compact/replay.go` | copied scores | Score | stands in for Jev |

What is hard here: the forest is rewritten while it is walked and in the random
order of a Go map; the selection loop prices and counts by differences; groups
interleave in the transcript they are reassembled into; the archive must
survive crashes between any two system calls and concurrent writers of one
name; the scoring pass has workers, a dispatcher, a first failure and a caller
that may all stop the others; requests are packed, refused and split while
answer keys are positions within them; the server's slots must survive panics
and disconnections; a shutdown races its own deadline, the requests under way
and a failing `Serve`; byte budgets are used up by what is added after
clipping. The hazards in `PROJECT.json` name the line of each.

## Modules

| Module | Models | Reads as |
|---|---|---|
| `Selection` | the loop of `selectMessages` | one action, `Reduce`, per iteration; `Best` is the scan with its strict comparison and hence its tie-breaking |
| `Blocks`, `Partition` | what grouping promises | blocks united link by link in any order |
| `Transcript` | requests, validity, links, protection, proposals, rewriting | pure operators, used by Grouping and Engine |
| `Grouping` | `collectGroups` and `assembleGroups` | one action per loop step, down to each halving of `find`; implements `Partition` |
| `Engine` | `Engine.Compact` | one action per stage between two calls of a dependency; the loop is `Selection`'s `Reduce` |
| `Handled` | one call of `Engine` as its HTTP handler sees it | maps `Engine`'s state to `Server`'s and `Vault`'s; no actions of its own |
| `Vault`, `Archive` | `Store` on a POSIX file system | one action per system call of `Save`; implements `Vault` |
| `ScoringPass` | the goroutines of `ScoreWithStats` | one action per channel or context operation |
| `Batching` | the context loop of `ScoreWithStats`, `batches`, `splitCandidate`, `body`, `fits` | one action per round of each loop |
| `Scoring` | `ScoreWithStats` as a whole | `Batching`'s steps, then those of `ScoringPass` on the batches planned |
| `Text`, `Excerpt` | `excerpt` and `clip` | one action per line chosen, per byte `clip` steps back, per line rendered |
| `Context` | `scoringContext` calling `excerpt` | one action per call, per piece written and per verdict on the length |
| `Server` | the HTTP handler with its connections | one action per decision of `ServeHTTP` and the routes; `INSTANCE Vault` is the archive behind it |
| `Service` | the command `serve` around `Server` | one action per statement that can fail, block or race; kills and restarts |
| `Replay` | `NewReplay` and `Score` on a heap | references instead of values, because the property is about sharing |
| `Samples`, `MC*` | small transcripts and instances | |
| `*_proofs` | theorems | |

`Engine` takes `groups` from `Transcript!Collect`, the connected components, of a
request that is `Valid`; that the code computes these is `Grouping`'s
`GroupsAreComponents` and `Verdict`, put together in `EngineTakesTheseGroups`. `Engine`
instantiates `Selection` on its own variables. Stores and
scorers are the weakest ones the interfaces allow: a store may fail before or
after the snapshot is durable, a scorer may return anything of the right shape.
That `ScoreWithStats` is such a scorer is `ScoresInOneStep`.

The modules compose upwards. `Scoring` extends `Batching` and instantiates
`ScoringPass` with the plan that was made, in place of the plans the pass's own
run enumerates. `Context` extends `Excerpt`: it calls it for every text and waits
for its last line. `Server` acts on the archive only by `Vault`'s `Appear` and
`Acknowledge`, which `Archive` is shown to implement from below; between them
stands `Engine`, which `Handled` shows to go through the stages that `Server` gives a
call, acknowledging and answering as it says. `Service` extends
`Server` by the process around it: whatever ends the process ends its requests,
and the archive stays. `Text` holds what clipping and halving share.

Names that the definitions share with the code keep its spelling (`request`,
`parents`, `positions`, `firstErr`, `once`, ...). Definitions marked "Mutant
of" are plausible mistakes; no specification uses them. Replacing the original
by its mutant must break the property `PROJECT.json` lists with it, which shows
that the property depends on that piece of code.

### Correspondence in detail

*Grouping.* `pc` runs through validation (`Validate`, the first pass over the
messages), `declare` (`Depend` and `Label`, the second pass), `answer` (`Answer`,
the range over the results map: any remaining result may be next), `assemble`
(`Seek`, `PlaceMessage`). `join(a, b)` is `StartJoin`, then `Halve` steps and
`LeftFound`, then `Halve` steps and `RightFound`, because Go evaluates
`find(a)` in the index before `find(b)`. `block`, `rank` and `joined` are
history variables: the partition so far, a height bound that excludes cycles,
and the links joined. `positions` holds a leader's index where the code holds
an index into the slice of groups.

*Engine.* `Begin` is validation, grouping and `cloneRequest`; `CountInput`; then the
archive, in two halves: `Named`, after which the snapshot can be found, and
`Save`, which returns its id, or `SaveFails`; then the three early returns; `AskScorer`; `Check` is the context check
and `validateScores`; `SelectStep`, `SelectDone` and `SelectCanceled` are the
loop in the order of its tests; `Finish` is everything from the final count.
`Cancel` is the caller's context and may happen between any two of them.

*Archive.* A directory entry is absent, good, torn or rotten; `vis` is what
processes see, `stable` what the disk has, `safe` the entries whose bytes were
synced. `Break` is any failing system call or the context found ended before
the rename; the deferred clean-up is `CleanUp`, which may fail too and then leaves
the temporary file, as it is best effort in the code. A power failure keeps or loses
each directory change since the last directory sync and the bytes of unsynced
files. `home` tells whether the directory's own entry is durable. `Load` is two steps:
`Open` fixes the file, and until `Verify` the name may come to stand for another one and
the open file's bytes may be damaged before they are read. What it may return
has a verdict each: no such file, a file that cannot be opened or read, a hash that
differs, a decoding error, the end of the context, the request. `owed` is history: the
load began after the snapshot was acknowledged.

*ScoringPass.* `Hand` is the rendezvous on the unbuffered channel; `select`
takes either ready case. `once.Do` is two steps, `Record` and `CancelPass`,
between which other failing workers block.

*Batching.* `start`, `end` and `accepted` are the variables of `batches`,
counted from one. A request is a record of what its body encodes: the goal, the
length of the context, the candidates as sent and the questions by key.
`Asks` is what `body` asks, `Looks` what `send` reads from the answers; they are
translated apart, from the two loops, because that they agree is the property.
`HalfFits` and `Fits` compare the constants `Bytes` and `Tokens` of a request
with the limits. `flaky` allows the token counter to fail: an error in the
context loop, a refusal in `fits`. The mode with two probabilities splits a
candidate into one part, the mode with losses into one part per replacement;
the loop that halves the preview is the same.

*Scoring.* `CanceledBefore` is the one look at the context before planning;
after `StartWorkers` the pass runs, and a cancellation that came during
planning is found there.

*Excerpt.* `Room` is the argument of `clip`; `end` walks back as `clip`'s does;
`remaining` pays for a line with its number, mark and line end, as the code
does after clipping. Lines carry how many error words and goal terms they hold.

*Context.* `Call` prepares the excerpt of the next piece, `Excerpting` is its
loop, `Write` appends what it shows (`Shown`) with the message's own bytes; what
follows the last piece is one of `Return`, `TryShorter` and `ExcerptWhole`.
`totals` is history: how long each try turned out. The excerpt of a whole
context, whose lines are the written ones, is `Sizes(length, Most)`, the lengths
that `WithinBudget` allows. Initial states without a conversation are the engine's
other calls of `excerpt`.

*Server.* A connection is a record with the place of its request (`arrived`,
`admission`, `routed`, ... `leaving`), the answer it was given, and whether it
holds a slot; `slots` is the channel's length. `Enter`, `CanceledWaiting` and
`Busy` are the three cases of the `select`. A place between two actions is one
where a context may end or the handler may panic. `told` is what clients have
learned from results; a request is `known` when it asks for something it
was told.

*Service.* `main` is the position of `serve`; `doneCh` the buffered channel;
`stopping` the server's own flag, by which a `Serve` that begins late returns
`ErrServerClosed`. `Overdue` is the forced close, which ends the contexts of
the requests under way without waiting for their handlers. `cut` and `failed`
are history: what died with the process, and whether `Serve` had failed.

*Replay.* Each map and pointer is a reference into `heap`; `open` are the
references callers hold, `Write` is any caller's assignment.

## What is checked

| Run | Shows |
|---|---|
| `selection` | no chosen proposal is dominated (`Undominated`), steps never trade back (`OneWay`), and when the loop gives up no permitted combination fits (`UnmetIsTight`) |
| `grouping` | the forest represents the partition at every step and joining implements it, groups are components named by their first message, the verdict does not depend on where validation stops, and the call returns |
| `engine` | archive first, fail closed, honest statuses, totals and statistics that agree with the transcript, valid and ordered output, verbatim content kept, and a call that goes through the stages its handler knows (`HandledByServer`) |
| `archive` | acknowledged snapshots survive (`AckedDurable`), readers see complete files, a load never calls an acknowledged snapshot missing or damaged although its name is renamed over while it reads (`NeverDenied`), and the protocol implements `Vault` |
| `scoring_pass` | no partial success, in whichever order workers finish, fail and stop (`Complete`), and the root cause reported (`RootCause`) |
| `scoring` | planning and sending together: a success answers for every candidate and replacement, each asked for once (`Answers`), answers are credited to what was asked (`Routed`), limits hold (`WithinLimits`), shortened evidence is declared and cut at runes (`EvidenceHonest`), a refusal has one of the causes listed there (`RefusedForCause`), a caller that gives up during planning is sent nothing for and never told of a success (`EarlyCancel`), and the call returns (`Returns`) |
| `excerpt` | the limit holds although lines overdraw the budget (`WithinBudget`), cuts are rune boundaries (`WholeRunes`), the best lines come first and lines are left out only once less than 64 bytes of the limit are unspent (`GivesEvidence`), and contexts are bounded but shortened no further than the bound demands (`NoShorterThanNeeded`) |
| `service` | slots are exact and never leak, 429 only when full, what results promised is found across exits, kills and restarts, exit status zero is true and nothing stays open, a signal stops the process |
| `replay` | replies do not depend on what callers do to the maps they hold |
| `engine_clone`, `archive_fresh`, `context_docs` | the three findings below |

### Bounds, and why they are enough

- `selection`: three groups, nine profiles, three targets, 2,187 problems. The
  loop compares pairs of moves and adjusts one group; three groups give ties
  between groups, moves that overtake one another inside a group, a protected
  group in every position, and both ways of stopping.
- `grouping`: four messages; five patterns of calls and results, three of them
  valid, times labels and dependencies (missing, repeated, forward, backward),
  and six transcripts broken on their own. Four nodes allow paths of length
  three, which is what halving needs to skip over an inner node.
- `engine`: five transcripts of two to six messages (crossed results, narration, side
  effects, chains, labels, a pending call, nothing reducible), targets between
  impossible and generous, recency 0, 1, 2 and default, both modes; eight
  scores per candidate, two per policy and four malformed.
- `archive`: two savers, two snapshots, one loader, `MaxCrashes` 2, `MaxRot` 1.
  Two savers give every race over one name and over the directory; the second
  crash falls on what the first left.
- `scoring_pass`: three workers, up to four batches: more batches than workers,
  fewer, none, and a candidate split over batches.
- `scoring`: sequences of up to three candidates: packed together, one too large
  between small ones, several too large, one without replacements, one too
  large even without a preview. Contexts of 0, 107 and 3,000 runes meet every
  branch of the shortening, and a long goal keeps the loop going to its end.
  Limits are the least that `jev.New` accepts; request sizes are linear in what
  a request holds, with multi-byte runes dear. `MaxBatches` 3 is exceeded both
  by packing and by a split; `MaxConcurrent` 2 is less than the batches of some
  plans. The evaluations of `Flaky` have a token counter that may fail.
- `excerpt`: texts of one long line, runes of one to four bytes and mixed, lines
  beyond a quarter of the limit, a short error line behind many empty ones, two-
  and three-digit line numbers; fifteen limits from zero to 800, among them scoringContext's
  three and those next to a constant of the arithmetic. The engine's longer excerpts
  (1,600, 12,000 and 16,000 bytes) are covered by the proofs only. Conversations of up
  to 110 messages, whose total passes the bound at the first, the second or the third
  limit or at none, at the bound and one beyond it.
- `service`: two clients and one slot, so that a slot is contended, freed and
  taken again; requests of every kind, any number one after another; one
  snapshot, `MaxStarts` 2: what was stored in a first life can be asked for in a
  second, with a kill or an exit between.
- `replay`: `MaxReplies` 2, two values: a reply, a write, and another reply.

One call of the engine, the selection loop, grouping, the pass, scoring and the
excerpts ends, so deadlock is not checked there; that they end rather than
wait for ever is checked where a loop or a rendezvous could fail to (`Terminates`
of `Grouping`, `Returns` of `Scoring`; the selection loop lowers a total at every
step, `OneWay`). In the `service` run the system may come to rest (no more
starts), and liveness is checked instead. The archive and the replay scorer never
stop and are checked for deadlock.

### Fairness

`Grouping` assumes weak fairness of its one goroutine. `Scoring` assumes weak
fairness of planning, of the dispatcher and of each worker: planning is local
work, Go schedules runnable goroutines, and `http.Client.Timeout`, which is never
zero after `New`, ends every request. The caller's cancellation is never forced.
`Service` assumes weak fairness of each request's own steps (a body ends by
the connection's `ReadTimeout` of 35 s, the engine's and the archive's calls by
their contexts, which end with the deadline of 30 s), of the command and of the
serving goroutine: construction is local work, and `Shutdown` returns by its
deadline of 5 s. Arrivals, disconnections, panics, signals, kills, restarts and
a failing `Serve` are never forced. The other specifications need no fairness;
their properties are safety.

### Findings

- `engine_clone`: an unapplied result is not deeply equal to the caller's
  messages, as `compact/invariants_test.go:75` states: `cloneRequest` re-encodes the
  arguments of tool calls (white space, escapes). The archive stores that form too.
- `archive_fresh`: `New` creates the archive directory without syncing its
  parent, so the durability of `docs/architecture.md:23` starts only once
  something else has made the directory's entry durable.
- `context_docs`: `scoringContext` bounds the sampled global context by 12,000 bytes
  (`compact/context.go:25`), while the table of limits in `docs/configuration.md:50`
  says 4,000; the run shows a context in between.

## What is proved

All proofs are checked by TLAPS for every value of the constants under the
modules' named assumptions.

- `Selection_proofs`: type correctness with choice safety, `Undominated`,
  `OneWay` and `UnmetIsTight`. The inductive invariant of the first three is the type
  invariant with `Undominated`; the key lemma is that a strictly smaller move at no
  greater loss always beats the chosen one, so the scan cannot have chosen it.
  `UnmetIsTight` needs that the total, kept by differences, is the sum over the groups
  (`TotalStart`, `TotalStep`), and `StuckIsSmallest`, which says that with no move left
  every group is at its smallest representation.
- `Grouping_proofs`: of the abstract `Partition`, for every graph, that the blocks are a
  partition, honour the links done and are least such, so that with no link left they
  are the components. Of `Grouping`, first the forest invariant. It is not inductive without
  `CursorInv` (the find under way stays inside its block, the left root is
  still a root) and the rank, which excludes cycles without speaking of paths.
  From it follows that every step is a step of `Partition` or a stutter, and so
  that the blocks are the components once every link has been joined.
  `Verdict` needs `VerdictInv`: the rules checked so far hold, and a request that was
  turned away breaks one. `GroupsAreComponents` needs three invariants: `ProgressInv`,
  that every link of what was walked so far is joined or being joined, in whichever
  order the results come; the invariant of `Partition`, which the refinement carries
  over; and `PlacementInv`, what the leaders, `positions` and the groups placed so far
  have to do with one another. `EngineTakesTheseGroups` puts both in the words of `Engine`.
  `FindsEnd` bounds every find: by `RankInv` no root is higher than the number of links
  joined, and `Halve` only ever climbs.
- `Engine_proofs`: `ArchivedFirst` and `FailClosed`, from an invariant that
  ties each program point to what has been archived and copied by then; and
  `BudgetTruth`, `TotalsAgree`, `UnmetIsHonest`, `KeptVerbatim` and `StillValid`, for
  every request, reply and interleaving with cancellation and failures. They rest on
  `OutcomeInv`, which has three parts: what is known of the data (`DataInv`: the copy and
  the groups are those of a valid request), of the search (`SelectInv`: the problem is
  that of a valid reply, every group is its original or a permitted proposal, the total
  is their sum), and of the result (`Outcome`: the five ways a result comes about, each
  with what then holds of it). `BudgetTruth` alone is not inductive: that `total` is the
  size of the transcript has to be known while the loop runs. The lemmas beneath it are
  worth reading on their own: components of links are a partition that no link leaves
  (`ComponentFacts`, `CollectFacts`); the size of a rewritten transcript is the sum over
  its groups, however they interleave (`CountByGroup`); the problem handed to the loop is
  well formed (`ProblemIsInput`), so that the lemmas of `Selection_proofs` hold of the
  loop within the engine, where they are instantiated; and the messages an applied result
  keeps are listed in order and closed under links (`SelectedIsOutput`). The one
  assumption, `RequestsAssumption`, says what a `Request` decoded from JSON has: its
  fields, a list of messages, sizes that are token counts. Last, `EngineIsHandled`: every
  step of a call is one that `Server` allows its handler, or none. `ViewInv` is what it
  needs: nothing is archived before the snapshot has its name, and then just this one,
  and an error is there only at the end. So the requests refused as invalid were never
  archived, and 504 is only for a context that ended.
- `Archive_proofs`: durability, completeness and the refinement of `Vault` for
  an established directory. `DiskInv` says what a crash can fall back on: an
  entry that is good on the disk is good to processes, and good entries have
  synced bytes; `ProtocolInv` ties a saver's step to what it has achieved. From these
  follows `NeverDenied`, with `OwedInv`: a snapshot owed to a load is still
  acknowledged, and the file the load has open is a complete one.
- `ScoringPass_proofs`: no partial success and root cause.
  `Conservation` says where each batch handed over is; `Causes` who can have
  ended the context. The invariant they rest on asks nothing of the plan, so that it can
  be cited for the plan a caller makes. That the pass ends is proved in two halves.
  `PassNeverSticks`: until it returns, some goroutine can go on without the caller; the
  circle to exclude is a worker waiting in the `Once`, its owner, and a dispatcher
  waiting for both, and `WaitInv` says that the owner is always there.
  `PassRunsOut`: every step lowers `Measure`, which counts five for a batch not yet
  handed over and for each worker the levels it stands above its exit. What the guards
  `WorkerMoves` and `DispatcherMoves` say is written out from the actions.
- `Scoring_proofs`: of the planner alone and of the whole of `ScoreWithStats`,
  `Routed`, `WithinLimits`, `EvidenceHonest` and `RefusedForCause` (`RefusalsHaveCause`), for all evaluations,
  limits and measures of a request's size. `PlanInv` says of the request under
  construction and of the parts of a split candidate what the properties say of the
  requests planned: that each carries its own body and fits (`RequestInv`), and that a
  part still to be placed is one of the candidate's, perhaps cut (`PieceInv`). Only
  the comparison of keys is about the wire; the rest holds however sizes are measured,
  also for a measure under which a longer text is smaller. Then `Answers`, of planner and
  pass together. `Balance` is the planner's account: what the requests planned so far
  ask for is what the candidates before `start` need, in order, and during a split the
  parts placed and the parts left come to the candidate's needs. It is a statement
  about concatenations, for which `FlatJoined`, `FlatSingles` and `Associative` are the
  lemmas. `CallInv` joins the two: before the workers start, nothing of the pass has
  moved; afterwards the plan is fixed and the pass's own invariant holds of it, cited
  from `ScoringPass_proofs` with the plan of `Batching` put in. `NothingSentInVain` is
  `EarlyCancel`, a statement about all that follows a state: `Withheld` starts to hold
  when the caller gives up during planning, no step ends it, and it leaves a worker
  nothing to send. `ScoresInOneStep` then
  abstracts all of it, planner, workers and cancellation, to the one step `AskScorer` of
  `Engine`: a reply with a score for everything asked, or an error and no score.
  The same module proves `RepliesAreReproducible` of `Replay`, the scorer that stands in for
  Jev. `OwnInv` says why it holds: no caller has a reference into the scorer's own copy,
  and memory is used once, so that no reply shares its references with another.
- `Service_proofs`: of the handler alone and of the whole service with exits,
  kills and restarts, `SlotsExact`, `Recoverable` and `OverloadIsReal`. `PlaceInv`
  says which requests hold a slot, `SlotsInv` counts them: a finite set one
  element of which comes or goes. `PromiseInv` says why promises can be kept: what
  clients were told is acknowledged, and what is acknowledged is never lost.
  `CleanExit` rests on `OrderInv`, which orders signal, shutdown, the end of serving
  and its report, and on `DrainInv`: a shutdown that saw every request answered has
  none under way later, as a stopping server accepts no more. `KeepsTheVault`: every step of the service is one of `Vault`.
- `Excerpt_proofs`: `WithinBudget`, `WholeRunes` and `GivesEvidence`, for all texts and
  limits, of an excerpt alone and of the excerpts within a context; and
  `NoShorterThanNeeded`, for all conversations. `WithinBudget` is not inductive, as
  `remaining` may become negative: `Ledger` adds what is spent to what is left and
  bounds the overdraft by seven bytes (a line number has at most ten digits,
  `DigitsBound`); `ClipInv` says that the cut under way has not passed the latest
  rune boundary in reach; `RankInv` that what was picked ranks before whatever was
  not. `SpentInv` accounts for the budget while nothing has been clipped, from which
  the second half of `GivesEvidence` follows; `BuildInv` that the length written so far
  is the sum of the pieces.

Sums are functions on 1..n or folds over a set. The proofs about them rest on one
lemma each, `Induction` and `SubsetInduction`, which state induction for a set of
indices, not for an operator, and are proved from the existence of least elements.

Assumptions. Each is named and stated with the constants it is about; runs evaluate
them. Three carry more than types: `EvaluationsAssumption` has a candidate's id unique
within an evaluation, as the engine names candidates after groups and groups after their
first messages (`compact/engine.go:212`), and without which the answers about two candidates
would be merged; `RequestsAssumption` has what decoding JSON gives; and `ReplayAssumption`
says that a reference made by copying is none of those supplied, nor nil: an allocation
returns memory that is not in use.

Only model-checked: everything temporal under fairness (`Terminates`, `Returns`,
`Stops`), which the prover cannot treat. For the scoring pass and for `find`, the
arguments beneath are proved (a measure that every step lowers, and for the pass
that somebody can always move); that the planner, the validation loops and a shutdown
end rests on TLC. The guards in `NobodyWaits` are spelled out, since the prover has no
`ENABLED`. Nothing is proved of `Engine`'s type invariant: that an absent result differs from a returned one is a
fact about the value chosen for `Nil`. The limit on line numbers in the proof about
`Excerpt` is the one of the model: `Digits` stops at ten.

## Abstractions

- Scores are percent points and prices exact fractions; floating-point rounding
  in comparisons of weights is not modelled.
- SHA-256 is injective and random temporary names are not reused while in use.
- Lexical validity of ids, text and arguments is one flag per message.
- Token counts are given per message and representation; `Count` is additive, as
  the interface demands of counters.
- A batch's answers are all usable or the batch fails, as in `send`.
- The size of a request in bytes and in tokens is a constant function of what it
  holds; the properties of `Batching` hold for the function of its run, and none
  of its definitions looks inside.
- A text is its length and the offsets of its runes; which words it holds is
  two numbers per line.
- `Server` sees the engine as the stages that statuses tell apart: before the
  archive, the two halves of saving, and scoring; `Engine` models what happens in
  them, and `HandledByServer` is the statement that it stays within them. A medium that rots is left to `Archive`: `Recoverable` is
  about the program.
- A result counts as told to a client also when the connection broke while it was
  written, so `Recoverable` covers clients that saw any of it.

## Not modelled

The tokenizer and JSON encoding (libraries). The token counter's mutex: it is taken
at the top of `Count` and `CountText` and released by `defer`, around straight-line
code; the engine relies on the additive measure, which is `Transcript`'s `Count`. The subcommands `compact` and
`recall` of `compactd`: straight lines of decode, build, one call and print,
without a second actor or a state that outlives them; what they call is
modelled. Flags, environment, logging and printing. `archive.Recall`'s lookup of
a message after `Load`, which changes no state. The evaluation scripts, the demo
and the documentation.

## Plan

The model covers what the running system does, and every safety property that a run
checks is proved. Left to extend: several requests at a time through the whole of
`Compact` in one run (`EngineIsHandled` joins one call to `Server`, and the calls meet
only in `Vault`); several processes of `serve` on one archive, which `Archive`'s
concurrent savers stand for. Left to prove: measures for the planner of `Batching`
and for a shutdown, as there is one for the pass.
