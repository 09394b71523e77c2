------------------------------ MODULE Batching ------------------------------
(***************************************************************************)
(* The planning half of Client.ScoreWithStats (jev/client.go): the context *)
(* is shortened until a request without candidates takes at most half the  *)
(* limits, candidates are packed into requests greedily, and a candidate   *)
(* too large for one request is asked about in parts, with an ever shorter *)
(* preview.  One action per round of each loop.                            *)
(***************************************************************************)
EXTENDS Text, FiniteSets, Sequences

CONSTANTS
    Evaluations,        \* [goal |-> bytes, context |-> runes, candidates |-> sequence]
    Bytes(_),           \* size of an encoded request
    Tokens(_),          \* its estimate in tokens
    MaxRequestBytes, MaxRequestTokens, MaxBatches,
    Flaky,              \* evaluations during which the token counter may fail
    Nil

VARIABLES
    eval,       \* the evaluation to be scored
    keep,       \* config.KeepScoring
    flaky,      \* may the token counter fail?
    pc,         \* context, batches, split, done, failed
    context,    \* runes of eval.Context, as shortened so far
    start, end, \* candidates start..end-1 are in the request being built
    accepted,   \* the last request that fitted, or Nil
    pieces,     \* parts of a split candidate still to be placed
    split,      \* requests of the parts placed
    batches     \* sequence of [body, candidates]

vars == <<eval, keep, flaky, pc, context, start, end, accepted, pieces, split, batches>>
input == <<eval, keep, flaky>>

\* A candidate: its original as shown to the scorer, and the replacements asked about.
Actions == {"extract", "brief", "reference", "drop"}
IsCandidate(c) == /\ c \in [id : {c.id}, preview : [bytes : Nat, starts : SUBSET Nat],
                            complete : BOOLEAN, variants : Seq(Actions)]
                  /\ IsText(c.preview)
IsList(s) == s \in Seq({s[i] : i \in DOMAIN s})

\* The engine names its candidates after their groups.
ASSUME EvaluationsAssumption ==
    /\ MaxRequestBytes \in Nat /\ MaxRequestTokens \in Nat /\ MaxBatches \in Nat \ {0}
    /\ \A e \in Evaluations :
          /\ e.goal \in Nat /\ e.context \in Nat /\ IsList(e.candidates)
          /\ \A i, j \in DOMAIN e.candidates :
                IsCandidate(e.candidates[i])
                    /\ (e.candidates[i].id = e.candidates[j].id => i = j)

N == Len(eval.candidates)

-----------------------------------------------------------------------------
\* Requests: questions by key, and the keys send() looks up.

\* Mutant of LossKey: the candidate is left out.
LossKeyShort(i, j) == <<"l", j>>

LossKey(i, j) == <<"l", i, j>>

Pair(c, i, r, d) == {[key |-> <<"r", i>>, about |-> <<c.id, r>>],
                     [key |-> <<"d", i>>, about |-> <<c.id, d>>]}
Losses(c, i)     == {[key |-> LossKey(i, j), about |-> <<c.id, c.variants[j]>>] :
                        j \in DOMAIN c.variants}

Asks(cs) ==
    UNION {IF keep THEN Pair(cs[i], i, "call", "result")
           ELSE IF cs[i].variants # <<>> THEN Losses(cs[i], i)
           ELSE Pair(cs[i], i, "relevance", "detail") : i \in DOMAIN cs}

\* What send() reads from the answers, and for which candidate and score.
Looks(cs) ==
    UNION {IF ~keep /\ cs[i].variants # <<>> THEN Losses(cs[i], i)
           ELSE IF keep THEN Pair(cs[i], i, "call", "result")
           ELSE Pair(cs[i], i, "relevance", "detail") : i \in DOMAIN cs}

Wire(c) == IF keep THEN [c EXCEPT !.variants = <<>>] ELSE c

Body(n, cs) == [goal |-> eval.goal, context |-> n, asks |-> Asks(cs),
                candidates |-> [i \in DOMAIN cs |-> Wire(cs[i])]]

Fits(body) == Bytes(body) <= MaxRequestBytes /\ Tokens(body) <= MaxRequestTokens

\* A request that is counted and fits; one that does not, or cannot be counted.
Accepts(body) == Fits(body)
Refuses(body) == ~Fits(body) \/ flaky

-----------------------------------------------------------------------------
Init ==
    /\ eval \in Evaluations /\ keep \in BOOLEAN
    /\ flaky \in BOOLEAN /\ (flaky => eval \in Flaky)
    /\ pc = "context" /\ context = eval.context
    /\ start = 1 /\ end = 1 /\ accepted = Nil
    /\ pieces = <<>> /\ split = <<>> /\ batches = <<>>

Packing == <<start, end, accepted, pieces, split, batches>>

\* Half the limits are kept for a candidate and its questions.
HalfFits == LET body == Body(context, <<>>) IN
    /\ Bytes(body) <= MaxRequestBytes \div 2
    /\ Tokens(body) <= MaxRequestTokens \div 2

Omitted == 27       \* runes of the mark between the two quarters

\* Mutant of Shortened: marks what is too short to shorten.
ShortenedAlways(n) == IF n \div 4 = 0 THEN 0 ELSE 2 * (n \div 4) + Omitted

Shortened(n) == IF n < 80 \/ n \div 4 = 0 THEN 0 ELSE 2 * (n \div 4) + Omitted

ShortenContext ==
    /\ pc = "context" /\ context > 0 /\ ~HalfFits
    /\ context' = Shortened(context)
    /\ UNCHANGED <<input, pc, Packing>>

ContextDone ==
    /\ pc = "context" /\ (context = 0 \/ HalfFits)
    /\ pc' = "batches"
    /\ UNCHANGED <<input, context, Packing>>

ContextUncounted ==
    /\ pc = "context" /\ context > 0 /\ flaky
    /\ pc' = "failed"
    /\ UNCHANGED <<input, context, Packing>>

-----------------------------------------------------------------------------
\* batches(): the next request takes as many candidates as fit.

Chosen(from, to) == SubSeq(eval.candidates, from, to)
Longer == Body(context, Chosen(start, end))

Extend ==
    /\ pc = "batches" /\ end <= N /\ Accepts(Longer)
    /\ accepted' = Longer /\ end' = end + 1
    /\ UNCHANGED <<input, pc, context, start, pieces, split, batches>>

NoLonger == end <= N => Refuses(Longer)

\* The batch limit is compared after the new requests have been appended.
Add(more, next) ==
    /\ batches' = batches \o more
    /\ pc' = IF Len(batches') > MaxBatches THEN "failed" ELSE "batches"
    /\ start' = next /\ end' = next /\ accepted' = Nil
    /\ UNCHANGED <<input, context>>

CloseBatch ==
    /\ pc = "batches" /\ end > start /\ NoLonger
    /\ Add(<<[body |-> accepted, candidates |-> Chosen(start, end - 1)]>>, end)
    /\ UNCHANGED <<pieces, split>>

\* The parts of a candidate: as a whole when scoring keeps, else one per replacement.
PiecesOf(c) == IF keep THEN <<c>>
               ELSE [j \in DOMAIN c.variants |-> [c EXCEPT !.variants = <<@[j]>>]]

SplitCandidate ==
    /\ pc = "batches" /\ start <= N /\ end = start /\ NoLonger
    /\ pieces' = PiecesOf(eval.candidates[start])
    /\ pc' = IF pieces' = <<>> THEN "failed" ELSE "split"
    /\ UNCHANGED <<input, context, start, end, accepted, split, batches>>

Finish ==
    /\ pc = "batches" /\ start > N
    /\ pc' = "done"
    /\ UNCHANGED <<input, context, Packing>>

-----------------------------------------------------------------------------
\* splitCandidate(): each part on its own, its preview halved until it fits.

Part == Body(context, <<Head(pieces)>>)

PlacePart ==
    /\ pc = "split" /\ pieces # <<>> /\ Accepts(Part)
    /\ split' = Append(split, [body |-> Part, candidates |-> <<Head(pieces)>>])
    /\ pieces' = Tail(pieces)
    /\ UNCHANGED <<input, pc, context, start, end, accepted, batches>>

Half(preview) == CHOOSE e \in 0..preview.bytes : IsCut(preview, preview.bytes \div 2, e)

\* Mutant of HalvePreview: the preview is still declared complete.
HalveQuietly ==
    /\ pc = "split" /\ pieces # <<>> /\ Refuses(Part) /\ Head(pieces).preview.bytes > 0
    /\ pieces' = [pieces EXCEPT ![1].preview = Prefix(@, Half(@))]
    /\ UNCHANGED <<input, pc, context, start, end, accepted, split, batches>>

HalvePreview ==
    /\ pc = "split" /\ pieces # <<>> /\ Refuses(Part) /\ Head(pieces).preview.bytes > 0
    /\ pieces' = [pieces EXCEPT ![1].preview = Prefix(@, Half(@)), ![1].complete = FALSE]
    /\ UNCHANGED <<input, pc, context, start, end, accepted, split, batches>>

\* Mutant of GiveUp: gives up at the first refusal.
GiveUpEarly ==
    /\ pc = "split" /\ pieces # <<>> /\ Refuses(Part)
    /\ pc' = "failed"
    /\ UNCHANGED <<input, context, Packing>>

GiveUp ==
    /\ pc = "split" /\ pieces # <<>> /\ Refuses(Part) /\ Head(pieces).preview.bytes = 0
    /\ pc' = "failed"
    /\ UNCHANGED <<input, context, Packing>>

\* Mutant of PartsDone: does not compare the limit after a split.
PartsDoneUnlimited ==
    /\ pc = "split" /\ pieces = <<>>
    /\ batches' = batches \o split /\ split' = <<>>
    /\ pc' = "batches"
    /\ start' = start + 1 /\ end' = start + 1 /\ accepted' = Nil
    /\ UNCHANGED <<input, context, pieces>>

PartsDone ==
    /\ pc = "split" /\ pieces = <<>>
    /\ Add(split, start + 1)
    /\ split' = <<>> /\ UNCHANGED pieces

Batches == Extend \/ CloseBatch \/ SplitCandidate \/ Finish
Split   == PlacePart \/ HalvePreview \/ GiveUp \/ PartsDone
Next == ShortenContext \/ ContextDone \/ ContextUncounted \/ Batches \/ Split

Spec == Init /\ [][Next]_vars

-----------------------------------------------------------------------------
\* Properties.

Flat(seqs) == LET upTo[i \in 0..Len(seqs)] ==
                      IF i = 0 THEN <<>> ELSE upTo[i - 1] \o seqs[i]
              IN  upTo[Len(seqs)]

\* The scores a candidate needs, in order.
Wanted(c) == [j \in DOMAIN c.variants |-> <<c.id, c.variants[j]>>]
Needs(c) == IF keep THEN << <<c.id, "call">>, <<c.id, "result">> >>
            ELSE IF c.variants # <<>> THEN Wanted(c)
            ELSE << <<c.id, "relevance">>, <<c.id, "detail">> >>
NeedsOf(cs) == Flat([i \in DOMAIN cs |-> Needs(cs[i])])

(***************************************************************************)
(* Each answer is credited to the candidate and action that was asked      *)
(* about: the keys send() looks up for a batch are those that the body     *)
(* prepared for it earlier uses, for the same questions, and the body is   *)
(* the one for these candidates (client.go:228-250, 275-290, 319-352).     *)
(***************************************************************************)
Routed ==
    \A i \in DOMAIN batches :
        LET b == batches[i] IN
        /\ b.body = Body(context, b.candidates)
        /\ \A l \in Looks(b.candidates) : {q \in b.body.asks : q.key = l.key} = {l}

(***************************************************************************)
(* No request exceeds the limits on bytes and tokens, and no more requests *)
(* are sent than configured, although a split adds several at once and is  *)
(* compared with the limit only afterwards (client.go:246-254, 418-423).   *)
(***************************************************************************)
WithinLimits ==
    /\ \A i \in DOMAIN batches : Fits(batches[i].body)
    /\ pc = "done" => Len(batches) <= MaxBatches

(***************************************************************************)
(* The scorer is never misled about evidence: a preview is the original's  *)
(* or a prefix of it that ends with a whole rune and is declared           *)
(* incomplete (client.go:366-367, docs/scoring-v0.3.md).                   *)
(***************************************************************************)
EvidenceHonest ==
    \A i \in DOMAIN batches : \A c \in {batches[i].candidates[k] : k \in DOMAIN batches[i].candidates} :
        \E o \in {eval.candidates[k] : k \in 1..N} :
            /\ o.id = c.id
            /\ \/ c.preview = o.preview /\ c.complete = o.complete
               \/ /\ ~c.complete
                  /\ c.preview.bytes \in o.preview.starts
                  /\ c.preview = Prefix(o.preview, c.preview.bytes)

(***************************************************************************)
(* A pass is refused only for cause: a token counter that failed; too many *)
(* requests; a replacement, or a candidate scored for retention, that does *)
(* not fit with its preview taken away altogether; or a candidate without  *)
(* replacements that does not fit as it is, alone in a request, for such a *)
(* one is never shortened.  So long texts alone do not fail a pass in the  *)
(* modes that split (client.go:143-165, 375-380, 388-390, 404-409).        *)
(***************************************************************************)
Bare(c) == [c EXCEPT !.preview = Empty, !.complete = @ /\ c.preview.bytes = 0]
RefusedForCause ==
    pc = "failed" =>
        \/ flaky
        \/ Len(batches) > MaxBatches
        \/ LET c == eval.candidates[start] IN
           \/ PiecesOf(c) = <<>> /\ ~Fits(Body(context, <<c>>))
           \/ \E p \in {PiecesOf(c)[j] : j \in DOMAIN PiecesOf(c)} :
                 ~Fits(Body(context, <<Bare(p)>>))

=============================================================================
