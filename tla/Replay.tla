------------------------------- MODULE Replay -------------------------------
(***************************************************************************)
(* compact/replay.go: scores hold references, a map of losses and a        *)
(* pointer to retention scores, which NewReplay and Score copy while their *)
(* callers keep, and may change, what they supplied and received.          *)
(***************************************************************************)
EXTENDS Integers

CONSTANTS
    Supplies,   \* arguments of NewReplay: id -> [loss, keep], references or None
    Ids,        \* candidates that may be asked about
    Values,     \* contents of what is referred to
    MaxReplies, \* bound: calls of Score
    None

VARIABLES
    heap,       \* reference -> value
    supplied,
    given,      \* history: the values supplied, when NewReplay ran
    own,        \* r.scores, or None before NewReplay
    open,       \* references that callers can write through
    replies,    \* calls of Score so far
    reply       \* values of the latest reply, by id, or None

replayVars == <<heap, supplied, given, own, open, replies, reply>>

Parts == {"loss", "keep"}

Refs(scores) == {scores[id][p] : id \in DOMAIN scores, p \in Parts} \ {None}
Deref(h, scores) ==
    [id \in DOMAIN scores |->
        [p \in Parts |-> IF scores[id][p] = None THEN None ELSE h[scores[id][p]]]]

ReplayInit ==
    /\ supplied \in Supplies
    /\ heap \in [Refs(supplied) -> Values]
    /\ open = Refs(supplied)
    /\ own = None /\ given = None /\ replies = 0 /\ reply = None

\* Mutant of Copied: copies the map, but not what the pointer refers to.
CopiedLoss(scores, tag) ==
    [id \in DOMAIN scores |->
        [p \in Parts |-> IF scores[id][p] = None \/ p = "keep" THEN scores[id][p]
                         ELSE <<tag, id, p>>]]

\* A copy of its own for every map and every pointer's target.
Copied(scores, tag) ==
    [id \in DOMAIN scores |->
        [p \in Parts |-> IF scores[id][p] = None THEN None ELSE <<tag, id, p>>]]

\* A copy is in memory that nobody has used before.
ASSUME ReplayAssumption ==
    /\ MaxReplies \in Nat
    /\ \A s \in Supplies :
          /\ Copied(s, 0) # None
          /\ \A id \in DOMAIN s, p \in Parts, tag \in 0..MaxReplies :
                <<tag, id, p>> \notin Refs(s) \cup {None}

\* The heap with the copies of scores under their references.
Extended(scores, copies) ==
    [r \in DOMAIN heap \cup Refs(copies) |->
        IF r \in DOMAIN heap THEN heap[r]
        ELSE LET at == CHOOSE x \in (DOMAIN scores) \X Parts : copies[x[1]][x[2]] = r
             IN  heap[scores[at[1]][at[2]]]]

NewReplay ==
    /\ own = None
    /\ own' = Copied(supplied, 0)
    /\ heap' = Extended(supplied, own')
    /\ given' = Deref(heap, supplied)
    /\ UNCHANGED <<supplied, open, replies, reply>>

\* Missing scores are left out.
Held(S) == [id \in S \cap DOMAIN own |-> own[id]]

Score(S) ==
    /\ own # None /\ replies < MaxReplies
    /\ LET out == Copied(Held(S), replies + 1) IN
       /\ heap' = Extended(Held(S), out)
       /\ open' = open \cup Refs(out)
       /\ reply' = Deref(heap', out)
    /\ replies' = replies + 1
    /\ UNCHANGED <<supplied, given, own>>

\* A caller writes through something it holds.
Write(r, v) ==
    /\ r \in open /\ heap[r] # v
    /\ heap' = [heap EXCEPT ![r] = v]
    /\ UNCHANGED <<supplied, given, own, open, replies, reply>>

ReplayNext == \/ NewReplay \/ (\E S \in SUBSET Ids : Score(S))
              \/ (\E r \in open, v \in Values : Write(r, v))

ReplaySpec == ReplayInit /\ [][ReplayNext]_replayVars

-----------------------------------------------------------------------------
\* Properties.

(***************************************************************************)
(* Replies are reproducible: every reply gives, for each candidate asked   *)
(* about, the scores as they were when the scorer was made, although       *)
(* callers write to the maps they supplied and received, as the merge of   *)
(* another scorer does (replay.go:12-24, 29-46; docs/architecture.md,      *)
(* "Replay copies score maps").                                            *)
(***************************************************************************)
Reproducible == reply # None => \A id \in DOMAIN reply : reply[id] = given[id]

=============================================================================
