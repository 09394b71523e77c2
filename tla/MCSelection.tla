---------------------------- MODULE MCSelection ----------------------------
(***************************************************************************)
(* Small selection problems for TLC: every assignment of a few contrasting *)
(* group profiles to three positions of the transcript, and several        *)
(* targets, so that protected groups, ties, proposals that overtake one    *)
(* another, each scoring policy and both ways of stopping all occur.       *)
(***************************************************************************)
EXTENDS Selection

Sized(x, b, r) == [extract |-> x, brief |-> b, reference |-> r, drop |-> 0]

ByLoss(l)    == [keep |-> Nil, loss |-> l, relevance |-> 0, detail |-> 0]
ByKeep(c, r) == [keep |-> [call |-> c, result |-> r], loss |-> Nil,
                 relevance |-> 0, detail |-> 0]
Legacy(r, d) == [keep |-> Nil, loss |-> Nil, relevance |-> r, detail |-> d]

Profile(p, c, o, s, k) ==
    [protected |-> p, cost |-> c, offer |-> o, size |-> s, score |-> k]

\* A graded ladder: each smaller proposal loses more.
Ladder == Profile(FALSE, 9, Actions, Sized(6, 4, 2),
    ByLoss([extract |-> 1, brief |-> 3, reference |-> 8, drop |-> 19]))
\* The scorer dislikes the middle proposals; drop is at the gate exactly.
Uneven == Profile(FALSE, 9, Actions, Sized(6, 6, 2),
    ByLoss([extract |-> 4, brief |-> 2, reference |-> 2, drop |-> 20]))
\* Retention scores: the result may go, the call may not, and both may.
CallKept == Profile(FALSE, 8, {"extract", "brief", "drop"}, Sized(7, 3, 9),
    ByKeep(50, 49))
BothGone == Profile(FALSE, 8, {"brief", "reference", "drop"}, Sized(9, 3, 1),
    ByKeep(10, 0))
\* Legacy probabilities, with and without permission to drop.
Old      == Profile(FALSE, 7, Actions, Sized(5, 3, 2), Legacy(5, 10))
OldKept  == Profile(FALSE, 7, Actions, Sized(5, 3, 2), Legacy(20, 0))
\* Nothing permitted, nothing offered, nothing reducible.
Retained == Profile(FALSE, 6, Actions, Sized(4, 3, 2), ByKeep(90, 50))
Tiny     == Profile(FALSE, 1, {}, Sized(9, 9, 9), Legacy(0, 0))
Held     == Profile(TRUE, 5, Actions, Sized(4, 3, 2), Legacy(0, 0))

Profiles == {Ladder, Uneven, CallKept, BothGone, Old, OldKept, Retained,
             Tiny, Held}

Problem(f, t) ==
    [groups |-> 1..3,
     protected |-> {g \in 1..3 : f[g].protected},
     cost  |-> [g \in 1..3 |-> f[g].cost],
     offer |-> [g \in 1..3 |-> f[g].offer],
     size  |-> [g \in 1..3 |-> f[g].size],
     score |-> [g \in 1..3 |-> f[g].score],
     target |-> t]

MCCases == {Problem(f, t) : f \in [1..3 -> Profiles], t \in {2, 7, 12}}

=============================================================================
