------------------------------ MODULE MCEngine ------------------------------
(***************************************************************************)
(* A handful of transcripts that between them show every kind of group:    *)
(* interleaved call/result pairs, narration beside a call, a side effect,  *)
(* labels and dependencies, nothing reducible, an invalid transcript; each *)
(* under several budgets, with and without allow_partial, and scorers that *)
(* use each policy, forget candidates or answer nonsense.                  *)
(***************************************************************************)
EXTENDS Handled

B == INSTANCE Samples

Out(id, c)   == B!Output(id, c, 9, 6, 4, 3)
Small(id, c) == B!Output(id, c, 3, 5, 4, 3)
Says(m) == [m EXCEPT !.prose = TRUE]

\* Two independent reads whose results arrive in the other order.
Crossed == <<B!Plain("u", "user"), B!Reads("a", <<"p">>), B!Reads("b", <<"q">>),
             Out("c", "q"), Out("d", "p")>>
\* Narration beside a call, and a side effect that must stay.
Narrated == <<Says(B!Reads("a", <<"p">>)), Out("b", "p"),
              B!Writes("c", <<"w">>), Out("d", "w"), Says(B!Plain("e", "assistant"))>>
\* One message with two calls, an argument the encoder would write otherwise,
\* a dependency of the next call on it, and a result too small to reduce.
Chained == <<[B!Reads("a", <<"p", "q">>) EXCEPT !.raw = TRUE], Out("b", "p"), Small("c", "q"),
             [B!Reads("d", <<"s">>) EXCEPT !.deps = <<"a">>], Out("e", "s")>>
\* A label over two pairs, a pinned result, a pending call.
Labelled == <<[B!Reads("a", <<"p">>) EXCEPT !.group = "g"], Out("b", "p"),
              B!Reads("c", <<"q", "open">>), [Out("d", "q") EXCEPT !.group = "g"],
              B!Reads("e", <<"s">>), [Out("f", "s") EXCEPT !.pinned = TRUE]>>
\* Nothing to reduce; and a result without a call.
Talk == <<B!Plain("a", "system"), Says(B!Plain("b", "assistant"))>>
Orphan == <<Out("a", "p"), B!Plain("b", "user")>>

MCRequests ==
    {B!Request(ms, t, r, p, s) : ms \in {Crossed, Narrated, Chained, Labelled, Talk},
        t \in {1, 13, 17}, r \in {0, 2}, p \in BOOLEAN, s \in BOOLEAN}
    \cup {B!Request(Crossed, t, r, FALSE, FALSE) : t \in {13, 60}, r \in {1, Nil}}
    \cup {B!Request(Orphan, 10, 0, FALSE, FALSE), B!Request(Talk, 0, 0, TRUE, FALSE)}

Losses(x, b, r, d) == [extract |-> x, brief |-> b, reference |-> r, drop |-> d]

MCScores ==
    {[NoScore EXCEPT !.loss = Losses(1, 5, 9, 19)],
     [NoScore EXCEPT !.loss = Losses(20, 2, 20, 80)],
     [NoScore EXCEPT !.keep = [call |-> 60, result |-> 10]],
     [NoScore EXCEPT !.keep = [call |-> 10, result |-> 50]],
     [NoScore EXCEPT !.relevance = 3, !.detail = 4],
     \* rejected: ambiguous, not a probability, an action left out
     [NoScore EXCEPT !.keep = [call |-> 0, result |-> 0], !.loss = Losses(1, 1, 1, 1)],
     [NoScore EXCEPT !.detail = -1],
     [NoScore EXCEPT !.loss = [drop |-> 3]]}

=============================================================================
