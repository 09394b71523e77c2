----------------------------- MODULE MCScoring -----------------------------
(***************************************************************************)
(* Contexts around every threshold of the shortening loop, with a goal     *)
(* that leaves room for them and one that does not, and up to three        *)
(* candidates: small ones packed together, one too large between them, one *)
(* without replacements, one too large even without a preview.  The limits *)
(* are the smallest that jev.New accepts; requests are encoded twice, so a *)
(* byte of text may take several in the request.                           *)
(***************************************************************************)
EXTENDS Scoring, FiniteSetsExt

MCBytes(b) ==
    80 + b.goal + 2 * b.context + 60 * Cardinality(b.asks)
    + MapThenSumSet(LAMBDA i : 40 + 7 * b.candidates[i].preview.bytes
              + MapThenSumSet(LAMBDA j : IF b.candidates[i].variants[j] = "extract" THEN 480 ELSE 60,
                              DOMAIN b.candidates[i].variants),
          DOMAIN b.candidates)
\* Multi-byte runes are dear in tokens.
MCTokens(b) ==
    20 + b.context \div 4 + 15 * Cardinality(b.asks)
    + MapThenSumSet(LAMBDA i : 10 + b.candidates[i].preview.bytes
              + (IF b.candidates[i].complete THEN 0 ELSE 1)
              + 12 * Len(b.candidates[i].variants), DOMAIN b.candidates)

C(id, runes, width, complete, variants) ==
    [id |-> id, complete |-> complete, variants |-> variants,
     preview |-> [bytes |-> runes * width, starts |-> {width * k : k \in 0..(runes - 1)}]]

Tool == <<"extract", "brief", "drop">>
Rest == <<"brief", "reference">>
Small == <<C("a", 5, 1, TRUE, Rest), C("b", 4, 1, TRUE, <<"drop">>), C("c", 3, 3, FALSE, Rest)>>
Pairs == <<C("a", 3, 1, TRUE, <<>>), C("b", 4, 4, TRUE, <<>>)>>

MCEvaluations ==
    {[goal |-> 10, context |-> 107, candidates |-> cs] :
        cs \in {<<>>, Small, Pairs,
                <<C("a", 2, 1, TRUE, <<"drop">>), C("b", 31, 4, TRUE, Tool), C("c", 1, 1, TRUE, <<"drop">>)>>,
                <<C("a", 60, 2, TRUE, Rest), C("b", 65, 2, FALSE, Rest), C("c", 1, 1, TRUE, Rest)>>,
                <<C("a", 40, 3, TRUE, <<>>)>>,
                <<C("a", 1, 1, TRUE, <<"drop">>), C("b", 9, 4, TRUE, Tool), C("c", 0, 1, TRUE, Tool)>>,
                <<C("a", 25, 4, TRUE, Tool)>>}}
    \cup {[goal |-> g, context |-> n, candidates |-> cs] :
              g \in {10, 450}, n \in {0, 3000}, cs \in {Pairs, <<C("a", 25, 4, TRUE, Tool)>>}}
MCFlaky == {e \in MCEvaluations : e.context = 107 /\ e.candidates = Small}

=============================================================================
