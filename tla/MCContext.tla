----------------------------- MODULE MCContext -----------------------------
(***************************************************************************)
(* Texts around every threshold of excerpt: one long line, many short      *)
(* ones, lines of one- to four-byte runes, error words at the end of long  *)
(* texts, and more than nine lines; under limits from zero to 800 next to  *)
(* the constants of the code, those of scoringContext among them (longer   *)
(* excerpts are left to Excerpt_proofs).  Conversations whose context fits *)
(* at the first, the second, the third limit or at none, next to the bound *)
(* and far from it.                                                        *)
(***************************************************************************)
EXTENDS Context

L(runes, width, hits, terms) ==
    [text |-> [bytes |-> runes * width, starts |-> {width * k : k \in 0..(runes - 1)}],
     hits |-> hits, terms |-> terms]
Plain(n) == L(n, 1, 0, 0)
\* Words of one-byte runes with an accented letter in every ten bytes.
Mixed(tens) ==
    [text |-> [bytes |-> 10 * tens, starts |-> {k \in 0..(10 * tens - 1) : k % 10 # 5}],
     hits |-> 0, terms |-> 1]

Report == <<L(60, 4, 0, 1), L(70, 4, 2, 0), Mixed(9), Mixed(12), L(33, 2, 0, 2)>>
Listing == [i \in 1..13 |-> IF i = 7 THEN L(100, 1, 1, 0) ELSE Plain(79 + (i % 3))]

MCTexts ==
    {<<Plain(900)>>, <<L(301, 3, 0, 0)>>, Report, Listing,
     [i \in 1..24 |-> IF i % 5 = 0 THEN L(3 * i, 3, 0, i % 2) ELSE Plain(i)],
     [i \in 1..120 |-> IF i = 100 THEN Plain(12) ELSE Plain(0)],
     <<Plain(10), Plain(0), L(200, 2, 0, 1), L(55, 4, 1, 1), Plain(20), L(40, 1, 3, 0)>>}
MCLimits == {0, 38, 39, 60, 64, 95, 96, 97, 103, 128, 161, 240, 320, 321, 800}

P(frame, text) == [frame |-> frame, text |-> text]
None == <<Plain(0)>>
Times(n, p) == [i \in 1..n |-> p]

MCConversations ==
    {<<P(30, Report), P(60, None), P(45, <<Plain(61)>>)>>,
     <<P(1, None)>> \o Times(15, P(0, <<Plain(800)>>)),
     Times(15, P(0, <<Plain(800)>>)),
     Times(20, P(40, Listing)),
     Times(60, P(70, Report)),
     Times(110, P(70, <<Plain(240)>>)),
     <<P(12000, None)>>, <<P(12001, None)>>,
     Times(20, P(590, Listing))}

=============================================================================
