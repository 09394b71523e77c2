----------------------------- MODULE MCGrouping -----------------------------
(***************************************************************************)
(* Four-message transcripts with every placement of a label and a choice   *)
(* of dependencies, over patterns of calls and results that include each   *)
(* way of being invalid.  Nil is only a marker here.                       *)
(***************************************************************************)
EXTENDS Grouping

B == INSTANCE Samples

Out(id, c) == B!Output(id, c, 5, 4, 3, 2)

Patterns == {
    <<B!Reads("a", <<"p", "q">>), Out("b", "p"), Out("c", "q"),
      B!Plain("d", "assistant")>>,
    <<B!Reads("a", <<"p">>), B!Reads("b", <<"q">>), Out("c", "q"), Out("d", "p")>>,
    <<B!Plain("a", "user"), B!Reads("b", <<"p">>), Out("c", "p"),
      B!Plain("d", "assistant")>>,
    \* a result before its call, a result without one
    <<B!Reads("a", <<"p">>), Out("b", "q"), B!Reads("c", <<"q">>), Out("d", "p")>>,
    <<B!Reads("a", <<"p">>), Out("b", "r"), Out("c", "p"), B!Plain("d", "user")>>}

\* Transcripts the first pass already rejects.
Broken == {
    <<>>,
    <<B!Plain("a", "user"), B!Plain("a", "assistant")>>,
    <<B!Reads("a", <<"p">>), Out("b", "p"), Out("c", "p")>>,
    <<B!Reads("a", <<"p">>), B!Reads("b", <<"p">>)>>,
    <<B!Reads("a", <<"p", "p">>)>>,
    <<B!Plain("a", "tool")>>}

Dependencies == {<<>>, <<"a">>, <<"d", "c">>, <<"b", "b">>, <<"z">>}

MCRequests ==
    {B!Request([i \in DOMAIN p |->
                  [p[i] EXCEPT !.deps = IF i = 2 THEN d ELSE IF i = 4 THEN e ELSE <<>>,
                               !.group = IF i \in g THEN "g" ELSE Nil]],
               4, 0, FALSE, s) :
        p \in Patterns, d \in Dependencies, e \in {<<>>, <<"a">>, <<"z">>},
        g \in {{}, {2, 4}, {1, 3}, {2, 3, 4}}, s \in BOOLEAN}
    \cup {B!Request(p, 4, 0, FALSE, FALSE) : p \in Broken}

=============================================================================
