------------------------------ MODULE Samples ------------------------------
(***************************************************************************)
(* Building blocks of the small transcripts that the MC modules use.       *)
(***************************************************************************)
EXTENDS Transcript

Plain(id, role) ==
    [id |-> id, role |-> role, wellFormed |-> TRUE, calls |-> <<>>,
     result |-> Nil, pinned |-> FALSE, unresolved |-> FALSE, group |-> Nil,
     deps |-> <<>>, prose |-> FALSE, raw |-> FALSE, form |-> "keep",
     tok |-> 2, short |-> [extract |-> 2, brief |-> 2, reference |-> 2]]

Reads(id, cs) == [Plain(id, "assistant") EXCEPT
    !.calls = [k \in DOMAIN cs |-> [id |-> cs[k], side |-> FALSE]]]
Writes(id, cs) == [Plain(id, "assistant") EXCEPT
    !.calls = [k \in DOMAIN cs |-> [id |-> cs[k], side |-> TRUE]]]

\* A tool result of t tokens with its three replacements.
Output(id, c, t, x, b, r) == [Plain(id, "tool") EXCEPT
    !.result = c, !.tok = t,
    !.short = [extract |-> x, brief |-> b, reference |-> r]]

Request(ms, target, recent, partial, individually) ==
    [messages |-> ms, goal |-> "fix the cache", target |-> target,
     recent |-> recent, partial |-> partial, individually |-> individually]

=============================================================================
