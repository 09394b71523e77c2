--------------------------- MODULE MCScoringPass ---------------------------
(***************************************************************************)
(* No batch, fewer and more batches than workers, and a candidate whose    *)
(* actions are spread over several batches.                                *)
(***************************************************************************)
EXTENDS ScoringPass

Whole(c) == [x \in {c} |-> {"brief", "drop"}]
One(c, a) == [x \in {c} |-> {a}]

MCPlans == {
    <<>>,
    <<Whole("g")>>,
    <<Whole("g"), Whole("h"), Whole("k"), Whole("m")>>,
    <<One("g", "brief"), One("g", "drop"), Whole("h")>>,
    <<[x \in {"g", "h"} |-> {"brief", "drop"}], One("k", "brief"),
      One("k", "reference"), One("k", "drop")>>}
=============================================================================
