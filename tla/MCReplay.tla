------------------------------ MODULE MCReplay ------------------------------
(***************************************************************************)
(* Supplied scores with a map, a pointer or neither, one map shared by two *)
(* candidates, and requests that also name a candidate without a score.    *)
(***************************************************************************)
EXTENDS Replay

Has(loss, keep) == [loss |-> loss, keep |-> keep]
G(a, b) == [id \in {"g", "h"} |-> IF id = "g" THEN a ELSE b]

MCSupplies == {G(Has(<<"in", 1>>, None), Has(<<"in", 1>>, None)),
               G(Has(None, <<"in", 1>>), Has(<<"in", 2>>, None)),
               G(Has(None, None), Has(None, <<"in", 1>>))}

=============================================================================
