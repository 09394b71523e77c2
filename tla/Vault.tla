------------------------------- MODULE Vault --------------------------------
(***************************************************************************)
(* What an archive promises (types.go, docs/architecture.md "Storage and   *)
(* recovery"): a snapshot becomes readable, then acknowledged; once it is  *)
(* acknowledged only damage to the medium takes it away.                   *)
(***************************************************************************)
CONSTANT Snapshots

VARIABLES
    present,       \* snapshots a reader would recover intact
    acked          \* snapshots whose Save has reported success

vars == <<present, acked>>

Init == present = {} /\ acked = {}

Appear(s) == /\ present' = present \cup {s}
             /\ UNCHANGED acked

Acknowledge(s) == /\ s \in present
                  /\ acked' = acked \cup {s}
                  /\ UNCHANGED present

\* A crash may undo what nobody was promised.
Lose(S) == /\ S \cap acked = {}
           /\ present' = present \ S
           /\ UNCHANGED acked

\* The medium itself fails.
Rot(s) == /\ present' = present \ {s}
          /\ acked' = acked \ {s}

Next == \/ \E s \in Snapshots : Appear(s) \/ Acknowledge(s) \/ Rot(s)
        \/ \E S \in SUBSET Snapshots : Lose(S)

Spec == Init /\ [][Next]_vars

=============================================================================
