----------------------------- MODULE MCService -----------------------------
(***************************************************************************)
(* Two clients at one slot, one snapshot, and two lives of the process.    *)
(***************************************************************************)
EXTENDS Service

=============================================================================
