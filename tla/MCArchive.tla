----------------------------- MODULE MCArchive -----------------------------
(***************************************************************************)
(* Two concurrent writers, of the same snapshot or of two, and a reader,   *)
(* over an archive directory that was there before or was just created.    *)
(***************************************************************************)
EXTENDS Archive
=============================================================================
