------------------------------ MODULE Handled -------------------------------
(***************************************************************************)
(* The engine as its HTTP handler sees it.  Server describes the calls of  *)
(* Compact behind it by the stages that statuses tell apart; Engine        *)
(* describes one such call.  Here a call is looked at through the handler  *)
(* that makes it: the stage it has reached, the status that its result or  *)
(* error becomes, and what the archive holds and has acknowledged.         *)
(***************************************************************************)
EXTENDS Engine

Caller == "caller"

Stage == CASE pc = "begin"             -> "checking"
           [] pc \in {"count", "save"} -> "saving"
           [] pc = "named"             -> "named"
           [] pc = "done"              -> "leaving"
           [] OTHER                    -> "scoring"

\* Mutant of Status: every error after validation is an internal one.
StatusCoarse == IF pc # "done" THEN Nil
                ELSE CASE err = "none"    -> 200
                       [] err = "invalid" -> 400
                       [] OTHER           -> 500

\* handleError: what becomes of each class of error, and of a result without one.
Status == IF pc # "done" THEN Nil
          ELSE CASE err = "none"     -> 200
                 [] err = "invalid"  -> 400
                 [] err = "canceled" -> 504
                 [] OTHER            -> 500

\* Save has returned the snapshot's id.
Acknowledged == IF pc = "named" \/ err = "archive" THEN {} ELSE archive

\* The request that the handler is serving.
Serving == [r \in {Caller} |->
    [at |-> Stage, kind |-> "compact", snap |-> Clone(request), ok |-> TRUE,
     valid |-> FALSE, known |-> FALSE, holds |-> TRUE, reply |-> Status]]

Ended == IF cancelled THEN {Caller} ELSE {}

Handler == INSTANCE Server WITH
        Clients <- {Caller}, Snapshots <- {Clone(r) : r \in Requests}, MaxConcurrent <- 1,
        conn <- Serving, ended <- Ended, slots <- 1, told <- {},
        present <- archive, acked <- Acknowledged

seen == <<Stage, Status, request, cancelled, archive, Acknowledged>>

(***************************************************************************)
(* The handler's view of the engine is right: whatever a call does, the    *)
(* handler sees it move as Server and Vault allow.  So no request is       *)
(* called invalid after it was archived, a timeout is reported only when   *)
(* the context has ended, never for a scorer's or the store's own failure, *)
(* and no result comes before the archive has acknowledged the snapshot    *)
(* (server.go:139-145, 165-176 against engine.go:30-155).                  *)
(***************************************************************************)
HandledByServer ==
    /\ Stage = "checking"
    /\ [][Handler!Compacting(Caller) \/ Handler!ContextEnds(Caller)]_seen

=============================================================================
