------------------------------- MODULE Server -------------------------------
(***************************************************************************)
(* The HTTP handler of server/server.go with its connections: one action   *)
(* per decision of ServeHTTP and of the route handlers.  Any number of     *)
(* requests of each client, one after another; contexts end at any moment, *)
(* by disconnection or deadline, and handlers may panic.  The engine and   *)
(* the archive behind it are those of Engine and Vault, as far as statuses *)
(* tell them apart.                                                        *)
(***************************************************************************)
EXTENDS Integers, FiniteSets

CONSTANTS Clients, Snapshots, MaxConcurrent, Nil

VARIABLES
    conn,       \* per client, its request: [at, kind, snap, ok, valid, known, holds, reply]
    ended,      \* clients whose request context has ended
    slots,      \* elements in the channel of admission slots
    told,       \* snapshots that clients were given by a result
    present, acked  \* the archive, as in Vault

vars == <<conn, ended, slots, told, present, acked>>
archive == <<present, acked>>

ASSUME ServerAssumption ==
    IsFiniteSet(Clients) /\ MaxConcurrent \in Nat \ {0} /\ Nil \notin Nat

Archive == INSTANCE Vault

Aborted == 0     \* no reply: the connection is closed
NoRequest == [at |-> "idle", kind |-> Nil, snap |-> Nil, ok |-> FALSE, valid |-> FALSE,
              known |-> FALSE, holds |-> FALSE, reply |-> Nil]

Init ==
    /\ conn = [r \in Clients |-> NoRequest]
    /\ ended = {} /\ slots = 0 /\ told = {}
    /\ Archive!Init

\* ok: the token is right (without it, the route does not matter, except for health);
\* valid: the snapshot and message ids are of the snapshot.
LoadOf(s, v) == [NoRequest EXCEPT !.at = "arrived", !.kind = "load", !.snap = s, !.ok = TRUE,
                                  !.valid = v, !.known = v /\ s \in told]
Loads == {LoadOf(s, v) : s \in Snapshots, v \in BOOLEAN}
Arriving ==
    {[NoRequest EXCEPT !.at = "arrived", !.kind = k] : k \in {"health", "other"}}
    \cup {[NoRequest EXCEPT !.at = "arrived", !.kind = "other", !.ok = TRUE]}
    \cup {[NoRequest EXCEPT !.at = "arrived", !.kind = "compact", !.snap = s, !.ok = TRUE] :
        s \in Snapshots}
    \cup Loads

Arrive(r) ==
    /\ conn[r].at = "idle"
    /\ \E q \in Arriving : conn' = [conn EXCEPT ![r] = q]
    /\ UNCHANGED <<ended, slots, told, archive>>

\* The client disconnects, or the deadline of an admitted request passes; once
\* the reply is written, nothing looks at the context any more.
ContextEnds(r) ==
    /\ conn[r].at \notin {"idle", "leaving"} /\ r \notin ended
    /\ ended' = ended \cup {r}
    /\ UNCHANGED <<conn, slots, told, archive>>

Goes(r, from, to) ==
    /\ conn[r].at = from
    /\ conn' = [conn EXCEPT ![r].at = to]

Replies(r, from, status) ==
    /\ conn[r].at = from
    /\ conn' = [conn EXCEPT ![r].at = "leaving", ![r].reply = status]

Only(r, kind) == conn[r].kind = kind
Rest == UNCHANGED <<ended, slots, told, archive>>

-----------------------------------------------------------------------------
\* ServeHTTP: health, authentication, admission.

Health(r)       == Only(r, "health") /\ Replies(r, "arrived", 200) /\ Rest
Unauthorized(r) == ~Only(r, "health") /\ ~conn[r].ok /\ Replies(r, "arrived", 401) /\ Rest

Authorized(r)   == ~Only(r, "health") /\ conn[r].ok /\ Goes(r, "arrived", "admission") /\ Rest

\* select: either ready case, the default only when none is.
Enter(r) ==
    /\ conn[r].at = "admission" /\ slots < MaxConcurrent
    /\ slots' = slots + 1
    /\ conn' = [conn EXCEPT ![r].at = "routed", ![r].holds = TRUE]
    /\ UNCHANGED <<ended, told, archive>>

CanceledWaiting(r) == r \in ended /\ Replies(r, "admission", 408) /\ Rest

\* Mutant of Busy: does not need the slots to be taken.
BusyAnyway(r) == r \notin ended /\ Replies(r, "admission", 429) /\ Rest

Busy(r) == slots = MaxConcurrent /\ r \notin ended /\ Replies(r, "admission", 429) /\ Rest

-----------------------------------------------------------------------------
\* The routes.

NoRoute(r) == Only(r, "other") /\ \E s \in {404, 405} : Replies(r, "routed", s) /\ Rest

BadMedia(r) == Only(r, "compact") /\ Replies(r, "routed", 415) /\ Rest
StartReading(r) == Only(r, "compact") /\ Goes(r, "routed", "reading") /\ Rest

\* Too large; cut off, late, not UTF-8, not the schema.
BadBody(r)  == \E s \in {413, 400} : Replies(r, "reading", s) /\ Rest
BodyRead(r) == Goes(r, "reading", "checking") /\ Rest

\* Compact before the archive: context, transcript, counter.
Rejected(r) == /\ \/ r \in ended /\ Replies(r, "checking", 504)
                  \/ r \notin ended /\ \E s \in {400, 500} : Replies(r, "checking", s)
               /\ Rest
StartSave(r) == r \notin ended /\ Goes(r, "checking", "saving") /\ Rest

\* Mutant of SaveFails: goes on without the archive.
SaveFailsOpen(r) == Goes(r, "saving", "scoring") /\ Rest

SaveFails(r) == /\ \/ Replies(r, "saving", 500) \/ Replies(r, "named", 500)
                   \/ r \in ended /\ Replies(r, "saving", 504)
                /\ Rest

\* The snapshot gets its name; then Save returns its id.
Named(r) ==
    /\ Goes(r, "saving", "named")
    /\ Archive!Appear(conn[r].snap)
    /\ UNCHANGED <<ended, slots, told>>

Saved(r) ==
    /\ Goes(r, "named", "scoring")
    /\ Archive!Acknowledge(conn[r].snap)
    /\ UNCHANGED <<ended, slots, told>>

\* A result, whatever its status, or an error after the archive.
Result(r) == Replies(r, "scoring", 200) /\ Rest
ResultFails(r) == /\ \/ r \in ended /\ Replies(r, "scoring", 504)
                     \/ Replies(r, "scoring", 500)
                  /\ Rest

\* Load and Recall.
Loaded(r) ==
    /\ Only(r, "load")
    /\ \/ r \in ended /\ Replies(r, "routed", 504)
       \/ r \notin ended /\ Replies(r, "routed", 500)
       \/ r \notin ended /\ conn[r].valid /\ conn[r].snap \in present /\ Replies(r, "routed", 200)
       \/ r \notin ended /\ (~conn[r].valid \/ conn[r].snap \notin present)
                         /\ Replies(r, "routed", 404)
    /\ Rest

\* net/http recovers from a panic and closes the connection.
Working == {"routed", "reading", "checking", "saving", "named", "scoring"}
Panics(r) == (\E at \in Working : Replies(r, at, Aborted)) /\ Rest

\* Mutant of Leave: no deferred release for a panic.
LeaveKeeping(r) ==
    /\ conn[r].at = "leaving"
    /\ conn' = [conn EXCEPT ![r] = NoRequest]
    /\ slots' = IF conn[r].holds /\ conn[r].reply # Aborted THEN slots - 1 ELSE slots
    /\ ended' = ended \ {r}
    /\ told' = IF Only(r, "compact") /\ conn[r].reply = 200 THEN told \cup {conn[r].snap} ELSE told
    /\ UNCHANGED archive

\* The deferred calls run, then the rest of the reply is flushed.
Leave(r) ==
    /\ conn[r].at = "leaving"
    /\ conn' = [conn EXCEPT ![r] = NoRequest]
    /\ slots' = IF conn[r].holds THEN slots - 1 ELSE slots
    /\ ended' = ended \ {r}
    /\ told' = IF Only(r, "compact") /\ conn[r].reply = 200 THEN told \cup {conn[r].snap} ELSE told
    /\ UNCHANGED archive

Admission(r) == Health(r) \/ Unauthorized(r) \/ Authorized(r) \/ Enter(r)
                \/ CanceledWaiting(r) \/ Busy(r)
Compacting(r) == \/ BadMedia(r) \/ StartReading(r) \/ BadBody(r) \/ BodyRead(r) \/ Rejected(r)
                 \/ StartSave(r) \/ SaveFails(r) \/ Named(r) \/ Saved(r) \/ Result(r) \/ ResultFails(r)
Handle(r) == Admission(r) \/ Compacting(r) \/ NoRoute(r) \/ Loaded(r) \/ Leave(r)

Next == \E r \in Clients : Arrive(r) \/ ContextEnds(r) \/ Handle(r) \/ Panics(r)

Spec == Init /\ [][Next]_vars

-----------------------------------------------------------------------------
\* Properties.

Inside == {r \in Clients : conn[r].holds}

(***************************************************************************)
(* Admission is exact: the slots taken are those of the requests inside,   *)
(* no more than configured, and whoever works holds one; none leaks,       *)
(* whether a request is answered, canceled, refused or panics              *)
(* (server.go:91-104).                                                     *)
(***************************************************************************)
SlotsExact ==
    /\ slots = Cardinality(Inside) /\ slots <= MaxConcurrent
    /\ \A r \in Clients : conn[r].at \in Working => conn[r].holds

(***************************************************************************)
(* A request is refused as too many only while the limit is really reached *)
(* by requests that are inside (docs/api.md, "Active request limit         *)
(* reached").                                                              *)
(***************************************************************************)
OverloadIsReal ==
    [][\A r \in Clients : conn'[r].reply = 429 /\ conn[r].reply # 429 =>
           Cardinality(Inside \ {r}) = MaxConcurrent]_vars

(***************************************************************************)
(* What a result promised can be recovered: a request for a snapshot that  *)
(* a result named before, and for a message of it, is never told that      *)
(* there is no such thing (server.go:139-163).                             *)
(***************************************************************************)
Recoverable == \A r \in Clients : conn[r].known => conn[r].reply # 404

=============================================================================
