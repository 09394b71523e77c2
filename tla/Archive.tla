------------------------------ MODULE Archive -------------------------------
(***************************************************************************)
(* archive/store.go on a POSIX file system: concurrent Save calls write a  *)
(* temporary file, sync it, rename it over <id>.json and sync the          *)
(* directory; Load opens <id>.json, reads it and verifies its hash, while  *)
(* the name may come to stand for another file.  Processes may be killed   *)
(* and power may fail between any two steps, every system call may fail,   *)
(* those of the clean-up included, and stored bytes may rot.               *)
(*                                                                         *)
(* A snapshot stands for its content and its id at once (SHA-256 is taken  *)
(* to be injective).  Temporary names are never reused while their saver   *)
(* lives (os.CreateTemp draws 32 random bits).                             *)
(***************************************************************************)
EXTENDS Naturals, FiniteSets

CONSTANTS
    Snapshots,     \* requests that may be archived
    Savers,        \* concurrent Save calls
    Loaders,       \* concurrent Load calls
    Homes,         \* is the directory's own entry durable: "durable", "fresh"
    MaxCrashes,    \* bound on kills and power failures
    MaxRot         \* bound on damaged files

ASSUME ArchiveAssumption ==
    Snapshots # {} /\ Homes \subseteq {"durable", "fresh"}

VARIABLES
    home,          \* "fresh" while nothing has made the directory durable
    vis,           \* directory as processes see it, see Content
    stable,        \* directory as the disk has it
    safe,          \* entries whose bytes have been synced
    pc, snap,      \* per saver: its next step and its snapshot
    tmp,           \* per saver: its temporary file
    acked,         \* history: snapshots acknowledged and not damaged since
    damages,       \* files damaged so far
    lpc, lsnap,    \* per loader: its next step and its snapshot
    bytes, answer, \* per loader: the file it has open, what it returned
    owed,          \* history, per loader: had its snapshot been acknowledged when
                   \* it began, and has nothing damaged it since?
    crashes        \* kills and power failures so far

disk    == <<home, vis, stable, safe>>
saving  == <<pc, snap, tmp>>
loading == <<lpc, lsnap, bytes, answer, owed>>
vars == <<disk, saving, acked, damages, loading, crashes>>

\* No file, a complete one, an incompletely written one, a damaged one.
Content == {"none", "good", "torn", "rotten"}

Any == CHOOSE s \in Snapshots : TRUE

Init ==
    /\ home \in Homes
    /\ vis = [s \in Snapshots |-> "none"] /\ stable = vis
    /\ safe = {}
    /\ pc = [p \in Savers |-> "idle"]
    /\ snap = [p \in Savers |-> Any]
    /\ tmp = [p \in Savers |-> "none"]
    /\ acked = {} /\ damages = 0
    /\ lpc = [q \in Loaders |-> "idle"]
    /\ lsnap = [q \in Loaders |-> Any]
    /\ bytes = [q \in Loaders |-> "none"]
    /\ answer = [q \in Loaders |-> "none"]
    /\ owed = [q \in Loaders |-> FALSE]
    /\ crashes = 0

-----------------------------------------------------------------------------
\* Save.  A step that fails goes to "fail", where the deferred clean-up runs.

Step(p, from, to) == pc[p] = from /\ pc' = [pc EXCEPT ![p] = to]

\* Mutant of Create: writes under the final name.
CreateInPlace(p, s) ==
    /\ Step(p, "idle", "write")
    /\ snap' = [snap EXCEPT ![p] = s]
    /\ tmp' = [tmp EXCEPT ![p] = "partial"]
    /\ vis' = [vis EXCEPT ![s] = "torn"] /\ safe' = safe \ {s}
    /\ UNCHANGED <<home, stable, acked, damages, loading, crashes>>

\* A live context; the temporary file is created.
Create(p, s) ==
    /\ Step(p, "idle", "write")
    /\ snap' = [snap EXCEPT ![p] = s]
    /\ tmp' = [tmp EXCEPT ![p] = "partial"]
    /\ UNCHANGED <<disk, acked, damages, loading, crashes>>

Write(p) ==
    /\ Step(p, "write", "sync")
    /\ tmp' = [tmp EXCEPT ![p] = "written"]
    /\ UNCHANGED <<disk, snap, acked, damages, loading, crashes>>

\* Mutant of Sync: the file is not flushed.
SyncLater(p) ==
    /\ Step(p, "sync", "rename")
    /\ UNCHANGED <<disk, snap, tmp, acked, damages, loading, crashes>>

Sync(p) ==
    /\ Step(p, "sync", "rename")
    /\ tmp' = [tmp EXCEPT ![p] = "synced"]
    /\ UNCHANGED <<disk, snap, acked, damages, loading, crashes>>

\* The entry now names the new file; the disk may not know yet.
Rename(p) ==
    /\ Step(p, "rename", "syncdir")
    /\ vis' = [vis EXCEPT ![snap[p]] = IF tmp[p] = "partial" THEN "torn" ELSE "good"]
    /\ safe' = IF tmp[p] = "synced" THEN safe \cup {snap[p]} ELSE safe \ {snap[p]}
    /\ tmp' = [tmp EXCEPT ![p] = "none"]
    /\ UNCHANGED <<home, stable, snap, acked, damages, loading, crashes>>

\* Mutant of SyncDir: the directory is not flushed.
SyncDirLater(p) ==
    /\ Step(p, "syncdir", "idle")
    /\ acked' = IF vis[snap[p]] = "rotten" THEN acked ELSE acked \cup {snap[p]}
    /\ UNCHANGED <<disk, snap, tmp, damages, loading, crashes>>

\* The directory is synced and Save reports success; its deferred Remove
\* finds nothing to remove.  (Damage since the rename voids the promise.)
SyncDir(p) ==
    /\ Step(p, "syncdir", "idle")
    /\ stable' = vis
    /\ acked' = IF vis[snap[p]] = "rotten" THEN acked ELSE acked \cup {snap[p]}
    /\ UNCHANGED <<home, vis, safe, snap, tmp, damages, loading, crashes>>

\* Mutant of Break: a failing directory sync is ignored.
BreakSilently(p) ==
    /\ pc[p] \in {"write", "sync", "rename", "syncdir"}
    /\ pc' = [pc EXCEPT ![p] = "fail"]
    /\ acked' = IF pc[p] = "syncdir" /\ vis[snap[p]] = "good"
                THEN acked \cup {snap[p]} ELSE acked
    /\ UNCHANGED <<disk, snap, tmp, damages, loading, crashes>>

\* A system call fails, or the context is found cancelled before the rename.
Break(p) ==
    /\ pc[p] \in {"write", "sync", "rename", "syncdir"}
    /\ pc' = [pc EXCEPT ![p] = "fail"]
    /\ UNCHANGED <<disk, snap, tmp, acked, damages, loading, crashes>>

\* The deferred clean-up removes the temporary file if it is still there; when that
\* fails, the file stays, under a name nothing looks at.
CleanUp(p) ==
    /\ Step(p, "fail", "idle")
    /\ tmp' \in {tmp, [tmp EXCEPT ![p] = "none"]}
    /\ UNCHANGED <<disk, snap, acked, damages, loading, crashes>>

-----------------------------------------------------------------------------
\* Load.

Replies(q, verdicts) == \E verdict \in verdicts : answer' = [answer EXCEPT ![q] = verdict]

\* The context has ended, the file cannot be opened or is not there; or it is open,
\* and stays the same file whatever is renamed to its name.
Open(q, s) ==
    /\ lpc[q] = "idle"
    /\ lsnap' = [lsnap EXCEPT ![q] = s]
    /\ owed'  = [owed EXCEPT ![q] = s \in acked]
    /\ \/ /\ vis[s] # "none" /\ Replies(q, {"none"})
          /\ lpc' = [lpc EXCEPT ![q] = "read"] /\ bytes' = [bytes EXCEPT ![q] = vis[s]]
       \/ vis[s] = "none" /\ Replies(q, {"missing"}) /\ UNCHANGED <<lpc, bytes>>
       \/ Replies(q, {"canceled", "unread"}) /\ UNCHANGED <<lpc, bytes>>
    /\ UNCHANGED <<disk, saving, acked, damages, crashes>>

\* An error of the read, or a hash that differs; else an error of the decoder, which
\* Save has not asked, the context's end, or the request.
Verify(q) ==
    /\ lpc[q] = "read"
    /\ lpc' = [lpc EXCEPT ![q] = "idle"] /\ bytes' = [bytes EXCEPT ![q] = "none"]
    /\ \/ Replies(q, {"unread"})
       \/ bytes[q] # "good" /\ Replies(q, {"damaged"})
       \/ bytes[q] = "good" /\ Replies(q, {"undecoded", "canceled", "request"})
    /\ UNCHANGED <<disk, saving, acked, damages, lsnap, owed, crashes>>

-----------------------------------------------------------------------------
\* The environment.

Abandon ==
    /\ pc' = [p \in Savers |-> "idle"]
    /\ tmp' = [p \in Savers |-> "none"]
    /\ lpc' = [q \in Loaders |-> "idle"]
    /\ bytes' = [q \in Loaders |-> "none"]
    /\ answer' = [q \in Loaders |-> "none"]
    /\ crashes' = crashes + 1
    /\ UNCHANGED <<snap, lsnap, owed, acked, damages>>

\* The process dies: what it did to the file system stays.  Its temporary
\* files stay too, under names nothing looks at.
Kill == crashes < MaxCrashes /\ Abandon /\ UNCHANGED disk

\* The machine dies: each directory change since the last directory sync may
\* be lost, unsynced bytes may be, and so may an unsynced directory itself.
PowerLoss ==
    /\ crashes < MaxCrashes
    /\ Abandon
    /\ \/ /\ \E lost \in SUBSET Snapshots :
                vis' = [s \in Snapshots |->
                          IF s \in lost THEN stable[s]
                          ELSE IF vis[s] = "good" /\ s \notin safe THEN "torn"
                          ELSE vis[s]]
          /\ home' = "durable"
       \/ /\ home = "fresh"
          /\ vis' = [s \in Snapshots |-> "none"]
          /\ home' = home
    /\ stable' = vis'
    /\ UNCHANGED safe

\* Stored bytes are damaged, by the medium or from outside.  A loader that has the
\* file open may have read them before, or have an older file of the name open.
Damage(s) ==
    /\ vis[s] = "good" /\ damages < MaxRot
    /\ vis' = [vis EXCEPT ![s] = "rotten"]
    /\ stable' = [stable EXCEPT ![s] = IF @ = "none" THEN "none" ELSE "rotten"]
    /\ acked' = acked \ {s}
    /\ damages' = damages + 1
    /\ owed' = [q \in Loaders |-> owed[q] /\ lsnap[q] # s]
    /\ \E hit \in SUBSET {q \in Loaders : lpc[q] = "read" /\ lsnap[q] = s} :
          bytes' = [q \in Loaders |-> IF q \in hit THEN "rotten" ELSE bytes[q]]
    /\ UNCHANGED <<home, safe, saving, lpc, lsnap, answer, crashes>>

SaveStep(p) == \/ \E s \in Snapshots : Create(p, s)
               \/ Write(p) \/ Sync(p) \/ Rename(p) \/ SyncDir(p)
               \/ Break(p) \/ CleanUp(p)
LoadStep(q) == (\E s \in Snapshots : Open(q, s)) \/ Verify(q)

Next == \/ \E p \in Savers : SaveStep(p)
        \/ \E q \in Loaders : LoadStep(q)
        \/ Kill \/ PowerLoss
        \/ \E s \in Snapshots : Damage(s)

Spec == Init /\ [][Next]_vars

-----------------------------------------------------------------------------
\* Properties.

TypeOK ==
    /\ home \in {"durable", "fresh"}
    /\ vis \in [Snapshots -> Content] /\ stable \in [Snapshots -> Content]
    /\ safe \subseteq Snapshots /\ acked \subseteq Snapshots
    /\ pc \in [Savers -> {"idle", "write", "sync", "rename", "syncdir", "fail"}]
    /\ snap \in [Savers -> Snapshots]
    /\ tmp \in [Savers -> {"none", "partial", "written", "synced"}]
    /\ \A p \in Savers : pc[p] = "rename" => tmp[p] = "synced"
    /\ lpc \in [Loaders -> {"idle", "read"}] /\ owed \in [Loaders -> BOOLEAN]
    /\ lsnap \in [Loaders -> Snapshots] /\ bytes \in [Loaders -> Content]
    /\ answer \in [Loaders -> {"none", "canceled", "missing", "unread", "damaged",
                             "undecoded", "request"}]
    /\ damages \in Nat /\ crashes \in Nat

(***************************************************************************)
(* Durability: a snapshot whose Save has returned an id can be read back   *)
(* intact, across kills, power failures and the failures of other Save     *)
(* calls for the same or another snapshot, until the medium damages it;    *)
(* saving a damaged snapshot again restores it (docs/architecture.md:23).  *)
(***************************************************************************)
AckedDurable == \A s \in acked : vis[s] = "good"

(***************************************************************************)
(* The comment at store.go:21: readers see complete files.  No order of    *)
(* concurrent writers, kills and power failures leaves an incomplete file  *)
(* under a snapshot's name, visibly or on the disk.                        *)
(***************************************************************************)
ReadersSeeComplete ==
    \A s \in Snapshots : vis[s] # "torn" /\ stable[s] # "torn"

(***************************************************************************)
(* No acknowledged snapshot is ever denied: a Load that begins after the   *)
(* acknowledgement does not call it missing or damaged (404, or an         *)
(* integrity failure), although other Save calls rename over its name, or  *)
(* fail half way, and crashes fall between and during the two, unless the  *)
(* medium damages it (store.go:21, 86-96).  Load may still fail for        *)
(* reasons of its own: its context, or a read that fails.                  *)
(***************************************************************************)
NeverDenied == \A q \in Loaders : owed[q] => answer[q] \notin {"missing", "damaged"}

V == INSTANCE Vault WITH present <- {s \in Snapshots : vis[s] = "good"},
                         acked <- acked

(***************************************************************************)
(* The file protocol implements the promise: only unacknowledged snapshots *)
(* are ever lost to a crash.                                               *)
(***************************************************************************)
ImplementsVault == V!Spec

=============================================================================
